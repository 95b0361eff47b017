--------------------------- MODULE TransferProofs ---------------------------
(***************************************************************************)
(* Proofs about Transfer.tla, for any number of concurrent transfers, any  *)
(* sizes and any limits: a failed write leaves no trace, a crash at any    *)
(* moment leaves a whole file under the path, and a read returns a part of *)
(* one version, complete up to the limit unless it says otherwise.         *)
(***************************************************************************)
EXTENDS Transfer, SequenceLemmas, FiniteSetTheorems

USE TransferAssumption

Label == Inode \cup {Program}
Contained == Seq(Label)
Progress == {"idle", "checked", "created", "filled", "flushed", "done", "failed"}

\* The types that the writes need.
WriteTypes ==
  /\ data \in [Inode -> Contained]
  /\ size \in [Writer -> Nat]
  /\ wpc \in [Writer -> Progress]
  /\ path \in onDisk /\ onDisk \subseteq Inode \cup {NoFile}
  /\ temps \subseteq Writer

\* Only a finished write is ever visible under the path, a crash included.
Visible == \A w \in Writer : w \in onDisk => wpc[w] = "done"

\* What a write has put into its inode, and what of it a crash leaves.
Kept ==
  /\ Original \in synced
  /\ \A w \in Writer :
       /\ wpc[w] \in {"flushed", "done"} => w \in synced
       /\ wpc[w] = "filled" /\ Running => data[w] = Payload(w)
       /\ wpc[w] = "flushed" => data[w] = Payload(w)
       /\ wpc[w] = "done" => IsPrefix(Payload(w), data[w])

\* No write has gone into the file that was there.
Untouched == \A k \in DOMAIN data[Original] : data[Original][k] \in {Original, Program}

WriteInv == WriteTypes /\ Visible /\ Kept /\ Untouched

-----------------------------------------------------------------------------
\* A file is a prefix of itself, and remains one of what is appended to it.
LEMMA PrefixReflexive == \A p \in Contained : IsPrefix(p, p)
  BY DEF IsPrefix, Contained

LEMMA PrefixAppend ==
  ASSUME NEW p \in Contained, NEW s \in Contained, NEW x \in Label, IsPrefix(p, s)
  PROVE  IsPrefix(p, Append(s, x))
<1>1. Len(p) \in Nat /\ Len(s) \in Nat /\ Len(p) <= Len(s)
  BY DEF IsPrefix, Contained
<1>2. Append(s, x) \in Contained /\ Len(Append(s, x)) = Len(s) + 1
  BY DEF Contained
<1>3. SubSeq(Append(s, x), 1, Len(p)) = SubSeq(s, 1, Len(p))
  BY <1>1, <1>2 DEF Contained
<1> QED
  BY <1>1, <1>2, <1>3 DEF IsPrefix

LEMMA PayloadTyped ==
  ASSUME size \in [Writer -> Nat], NEW w \in Writer
  PROVE  Payload(w) \in Contained
  BY DEF Payload, Contained, Label, Inode

-----------------------------------------------------------------------------
LEMMA WriteInit == Init => WriteInv
<1> SUFFICES ASSUME Init PROVE WriteInv
  OBVIOUS
<1>1. PICK n \in Sizes :
        data = [i \in Inode |-> IF i = Original THEN [k \in 1..n |-> Original] ELSE <<>>]
  BY DEF Init
<1>2. [k \in 1..n |-> Original] \in Contained /\ <<>> \in Contained
  BY DEF Contained, Label, Inode
<1>3. data \in [Inode -> Contained]
  BY <1>1, <1>2
<1>4. WriteTypes
  BY <1>3 DEF Init, WriteTypes, Inode, Progress
<1>5. Visible /\ Kept
  BY DEF Init, Visible, Kept
<1>6. Untouched
  BY <1>1 DEF Untouched, Inode
<1> QED
  BY <1>4, <1>5, <1>6 DEF WriteInv

\* Steps that leave the files and the writes alone.
LEMMA OtherSteps ==
  ASSUME WriteInv, UNCHANGED <<files, writes>>, Running' => Running
  PROVE  WriteInv'
<1> USE DEF files, writes
<1>1. WriteTypes' /\ Visible' /\ Untouched'
  BY DEF WriteInv, WriteTypes, Visible, Untouched
<1>2. Kept'
  BY DEF WriteInv, Kept, Payload
<1> QED
  BY <1>1, <1>2 DEF WriteInv

LEMMA GrowStep == WriteInv /\ Grow => WriteInv'
<1> SUFFICES ASSUME WriteInv, Grow PROVE WriteInv'
  OBVIOUS
<1> USE DEF WriteInv
<1>1. path \in Inode /\ data' = [data EXCEPT ![path] = Append(@, Program)]
      /\ UNCHANGED <<path, temps, synced, onDisk, up, wpc, size>>
  BY DEF Grow, WriteTypes, writes
<1>2. data[path] \in Contained /\ Program \in Label
  BY <1>1 DEF WriteTypes, Label
<1>3. Append(data[path], Program) \in Contained
  BY <1>2 DEF Contained
<1>4. WriteTypes' /\ Visible'
  BY <1>1, <1>3 DEF WriteTypes, Visible
<1>5. Kept'
  <2>1. path \in Writer => wpc[path] = "done" /\ IsPrefix(Payload(path), data[path])
    BY DEF WriteTypes, Visible, Kept
  <2>2. path \in Writer => IsPrefix(Payload(path), Append(data[path], Program))
    BY <1>2, <2>1, PayloadTyped, PrefixAppend DEF WriteTypes
  <2>3. \A w \in Writer : Payload(w)' = Payload(w)
    BY <1>1 DEF Payload
  <2>4. \A w \in Writer : w # path => data'[w] = data[w]
    BY <1>1 DEF WriteTypes
  <2>5. data'[path] = Append(data[path], Program)
    BY <1>1 DEF WriteTypes
  <2> QED
    BY <1>1, <2>1, <2>2, <2>3, <2>4, <2>5 DEF Kept, Running
<1>6. Untouched'
  <2>1. CASE path = Original
    <3>1. data'[Original] = Append(data[Original], Program)
      BY <1>1, <2>1 DEF WriteTypes
    <3>2. data[Original] \in Contained
      BY <1>2, <2>1
    <3>3. \A k \in DOMAIN Append(data[Original], Program) :
            \/ k \in DOMAIN data[Original]
               /\ Append(data[Original], Program)[k] = data[Original][k]
            \/ Append(data[Original], Program)[k] = Program
      BY <1>2, <3>2 DEF Contained
    <3> QED
      BY <3>1, <3>3 DEF Untouched
  <2>2. CASE path # Original
    BY <1>1, <2>2 DEF Untouched, WriteTypes
  <2> QED
    BY <2>1, <2>2
<1> QED
  BY <1>4, <1>5, <1>6

LEMMA CrashStep == WriteInv /\ Crash => WriteInv'
<1> SUFFICES ASSUME WriteInv, Crash PROVE WriteInv'
  OBVIOUS
<1> USE DEF WriteInv
<1>1. PICK lost \in SUBSET (Inode \ synced) :
        data' = [i \in Inode |-> IF i \in lost THEN <<>> ELSE data[i]]
  BY DEF Crash
<1>2. /\ path' \in onDisk /\ ~Running'
      /\ UNCHANGED <<temps, synced, onDisk, wpc, size>>
  BY DEF Crash, Running, writes
<1>3. <<>> \in Contained
  BY DEF Contained
<1>4. WriteTypes'
  BY <1>1, <1>2, <1>3 DEF WriteTypes
<1>5. Visible'
  BY <1>2 DEF Visible
<1>6. \A i \in Inode : i \in synced => data'[i] = data[i]
  BY <1>1
<1>7. Kept'
  <2>1. \A w \in Writer : Payload(w)' = Payload(w)
    BY <1>2 DEF Payload
  <2> QED
    BY <1>2, <1>6, <2>1 DEF Kept, Inode
<1>8. Untouched'
  BY <1>6 DEF Untouched, Kept, Inode
<1> QED
  BY <1>4, <1>5, <1>7, <1>8

-----------------------------------------------------------------------------
\* What every step of a write does: it moves that write on, and no other.
LEMMA WriteMoves ==
  ASSUME WriteInv, NEW w \in Writer, NEW place \in Progress, WriteGoes(w, place)
  PROVE  /\ wpc' \in [Writer -> Progress] /\ wpc'[w] = place
         /\ \A v \in Writer : v # w => wpc'[v] = wpc[v]
         /\ UNCHANGED size /\ \A v \in Writer : Payload(v)' = Payload(v)
         /\ Running' <=> Running
  BY DEF WriteGoes, WriteInv, WriteTypes, Payload, Running

\* The steps of a write before it is installed.
LEMMA PreparingSteps ==
  ASSUME WriteInv, NEW w \in Writer,
         WriteAsked(w) \/ WriteCreates(w) \/ WriteFills(w) \/ WriteSyncs(w)
  PROVE  WriteInv'
<1> USE DEF WriteInv
<1>0. {"failed", "checked", "created", "filled", "flushed"} \subseteq Progress
  BY DEF Progress
<1>1. CASE WriteAsked(w)
  <2>1. PICK place \in {"failed", "checked"} : wpc[w] = "idle" /\ WriteGoes(w, place)
    BY <1>1 DEF WriteAsked
  <2>2. UNCHANGED files
    BY <1>1 DEF WriteAsked
  <2> USE <1>0, <2>1, <2>2, WriteMoves DEF files
  <2>3. WriteTypes' /\ Untouched'
    BY DEF WriteTypes, Untouched
  <2>4. Visible'
    BY DEF Visible
  <2>6. Kept'
    BY DEF Kept
  <2> QED
    BY <2>3, <2>4, <2>6
<1>2. CASE WriteCreates(w)
  <2>1. /\ wpc[w] = "checked" /\ WriteGoes(w, "created")
        /\ temps' = temps \cup {w} /\ UNCHANGED <<data, path, synced, onDisk>>
    BY <1>2 DEF WriteCreates
  <2> USE <1>0, <2>1, WriteMoves
  <2>3. WriteTypes' /\ Untouched'
    BY DEF WriteTypes, Untouched
  <2>4. Visible'
    BY DEF Visible
  <2>6. Kept'
    BY DEF Kept
  <2> QED
    BY <2>3, <2>4, <2>6
<1>3. CASE WriteFills(w)
  <2>1. /\ wpc[w] = "created" /\ WriteGoes(w, "filled")
        /\ data' = [data EXCEPT ![w] = Payload(w)] /\ UNCHANGED <<path, temps, synced, onDisk>>
    BY <1>3 DEF WriteFills
  <2>2. Payload(w) \in Contained
    BY PayloadTyped DEF WriteTypes
  <2>3. /\ data' \in [Inode -> Contained] /\ data'[w] = Payload(w)
        /\ \A i \in Inode : i # w => data'[i] = data[i]
    BY <2>1, <2>2 DEF WriteTypes, Inode
  <2> USE <1>0, <2>1, <2>3, WriteMoves
  <2>4. WriteTypes'
    BY DEF WriteTypes
  <2>5. Visible'
    BY DEF Visible
  <2>7. Kept'
    BY DEF Kept, Inode
  <2>8. Untouched'
    BY DEF Untouched, Inode
  <2> QED
    BY <2>4, <2>5, <2>7, <2>8
<1>4. CASE WriteSyncs(w)
  <2>1. /\ Running /\ wpc[w] = "filled" /\ WriteGoes(w, "flushed")
        /\ synced' = synced \cup {w} /\ UNCHANGED <<data, path, temps, onDisk>>
    BY <1>4 DEF WriteSyncs
  <2> USE <1>0, <2>1, WriteMoves
  <2>3. WriteTypes' /\ Untouched'
    BY DEF WriteTypes, Untouched
  <2>4. Visible'
    BY DEF Visible
  <2>6. Kept'
    BY DEF Kept
  <2> QED
    BY <2>3, <2>4, <2>6
<1> QED
  BY <1>1, <1>2, <1>3, <1>4

\* A rename makes visible what is synced and whole.
LEMMA InstallStep ==
  ASSUME WriteInv, NEW w \in Writer, WriteInstalls(w)
  PROVE  WriteInv'
<1> USE DEF WriteInv
<1>1. /\ wpc[w] = "flushed" /\ WriteGoes(w, "done") /\ "done" \in Progress
      /\ path' = w /\ onDisk' = onDisk \cup {w} /\ temps' = temps \ {w}
      /\ UNCHANGED <<data, synced>>
  BY DEF WriteInstalls, Progress
<1>2. IsPrefix(Payload(w), data[w])
  BY <1>1, PayloadTyped, PrefixReflexive DEF Kept, WriteTypes
<1> USE <1>1, WriteMoves
<1>3. WriteTypes' /\ Untouched'
  BY DEF WriteTypes, Untouched, Inode
<1>4. Visible'
  BY DEF Visible
<1>6. Kept'
  BY <1>2 DEF Kept
<1> QED
  BY <1>3, <1>4, <1>6

LEMMA FailStep ==
  ASSUME WriteInv, NEW w \in Writer, WriteFails(w)
  PROVE  WriteInv'
<1> USE DEF WriteInv
<1>1. /\ wpc[w] \in {"checked", "created", "filled", "flushed"}
      /\ WriteGoes(w, "failed") /\ "failed" \in Progress
      /\ temps' \subseteq temps /\ UNCHANGED <<data, path, synced, onDisk>>
  BY DEF WriteFails, Progress
<1> USE <1>1, WriteMoves
<1>2. WriteTypes' /\ Untouched'
  BY DEF WriteTypes, Untouched
<1>3. Visible'
  BY DEF Visible
<1>4. Kept'
  BY DEF Kept
<1> QED
  BY <1>2, <1>3, <1>4

-----------------------------------------------------------------------------
LEMMA WriteStep == WriteInv /\ [Next]_vars => WriteInv'
<1> SUFFICES ASSUME WriteInv, [Next]_vars PROVE WriteInv'
  OBVIOUS
<1>1. ASSUME NEW w \in Writer,
             WriteAsked(w) \/ WriteCreates(w) \/ WriteFills(w) \/ WriteSyncs(w)
      PROVE  WriteInv'
  BY <1>1, PreparingSteps
<1>2. ASSUME NEW w \in Writer, WriteInstalls(w) PROVE WriteInv'
  BY <1>2, InstallStep
<1>3. ASSUME NEW w \in Writer, WriteFails(w) PROVE WriteInv'
  BY <1>3, FailStep
<1>4. ASSUME NEW r \in Reader, NEW offset \in Offsets, NEW max \in Limits,
             ReadOpens(r, offset, max)
      PROVE  WriteInv'
  BY <1>4, OtherSteps DEF ReadOpens, OnClient, Running
<1>5. ASSUME NEW r \in Reader, ReadTurn(r) \/ ReadFails(r) \/ ReadEnds(r) PROVE WriteInv'
  BY <1>5, OtherSteps DEF ReadTurn, ReadFails, ReadEnds, OnClient, Running
<1>6. ASSUME NEW r \in Reader, Collect(r) \/ Conclude(r) \/ GiveUp(r) PROVE WriteInv'
  BY <1>6, OtherSteps DEF Collect, Conclude, GiveUp, OnRelay, Running
<1>7. CASE Grow
  BY <1>7, GrowStep
<1>8. CASE Lose
  BY <1>8, OtherSteps DEF Lose, Linked, Running
<1>9. CASE Crash
  BY <1>9, CrashStep
<1>10. CASE UNCHANGED vars
  BY <1>10, OtherSteps DEF vars, Running
<1> QED
  BY <1>1, <1>2, <1>3, <1>4, <1>5, <1>6, <1>7, <1>8, <1>9, <1>10 DEF Next

\* The invariant of the writes, of which the two theorems below are consequences.
LEMMA WriteInvariant == Spec => []WriteInv
  BY WriteInit, WriteStep, PTL DEF Spec

\* A crash at any moment leaves under the path one whole file: writeFileTransfer never
\* shows a payload that is not complete and on the disk.
THEOREM WholeTarget == Spec => []TargetIsWhole
<1>1. WriteInv => TargetIsWhole
  BY DEF WriteInv, WriteTypes, Visible, Kept, Untouched, TargetIsWhole, Range
<1> QED
  BY <1>1, WriteInvariant, PTL

\* What a failed writeFileTransfer was to install has never been visible, and never will
\* be, whatever crash follows and whether or not its temporary file could be removed.
THEOREM FailedIsUnseen == Spec => []FailureIsInvisible
<1>1. WriteInv => FailureIsInvisible
  BY DEF WriteInv, Visible, FailureIsInvisible
<1> QED
  BY <1>1, WriteInvariant, PTL

-----------------------------------------------------------------------------
(* What is under way from a read to its answer: sequences of messages      *)

ChunkMsg == [type : {"file_chunk"}, seq : Nat, data : Contained]
ResultMsg == [type : {"result"}, error : {"", "file_not_found", "io_error"},
              truncated : BOOLEAN, sum : Contained]
Message == ChunkMsg \cup ResultMsg

Joins(r, p, q) == r = p \o q
Grown(m2, m, x) == m2 = Append(m, x)
Cut(m2, m) == Len(m2) <= Len(m) /\ \A k \in 1..Len(m2) : m2[k] = m[k]
Moved(g2, w2, g, w) == w # <<>> /\ g2 = Append(g, Head(w)) /\ w2 = Tail(w)
Flow(g, w) == g \o w

LEMMA FlowTyped ==
  ASSUME NEW g \in Seq(ChunkMsg), NEW w \in Seq(Message)
  PROVE  Flow(g, w) \in Seq(Message) /\ Len(Flow(g, w)) = Len(g) + Len(w)
<1>1. g \in Seq(Message)
  BY DEF Message
<1> QED
  BY <1>1 DEF Flow

LEMMA FlowGrows ==
  ASSUME NEW g \in Seq(ChunkMsg), NEW w \in Seq(Message), NEW x \in Message, NEW w2, Grown(w2, w, x)
  PROVE  w2 \in Seq(Message) /\ Grown(Flow(g, w2), Flow(g, w), x)
<1>1. g \in Seq(Message)
  BY DEF Message
<1> HIDE DEF Message
<1>2. w2 = Append(w, x) /\ w2 \in Seq(Message)
  BY DEF Grown
<1>3. g \o Append(w, x) = Append(g \o w, x)
  BY <1>1, AppendConcat
<1> QED
  BY <1>2, <1>3, Zenon DEF Grown, Flow

LEMMA FlowCut ==
  ASSUME NEW g \in Seq(ChunkMsg), NEW w \in Seq(Message), NEW w2 \in Seq(Message), Cut(w2, w)
  PROVE  Cut(Flow(g, w2), Flow(g, w))
<1> DEFINE m == g \o w
           m2 == g \o w2
           x == Len(g)
           y == Len(w)
           z == Len(w2)
<1>1. x \in Nat /\ y \in Nat /\ z \in Nat /\ z <= y
  BY DEF Cut
<1>2. /\ Len(m) = x + y /\ \A k \in 1..(x + y) : m[k] = IF k <= x THEN g[k] ELSE w[k - x]
      /\ Len(m2) = x + z /\ \A k \in 1..(x + z) : m2[k] = IF k <= x THEN g[k] ELSE w2[k - x]
  OBVIOUS
<1>3. \A k \in 1..z : w2[k] = w[k]
  BY DEF Cut
<1> HIDE DEF m, m2, x, y, z
<1>4. ASSUME NEW k \in 1..(x + z) PROVE m2[k] = m[k]
  <2>1. k \in 1..(x + y) /\ (~(k <= x) => k - x \in 1..z)
    BY <1>1
  <2> QED
    BY <1>2, <1>3, <2>1
<1> QED
  BY <1>1, <1>2, <1>4 DEF Cut, Flow, m, m2

LEMMA FlowMoves ==
  ASSUME NEW g \in Seq(ChunkMsg), NEW w \in Seq(Message), NEW g2, NEW w2, Moved(g2, w2, g, w),
         Head(w) \in ChunkMsg
  PROVE  Flow(g2, w2) = Flow(g, w) /\ g2 \in Seq(ChunkMsg) /\ w2 \in Seq(Message)
<1> DEFINE m == g \o w
           m2 == g2 \o w2
           x == Len(g)
           y == Len(w)
<1>1. x \in Nat /\ y \in Nat /\ y > 0 /\ Len(g2) = x + 1 /\ Len(w2) = y - 1
      /\ g2 \in Seq(ChunkMsg) /\ w2 \in Seq(Message)
  BY DEF Moved
<1>2. /\ \A k \in 1..x : g2[k] = g[k]
      /\ g2[x + 1] = w[1] /\ \A k \in 1..(y - 1) : w2[k] = w[k + 1]
  BY DEF Moved
<1>3. g \in Seq(Message) /\ g2 \in Seq(Message)
  BY <1>1 DEF Message
<1>4. /\ m \in Seq(Message) /\ Len(m) = x + y
      /\ \A k \in 1..(x + y) : m[k] = IF k <= x THEN g[k] ELSE w[k - x]
  BY <1>3
<1>5. /\ m2 \in Seq(Message) /\ Len(m2) = x + y
      /\ \A k \in 1..(x + y) : m2[k] = IF k <= x + 1 THEN g2[k] ELSE w2[k - (x + 1)]
  <2> DEFINE u == Len(g2)
             v == Len(w2)
  <2>1. /\ m2 \in Seq(Message) /\ Len(m2) = u + v
        /\ \A k \in 1..(u + v) : m2[k] = IF k <= u THEN g2[k] ELSE w2[k - u]
    <3>1. g2 \in Seq(Message) /\ w2 \in Seq(Message)
      BY <1>1, <1>3
    <3> QED
      BY <3>1
  <2>2. u = x + 1 /\ v = y - 1 /\ u + v = x + y
    BY <1>1
  <2> HIDE DEF u, v, m2
  <2> QED
    BY <2>1, <2>2
<1> HIDE DEF m, m2, x, y
<1>6. ASSUME NEW k \in 1..(x + y) PROVE m2[k] = m[k]
  <2>2. CASE k <= x
    <3>1. k \in 1..x /\ k <= x + 1
      BY <1>1, <2>2
    <3>2. m2[k] = g2[k] /\ m[k] = g[k]
      BY <1>4, <1>5, <2>2, <3>1
    <3> QED
      BY <1>2, <3>1, <3>2
  <2>3. CASE k = x + 1
    <3>1. ~(k <= x) /\ k <= x + 1 /\ k - x = 1
      BY <1>1, <2>3
    <3>2. m2[k] = g2[k] /\ m[k] = w[1]
      BY <1>4, <1>5, <3>1
    <3> QED
      BY <1>2, <2>3, <3>2
  <2>4. CASE k > x + 1
    <3>1. k - (x + 1) \in 1..(y - 1) /\ (k - (x + 1)) + 1 = k - x
      BY <1>1, <2>4
    <3>2. m2[k] = w2[k - (x + 1)] /\ m[k] = w[k - x]
      <4>1. ~(k <= x) /\ ~(k <= x + 1)
        BY <1>1, <2>4
      <4> QED
        BY <1>4, <1>5, <4>1
    <3> QED
      BY <1>2, <3>1, <3>2
  <2> QED
    BY <1>1, <2>2, <2>3, <2>4
<1>7. m2 = m
  <2>1. Len(m2) = Len(m) /\ \A k \in 1..Len(m) : m2[k] = m[k]
    BY <1>4, <1>5, <1>6
  <2> QED
    BY <1>4, <1>5, <2>1
<1> QED
  BY <1>1, <1>7 DEF m, m2, Flow

\* The first message not yet collected, and those before it.
LEMMA FlowAtHead ==
  ASSUME NEW g \in Seq(ChunkMsg), NEW w \in Seq(Message), w # <<>>
  PROVE  /\ Len(g) + 1 \in 1..Len(Flow(g, w)) /\ Flow(g, w)[Len(g) + 1] = Head(w)
         /\ First(Flow(g, w), Len(g)) = g /\ \A k \in 1..Len(g) : Flow(g, w)[k] = g[k]
<1> DEFINE m == g \o w
           x == Len(g)
<1>1. x \in Nat /\ Len(w) \in Nat \ {0} /\ g \in Seq(Message)
  BY DEF Message
<1>2. m \in Seq(Message) /\ Len(m) = x + Len(w) /\ (\A k \in 1..x : m[k] = g[k]) /\ m[x + 1] = w[1]
  BY <1>1
<1> HIDE DEF m
<1>3. x \in 0..Len(m)
  BY <1>1, <1>2
<1>4. First(m, x) \in Seq(Message) /\ Len(First(m, x)) = x /\ \A k \in 1..x : First(m, x)[k] = m[k]
  BY <1>2, <1>3, FirstProperties
<1>5. First(m, x) = g
  <2> DEFINE p == First(m, x)
  <2>1. \A k \in 1..x : p[k] = g[k]
    BY <1>2, <1>4
  <2>2. p \in Seq(Message) /\ Len(p) = Len(g)
    BY <1>4
  <2> HIDE DEF p
  <2>3. p = g
    BY <1>1, <2>1, <2>2
  <2> QED
    BY <2>3 DEF p
<1>6. Head(w) = w[1] /\ x + 1 \in 1..Len(m)
  BY <1>1, <1>2
<1> QED
  BY <1>2, <1>5, <1>6 DEF m, Flow

-----------------------------------------------------------------------------
(* The bytes of a sequence of chunks                                       *)

LEMMA BytesTyped ==
  ASSUME NEW m \in Seq(ChunkMsg)
  PROVE  [k \in DOMAIN m |-> m[k].data] \in Seq(Contained) /\ Bytes(m) \in Contained
<1>1. \A k \in 1..Len(m) : m[k].data \in Contained
  <2>1. \A k \in 1..Len(m) : m[k] \in ChunkMsg
    OBVIOUS
  <2>2. \A c \in ChunkMsg : c.data \in Contained
    BY DEF ChunkMsg
  <2> QED
    BY <2>1, <2>2
<1> DEFINE parts == [k \in DOMAIN m |-> m[k].data]
<1>2. parts \in Seq(Contained)
  BY <1>1
<1>3. FlattenSeq(parts) \in Contained
  <2> HIDE DEF parts
  <2> QED
    BY <1>2, FlattenType DEF Contained
<1> QED
  BY <1>2, <1>3 DEF Bytes

LEMMA NoBytes == Bytes(<<>>) = <<>>
<1>1. [k \in DOMAIN <<>> |-> <<>>[k].data] = <<>>
  OBVIOUS
<1> QED
  BY <1>1, FlattenEmpty DEF Bytes

LEMMA BytesGrow ==
  ASSUME NEW m \in Seq(ChunkMsg), NEW c \in ChunkMsg, NEW m2, Grown(m2, m, c)
  PROVE  m2 \in Seq(ChunkMsg) /\ Len(m2) = Len(m) + 1 /\ Joins(Bytes(m2), Bytes(m), c.data)
<1> DEFINE parts == [k \in DOMAIN m |-> m[k].data]
           more == [k \in DOMAIN m2 |-> m2[k].data]
           d == c.data
<1>1. m2 \in Seq(ChunkMsg) /\ Len(m2) = Len(m) + 1 /\ Len(m) \in Nat
      /\ m2[Len(m) + 1] = c /\ \A k \in 1..Len(m) : m2[k] = m[k]
  BY DEF Grown
<1>2. parts \in Seq(Contained) /\ more \in Seq(Contained) /\ d \in Contained
  BY <1>1, BytesTyped DEF ChunkMsg
<1>3. Len(parts) = Len(m) /\ Len(more) = Len(m) + 1 /\ more[Len(m) + 1] = d
      /\ \A k \in 1..Len(m) : more[k] = parts[k]
  BY <1>1
<1>4. Bytes(m) = FlattenSeq(parts) /\ Bytes(m2) = FlattenSeq(more)
  BY DEF Bytes
<1> HIDE DEF parts, more, d
<1>5. more = Append(parts, d)
  BY <1>1, <1>2, <1>3
<1>6. FlattenSeq(Append(parts, d)) = FlattenSeq(parts) \o d
  BY <1>2, FlattenAppend DEF Contained
<1> QED
  BY <1>1, <1>4, <1>5, <1>6, Zenon DEF Joins, d

\* Chunks that came in order are left in order.
LEMMA SortedAlready ==
  ASSUME NEW m \in Seq(ChunkMsg), \A k \in 1..Len(m) : m[k].seq = k - 1
  PROVE  Reassembled(m) = Bytes(m)
<1> DEFINE n == Len(m)
<1>1. n \in Nat /\ DOMAIN m = 1..n
  OBVIOUS
<1> HIDE DEF n
<1>2. ASSUME NEW i \in 1..n PROVE Place(m, i) = i
  <2>1. {j \in DOMAIN m : m[j].seq < m[i].seq \/ (m[j].seq = m[i].seq /\ j <= i)} = 1..i
    BY <1>1 DEF n
  <2>2. Cardinality(1..i) = i
    BY <1>1, FS_Interval
  <2> QED
    BY <2>1, <2>2 DEF Place
<1>3. ASSUME NEW k \in 1..n PROVE m[CHOOSE i \in 1..n : Place(m, i) = k] = m[k]
  <2> DEFINE c == CHOOSE i \in 1..n : Place(m, i) = k
  <2>1. c \in 1..n /\ Place(m, c) = k
    BY <1>2
  <2> HIDE DEF c
  <2>2. c = k
    BY <1>2, <2>1
  <2> QED
    BY <2>2 DEF c
<1>4. Sorted(m) = [k \in 1..n |-> m[k]]
  BY <1>1, <1>3 DEF Sorted
<1>5. m = [k \in 1..n |-> m[k]]
  BY <1>1
<1> QED
  BY <1>4, <1>5, Zenon DEF Reassembled

-----------------------------------------------------------------------------
(* Pieces of a file                                                        *)

PieceAt(file, offset, sum) ==
  sum = <<>> \/ (offset + Len(sum) <= Len(file) /\ \A k \in 1..Len(sum) : sum[k] = file[offset + k])

\* What Slice(r, n) reads of a file, from a place on.
SliceAt(bytes, file, from, n) == bytes = SubSeq(file, from + 1, Least(from + n, Len(file)))

Extended(file, file2) == Len(file) <= Len(file2) /\ \A k \in 1..Len(file) : file2[k] = file[k]

LEMMA PieceStays ==
  ASSUME NEW file \in Contained, NEW file2 \in Contained, Extended(file, file2),
         NEW offset \in Nat, NEW sum \in Contained, PieceAt(file, offset, sum)
  PROVE  PieceAt(file2, offset, sum)
<1> DEFINE m == Len(sum)
           n == Len(file)
<1>1. m \in Nat /\ n \in Nat /\ Len(file2) \in Nat
  BY DEF Contained
<1>2. SUFFICES ASSUME sum # <<>> PROVE PieceAt(file2, offset, sum)
  BY DEF PieceAt
<1>3. offset + m <= n /\ \A k \in 1..m : sum[k] = file[offset + k]
  BY <1>2 DEF PieceAt
<1>4. n <= Len(file2) /\ \A k \in 1..n : file2[k] = file[k]
  BY DEF Extended
<1> HIDE DEF m, n
<1>5. \A k \in 1..m : offset + k \in 1..n
  BY <1>1, <1>3
<1>6. offset + m <= Len(file2) /\ \A k \in 1..m : sum[k] = file2[offset + k]
  BY <1>1, <1>3, <1>4, <1>5
<1> QED
  BY <1>6 DEF PieceAt, m

LEMMA SliceTyped ==
  ASSUME NEW file \in Contained, NEW from \in Nat, NEW n \in Nat, NEW bytes, SliceAt(bytes, file, from, n)
  PROVE  /\ bytes \in Contained /\ Len(bytes) <= n
         /\ Len(bytes) < n => Len(file) <= from + Len(bytes)
         /\ bytes # <<>> => from + Len(bytes) <= Len(file)
         /\ \A k \in 1..Len(bytes) : bytes[k] = file[from + k]
<1> DEFINE whole == Len(file)
           to == Least(from + n, whole)
<1>1. whole \in Nat /\ to \in Nat /\ to <= whole /\ to <= from + n /\ (to = whole \/ to = from + n)
  BY DEF Contained, Least
<1>2. bytes = SubSeq(file, from + 1, to)
  BY DEF SliceAt
<1> HIDE DEF to
<1>3. CASE to <= from
  <2>1. bytes = <<>>
    BY <1>1, <1>2, <1>3 DEF Contained
  <2>2. Len(bytes) = 0 /\ bytes \in Contained
    BY <2>1 DEF Contained
  <2>3. n > 0 => whole <= from + 0
    BY <1>1, <1>3
  <2> HIDE DEF whole
  <2> QED
    BY <1>1, <2>1, <2>2, <2>3 DEF whole
<1>4. CASE to > from
  <2>1. from + 1 \in 1..(whole + 1) /\ to \in (from + 1)..whole /\ to - (from + 1) + 1 = to - from
    BY <1>1, <1>4
  <2>2. /\ SubSeq(file, from + 1, to) \in Seq(Label)
        /\ Len(SubSeq(file, from + 1, to)) = to - from
        /\ \A k \in 1..(to - from) : SubSeq(file, from + 1, to)[k] = file[from + k]
    BY <1>1, <2>1 DEF Contained
  <2>3. bytes \in Contained /\ Len(bytes) = to - from /\ \A k \in 1..(to - from) : bytes[k] = file[from + k]
    BY <1>2, <2>2 DEF Contained
  <2> HIDE DEF whole
  <2>4. from + (to - from) = to /\ to - from <= n /\ (to - from < n => to = whole)
    BY <1>1, <1>4
  <2> QED
    BY <1>1, <2>3, <2>4 DEF whole
<1> QED
  BY <1>1, <1>3, <1>4

LEMMA PieceGrows ==
  ASSUME NEW file \in Contained, NEW offset \in Nat, NEW sum \in Contained, PieceAt(file, offset, sum),
         NEW n \in Nat, NEW bytes, SliceAt(bytes, file, offset + Len(sum), n),
         NEW more, Joins(more, sum, bytes)
  PROVE  more \in Contained /\ Len(more) = Len(sum) + Len(bytes) /\ PieceAt(file, offset, more)
<1> DEFINE x == Len(sum)
           y == Len(bytes)
           z == Len(file)
<1>1. x \in Nat /\ z \in Nat
  BY DEF Contained
<1>2. /\ bytes \in Contained /\ (bytes # <<>> => (offset + x) + y <= z)
      /\ \A k \in 1..y : bytes[k] = file[(offset + x) + k]
  BY <1>1, SliceTyped
<1>3. y \in Nat /\ (bytes = <<>> <=> y = 0) /\ (sum = <<>> <=> x = 0)
  BY <1>2 DEF Contained
<1>4. /\ more \in Contained /\ Len(more) = x + y
      /\ \A k \in 1..(x + y) : more[k] = IF k <= x THEN sum[k] ELSE bytes[k - x]
  BY <1>2 DEF Joins, Contained
<1>5. x > 0 => offset + x <= z /\ \A k \in 1..x : sum[k] = file[offset + k]
  BY <1>3 DEF PieceAt
<1>6. more = <<>> <=> x + y = 0
  BY <1>4 DEF Contained
<1> HIDE DEF x, y, z
<1>7. CASE x + y = 0
  BY <1>4, <1>6, <1>7 DEF PieceAt, x, y
<1>8. CASE x + y > 0
  <2>1. offset + (x + y) <= z
    BY <1>1, <1>2, <1>3, <1>5, <1>8
  <2>2. ASSUME NEW k \in 1..(x + y) PROVE more[k] = file[offset + k]
    <3>1. CASE k <= x
      BY <1>1, <1>4, <1>5, <3>1
    <3>2. CASE ~(k <= x)
      <4>1. k - x \in 1..y /\ (offset + x) + (k - x) = offset + k
        BY <1>1, <1>3, <3>2
      <4> QED
        BY <1>2, <1>4, <3>2, <4>1
    <3> QED
      BY <3>1, <3>2
  <2> QED
    BY <1>4, <2>1, <2>2 DEF PieceAt, x, y, z
<1> QED
  BY <1>1, <1>3, <1>7, <1>8

-----------------------------------------------------------------------------
(* What the relay will make of what is under way                           *)

\* What the result says truly of what was read of a file.
Truth(file, offset, limit, sum, truncated) ==
  /\ PieceAt(file, offset, sum)
  /\ Len(sum) # limit => ~(Len(file) > offset + Len(sum))
  /\ truncated => Len(sum) = limit /\ Len(file) > offset + Len(sum)

Delivers(chunks, offset, limit, result, vs) ==
  result.error = "" => /\ Bytes(chunks) = result.sum
                       /\ \E file \in vs : Truth(file, offset, limit, result.sum, result.truncated)

\* The chunks are numbered, and the result comes last.
InOrder(m, offset, limit, vs) ==
  \A k \in 1..Len(m) :
    IF m[k] \in ChunkMsg THEN m[k].seq = k - 1
    ELSE k = Len(m) /\ Delivers(First(m, k - 1), offset, limit, m[k], vs)

LEMMA Kinds == \A x \in Message : (x \in ChunkMsg <=> x.type = "file_chunk")
                                  /\ (x \in ResultMsg <=> x.type = "result")
  BY DEF Message, ChunkMsg, ResultMsg

LEMMA OrderedChunk ==
  ASSUME NEW m \in Seq(ChunkMsg), NEW c \in ChunkMsg, NEW m2, Grown(m2, m, c), c.seq = Len(m),
         NEW offset, NEW limit, NEW vs, InOrder(m, offset, limit, vs)
  PROVE  InOrder(m2, offset, limit, vs)
<1> DEFINE n == Len(m)
<1>1. n \in Nat /\ m2 \in Seq(ChunkMsg) /\ Len(m2) = n + 1 /\ m2[n + 1] = c
      /\ \A k \in 1..n : m2[k] = m[k] /\ m[k] \in ChunkMsg
  BY DEF Grown
<1>2. \A k \in 1..n : m[k].seq = k - 1
  BY <1>1 DEF InOrder
<1> HIDE DEF n
<1>3. ASSUME NEW k \in 1..(n + 1) PROVE m2[k] \in ChunkMsg /\ m2[k].seq = k - 1
  <2>1. k \in 1..n \/ k = n + 1
    BY <1>1
  <2> QED
    BY <1>1, <1>2, <2>1 DEF n
<1> QED
  BY <1>1, <1>3 DEF InOrder

LEMMA OrderedResult ==
  ASSUME NEW m \in Seq(ChunkMsg), NEW x \in ResultMsg, NEW m2, Grown(m2, m, x),
         NEW offset, NEW limit, NEW vs, InOrder(m, offset, limit, vs),
         Delivers(m, offset, limit, x, vs)
  PROVE  InOrder(m2, offset, limit, vs)
<1> DEFINE n == Len(m)
<1>10. n \in Nat /\ \A k \in 1..n : m[k] \in ChunkMsg
  OBVIOUS
<1>0. m \in Seq(Message) /\ x \in Message
  BY SeqSubset DEF Message
<1>1. n \in Nat /\ m2 \in Seq(Message) /\ Len(m2) = n + 1 /\ m2[n + 1] = x
      /\ \A k \in 1..n : m2[k] = m[k] /\ m[k] \in ChunkMsg
  <2>1. m2 = Append(m, x)
    BY DEF Grown
  <2> QED
    BY <1>0, <1>10, <2>1
<1>2. \A k \in 1..n : m[k].seq = k - 1
  BY <1>1 DEF InOrder
<1>3. First(m2, n) = m
  <2>1. n \in 0..Len(m2)
    BY <1>1
  <2>2. First(m2, n) \in Seq(Message) /\ Len(First(m2, n)) = n
        /\ \A k \in 1..n : First(m2, n)[k] = m2[k]
    BY <1>1, <2>1, FirstProperties
  <2> QED
    BY <1>0, <1>1, <2>2
<1>4. x \notin ChunkMsg
  BY <1>0, Kinds DEF ResultMsg
<1> HIDE DEF n
<1>5. (n + 1) - 1 = n
  BY <1>1
<1> DEFINE prefix == First(m2, (n + 1) - 1)
<1>6. prefix = m
  BY <1>3, <1>5
<1> HIDE DEF prefix
<1>7. Delivers(prefix, offset, limit, x, vs)
  BY <1>6
<1>8. ASSUME NEW k \in 1..(n + 1)
      PROVE  IF m2[k] \in ChunkMsg THEN m2[k].seq = k - 1
             ELSE k = n + 1 /\ Delivers(First(m2, k - 1), offset, limit, m2[k], vs)
  <2>1. CASE k \in 1..n
    BY <1>1, <1>2, <2>1
  <2>2. CASE k = n + 1
    BY <1>1, <1>4, <1>7, <2>2 DEF prefix
  <2> QED
    BY <1>1, <2>1, <2>2
<1> QED
  BY <1>1, <1>8 DEF InOrder

LEMMA OrderedCut ==
  ASSUME NEW m \in Seq(Message), NEW m2 \in Seq(Message), Cut(m2, m),
         NEW offset, NEW limit, NEW vs, InOrder(m, offset, limit, vs)
  PROVE  InOrder(m2, offset, limit, vs)
<1>1. Len(m2) \in Nat /\ Len(m) \in Nat /\ Len(m2) <= Len(m) /\ \A k \in 1..Len(m2) : m2[k] = m[k]
  BY DEF Cut
<1>2. SUFFICES ASSUME NEW k \in 1..Len(m2), m2[k] \notin ChunkMsg
               PROVE  k = Len(m2) /\ Delivers(First(m2, k - 1), offset, limit, m2[k], vs)
  <2>1. ASSUME NEW k \in 1..Len(m2), m2[k] \in ChunkMsg PROVE m2[k].seq = k - 1
    <3>1. k \in 1..Len(m) /\ m[k] = m2[k]
      BY <1>1
    <3> QED
      BY <2>1, <3>1 DEF InOrder
  <2> QED
    BY <2>1, Zenon DEF InOrder
<1>3. k \in 1..Len(m) /\ m[k] \notin ChunkMsg
  BY <1>1, <1>2
<1>4. k = Len(m)
  BY <1>3 DEF InOrder
<1>5. Len(m2) = Len(m)
  BY <1>1, <1>2, <1>4
<1>6. m2 = m
  BY <1>1, <1>5
<1> QED
  BY <1>3, <1>6 DEF InOrder

LEMMA OrderedLater ==
  ASSUME NEW m \in Seq(Message), NEW offset, NEW limit, NEW vs, NEW vs2, vs \subseteq vs2,
         InOrder(m, offset, limit, vs)
  PROVE  InOrder(m, offset, limit, vs2)
<1>1. \A chunks, x : Delivers(chunks, offset, limit, x, vs) => Delivers(chunks, offset, limit, x, vs2)
  BY DEF Delivers
<1> QED
  BY <1>1 DEF InOrder

\* A message is sent: a chunk of what the hasher was given next, or the result.
LEMMA ChunkSent ==
  ASSUME NEW g \in Seq(ChunkMsg), NEW w \in Seq(Message), Flow(g, w) \in Seq(ChunkMsg),
         NEW offset, NEW limit, NEW vs, InOrder(Flow(g, w), offset, limit, vs),
         NEW c \in ChunkMsg, c.seq = Len(Flow(g, w)), NEW w2, Grown(w2, w, c)
  PROVE  /\ w2 \in Seq(Message) /\ Flow(g, w2) \in Seq(ChunkMsg) /\ Len(Flow(g, w2)) = Len(Flow(g, w)) + 1
         /\ InOrder(Flow(g, w2), offset, limit, vs)
         /\ Joins(Bytes(Flow(g, w2)), Bytes(Flow(g, w)), c.data)
<1> DEFINE m == Flow(g, w)
           m2 == Flow(g, w2)
<1>1. c \in Message
  BY DEF Message
<1>2. w2 \in Seq(Message) /\ Grown(m2, m, c)
  BY <1>1, FlowGrows
<1>3. m \in Seq(ChunkMsg) /\ c.seq = Len(m) /\ InOrder(m, offset, limit, vs)
  OBVIOUS
<1> HIDE DEF m, m2
<1>4. m2 \in Seq(ChunkMsg) /\ Len(m2) = Len(m) + 1 /\ Joins(Bytes(m2), Bytes(m), c.data)
  BY <1>2, <1>3, BytesGrow
<1>5. InOrder(m2, offset, limit, vs)
  BY <1>2, <1>3, OrderedChunk
<1> QED
  BY <1>2, <1>4, <1>5 DEF m, m2

LEMMA ResultSent ==
  ASSUME NEW g \in Seq(ChunkMsg), NEW w \in Seq(Message), Flow(g, w) \in Seq(ChunkMsg),
         NEW offset, NEW limit, NEW vs, InOrder(Flow(g, w), offset, limit, vs),
         NEW x \in ResultMsg, Delivers(Flow(g, w), offset, limit, x, vs), NEW w2, Grown(w2, w, x)
  PROVE  w2 \in Seq(Message) /\ InOrder(Flow(g, w2), offset, limit, vs)
<1> DEFINE m == Flow(g, w)
           m2 == Flow(g, w2)
<1>1. x \in Message
  BY DEF Message
<1>2. w2 \in Seq(Message) /\ Grown(m2, m, x)
  BY <1>1, FlowGrows
<1>3. m \in Seq(ChunkMsg) /\ Delivers(m, offset, limit, x, vs) /\ InOrder(m, offset, limit, vs)
  OBVIOUS
<1> HIDE DEF m, m2
<1>4. InOrder(m2, offset, limit, vs)
  BY <1>2, <1>3, OrderedResult
<1> QED
  BY <1>2, <1>4 DEF m, m2

-----------------------------------------------------------------------------
(* The invariant of the reads                                              *)

Fresh == [pc : {"idle"}]
Active == [pc : {"reading", "ended"}, file : Inode, offset : Nat, limit : Nat,
           sum : Contained, seq : Nat]
Finished == [pc : {"over"}, offset : Nat, limit : Nat]
Read == Fresh \cup Active \cup Finished
Refusal == {"timeout", "client_disconnected", "file_too_large", "file_not_found", "io_error"}
Answers == [status : {"none"} \cup Refusal]
           \cup [status : {"ok"}, content : Contained, sha256 : Contained, truncated : BOOLEAN]

ReadTypes ==
  /\ rd \in [Reader -> Read] /\ answer \in [Reader -> Answers]
  /\ got \in [Reader -> Seq(ChunkMsg)] /\ wire \in [Reader -> Seq(Message)]
  /\ versions \subseteq Contained
  /\ Running /\ path # NoFile => data[path] \in versions

Flown(r) == Flow(got[r], wire[r])

Unasked(r) == rd[r].pc = "idle" => Flown(r) = <<>> /\ answer[r].status = "none"

\* While the client runs, what the hasher was given is a piece of the file as it is, of
\* which no temporary name is left.
FileRead(i) == data[i] \in versions /\ (i \in Writer => wpc[i] = "done")
Hashed(r) ==
  rd[r].pc = "reading" =>
    /\ Len(rd[r].sum) <= rd[r].limit
    /\ Running => FileRead(rd[r].file) /\ PieceAt(data[rd[r].file], rd[r].offset, rd[r].sum)

\* After a short read, it went to the end of some version.
AtEnd(file, offset, sum) == PieceAt(file, offset, sum) /\ Len(file) <= offset + Len(sum)
Ended(r) == rd[r].pc = "ended" => \E file \in versions : AtEnd(file, rd[r].offset, rd[r].sum)

InFlight(r) == answer[r].status = "none" => InOrder(Flown(r), rd[r].offset, rd[r].limit, versions)
Sending(r) ==
  answer[r].status = "none" /\ Linked /\ rd[r].pc \in {"reading", "ended"} =>
    Flown(r) \in Seq(ChunkMsg) /\ Len(Flown(r)) = rd[r].seq /\ Bytes(Flown(r)) = rd[r].sum

Answered(r) ==
  answer[r].status = "ok" =>
    /\ answer[r].sha256 = answer[r].content
    /\ \E file \in versions :
         Truth(file, rd[r].offset, rd[r].limit, answer[r].content, answer[r].truncated)

ReaderInv(r) == Unasked(r) /\ Hashed(r) /\ Ended(r) /\ InFlight(r) /\ Sending(r) /\ Answered(r)
ReadInv == ReadTypes /\ \A r \in Reader : ReaderInv(r)

LEMMA ReadKinds ==
  ASSUME NEW t \in Read
  PROVE  /\ t.pc \in {"idle", "reading", "ended", "over"}
         /\ t.pc \in {"reading", "ended"} => t \in Active
         /\ t.pc # "idle" => t.offset \in Nat /\ t.limit \in Nat
         /\ t \in Active => t.file \in Inode /\ t.offset \in Nat /\ t.limit \in Nat
                            /\ t.sum \in Contained /\ t.seq \in Nat
  BY DEF Read, Fresh, Active, Finished

LEMMA ReadInit == Init => ReadInv
<1> SUFFICES ASSUME Init PROVE ReadInv
  OBVIOUS
<1>1. WriteInv
  BY WriteInit
<1>2. [pc |-> "idle"] \in Read /\ [status |-> "none"] \in Answers
  BY DEF Read, Fresh, Answers
<1>3. /\ rd = [r \in Reader |-> [pc |-> "idle"]] /\ answer = [r \in Reader |-> [status |-> "none"]]
      /\ wire = [r \in Reader |-> <<>>] /\ got = [r \in Reader |-> <<>>]
  BY DEF Init, Pending
<1>4. ReadTypes
  <2>1. versions = Contents /\ path \in {Original, NoFile} /\ data \in [Inode -> Contained]
    BY <1>1 DEF Init, WriteInv, WriteTypes
  <2>2. versions \subseteq Contained /\ (path # NoFile => data[path] \in versions)
    BY <2>1 DEF Contents, Inode
  <2>3. got \in [Reader -> Seq(ChunkMsg)] /\ wire \in [Reader -> Seq(Message)]
    BY <1>3
  <2> QED
    BY <1>2, <1>3, <2>2, <2>3 DEF ReadTypes
<1>5. ASSUME NEW r \in Reader PROVE ReaderInv(r)
  <2>1. rd[r].pc = "idle" /\ answer[r].status = "none" /\ got[r] = <<>> /\ wire[r] = <<>>
    BY <1>3
  <2>2. Flown(r) = <<>>
    BY <2>1 DEF Flown, Flow
  <2>3. InOrder(Flown(r), rd[r].offset, rd[r].limit, versions)
    BY <2>2 DEF InOrder
  <2> QED
    BY <2>1, <2>2, <2>3 DEF ReaderInv, Unasked, Hashed, Ended, InFlight, Sending, Answered
<1> QED
  BY <1>4, <1>5 DEF ReadInv

-----------------------------------------------------------------------------
(* Steps that leave a reader alone                                         *)

\* A file that is open for reading is only ever appended to.
FilesStay ==
  /\ versions \subseteq versions' /\ (Running' => Running)
  /\ Running' => \A i \in Inode : FileRead(i) => FileRead(i)' /\ Extended(data[i], data'[i])

\* At most, the end of what is under way to the relay is lost with the connection.
LeftAlone(r) ==
  /\ UNCHANGED <<rd[r], got[r], answer[r]>>
  /\ ((Linked' => Linked) /\ UNCHANGED wire[r]) \/ (~Linked' /\ Cut(wire'[r], wire[r]))

LEMMA ReaderStays ==
  ASSUME WriteInv, WriteInv', ReadTypes, ReadTypes', FilesStay, NEW r \in Reader, ReaderInv(r),
         LeftAlone(r)
  PROVE  ReaderInv(r)'
<1> USE DEF FilesStay, LeftAlone
<1>1. /\ rd[r] \in Read /\ rd'[r] = rd[r] /\ answer'[r] = answer[r] /\ got'[r] = got[r]
      /\ got[r] \in Seq(ChunkMsg) /\ wire[r] \in Seq(Message) /\ wire'[r] \in Seq(Message)
      /\ Flown(r) \in Seq(Message) /\ Flown(r)' \in Seq(Message)
  BY FlowTyped DEF ReadTypes, Flown
<1>2. \/ (Linked' => Linked) /\ Flown(r)' = Flown(r)
      \/ ~Linked' /\ Cut(Flown(r)', Flown(r))
  <2>1. UNCHANGED wire[r] => Flown(r)' = Flown(r)
    BY <1>1 DEF Flown
  <2>2. Cut(wire'[r], wire[r]) => Cut(Flown(r)', Flown(r))
    <3> DEFINE g == got[r]
               w == wire[r]
               w2 == wire'[r]
    <3>1. g \in Seq(ChunkMsg) /\ w \in Seq(Message) /\ w2 \in Seq(Message)
      BY <1>1
    <3>2. Flown(r) = Flow(g, w) /\ Flown(r)' = Flow(g, w2)
      BY <1>1 DEF Flown
    <3> HIDE DEF g, w, w2
    <3>3. Cut(w2, w) => Cut(Flow(g, w2), Flow(g, w))
      BY <3>1, FlowCut
    <3> QED
      BY <3>2, <3>3 DEF w, w2
  <2> QED
    BY <2>1, <2>2
<1>3. Unasked(r)'
  <2>1. Cut(Flown(r)', Flown(r)) /\ Flown(r) = <<>> => Flown(r)' = <<>>
    BY <1>1 DEF Cut
  <2> QED
    BY <1>1, <1>2, <2>1 DEF ReaderInv, Unasked
<1>4. Hashed(r)'
  <2> SUFFICES ASSUME rd[r].pc = "reading", Running'
               PROVE  FileRead(rd[r].file)' /\ PieceAt(data'[rd[r].file], rd[r].offset, rd[r].sum)
    BY <1>1 DEF ReaderInv, Hashed, FileRead
  <2> DEFINE i == rd[r].file
             offset == rd[r].offset
             sum == rd[r].sum
             file == data[i]
             file2 == data'[i]
  <2>1. i \in Inode /\ offset \in Nat /\ sum \in Contained
    BY <1>1, ReadKinds
  <2>2. FileRead(i) /\ PieceAt(file, offset, sum)
    BY DEF ReaderInv, Hashed
  <2>3. FileRead(i)' /\ Extended(file, file2) /\ file \in Contained /\ file2 \in Contained
    BY <2>1, <2>2 DEF WriteInv, WriteTypes
  <2> HIDE DEF file, file2, offset, sum
  <2>4. PieceAt(file2, offset, sum)
    BY <2>1, <2>2, <2>3, PieceStays
  <2> QED
    BY <2>3, <2>4 DEF file2, offset, sum
<1>5. Ended(r)'
  BY <1>1 DEF ReaderInv, Ended
<1>6. InFlight(r)'
  <2> SUFFICES ASSUME answer[r].status = "none"
               PROVE  InOrder(Flown(r)', rd[r].offset, rd[r].limit, versions')
    BY <1>1 DEF InFlight
  <2> DEFINE m == Flown(r)
             m2 == Flown(r)'
             offset == rd[r].offset
             limit == rd[r].limit
  <2>1. InOrder(m, offset, limit, versions)
    BY DEF ReaderInv, InFlight
  <2>2. m \in Seq(Message) /\ m2 \in Seq(Message) /\ (m2 = m \/ Cut(m2, m))
    BY <1>1, <1>2
  <2> HIDE DEF m, m2, offset, limit
  <2>3. InOrder(m2, offset, limit, versions)
    BY <2>1, <2>2, OrderedCut
  <2>4. InOrder(m2, offset, limit, versions')
    BY <2>2, <2>3, OrderedLater
  <2> QED
    BY <2>4 DEF m2, offset, limit
<1>7. Sending(r)'
  BY <1>1, <1>2 DEF ReaderInv, Sending
<1>8. Answered(r)'
  BY <1>1 DEF ReaderInv, Answered
<1> QED
  BY <1>3, <1>4, <1>5, <1>6, <1>7, <1>8 DEF ReaderInv

-----------------------------------------------------------------------------
(* Steps of one reader                                                     *)

\* The variables of no other reader change.
Alone(r) == \A q \in Reader \ {r} : UNCHANGED <<rd[q], wire[q], got[q], answer[q]>>

LEMMA OneReader ==
  ASSUME WriteInv, ReadInv, UNCHANGED <<files, up, writes>>, NEW r \in Reader,
         rd' \in [Reader -> Read], answer' \in [Reader -> Answers],
         got' \in [Reader -> Seq(ChunkMsg)], wire' \in [Reader -> Seq(Message)],
         Alone(r), ReaderInv(r)'
  PROVE  ReadInv'
<1>1. /\ UNCHANGED <<data, path, versions, up, wpc>> /\ (Running' <=> Running) /\ (Linked' <=> Linked)
  BY DEF files, writes, Running, Linked
<1>2. WriteInv'
  BY OtherSteps DEF Running
<1>3. ReadTypes'
  BY <1>1 DEF ReadInv, ReadTypes
<1>4. FilesStay
  BY <1>1 DEF FilesStay, FileRead, Extended, WriteInv, WriteTypes, Contained
<1>5. ASSUME NEW q \in Reader, q # r PROVE ReaderInv(q)'
  <2>1. LeftAlone(q)
    BY <1>1, <1>5 DEF Alone, LeftAlone
  <2>2. ReadTypes /\ ReaderInv(q)
    BY DEF ReadInv
  <2> QED
    BY <1>1, <1>2, <1>3, <1>4, <2>1, <2>2, ReaderStays
<1> QED
  BY <1>3, <1>5 DEF ReadInv

Single(messages, x) == messages = <<x>>
Pair(messages, x, y) == messages = <<x>> \o <<y>>

LEMMA SingleTyped ==
  ASSUME NEW x \in Message, NEW messages, Single(messages, x)
  PROVE  messages \in Seq(Message)
  BY DEF Single

LEMMA SendEffect ==
  ASSUME wire \in [Reader -> Seq(Message)], NEW r \in Reader, NEW messages \in Seq(Message),
         Send(r, messages)
  PROVE  /\ wire' \in [Reader -> Seq(Message)] /\ \A q \in Reader \ {r} : wire'[q] = wire[q]
         /\ ~Linked => wire'[r] = wire[r]
         /\ Linked => Joins(wire'[r], wire[r], messages)
<1> DEFINE w == wire[r] \o messages
<1>1. w \in Seq(Message)
  OBVIOUS
<1>2. wire' = IF Linked THEN [wire EXCEPT ![r] = w] ELSE wire
  BY DEF Send
<1>3. Joins(w, wire[r], messages)
  BY DEF Joins
<1> HIDE DEF w
<1> QED
  BY <1>1, <1>2, <1>3

LEMMA OneSent ==
  ASSUME NEW w \in Seq(Message), NEW x \in Message, NEW messages, Single(messages, x),
         NEW w2, Joins(w2, w, messages)
  PROVE  Grown(w2, w, x)
  BY DEF Single, Joins, Grown

LEMMA TwoSent ==
  ASSUME NEW w \in Seq(Message), NEW x \in Message, NEW y \in Message,
         NEW messages, Pair(messages, x, y), NEW w2, Joins(w2, w, messages)
  PROVE  \E w1 \in Seq(Message) : Grown(w1, w, x) /\ Grown(w2, w1, y)
<1> DEFINE w1 == Append(w, x)
<1>1. w1 \in Seq(Message) /\ Grown(w1, w, x)
  BY DEF Grown
<1>2. w2 = w \o (<<x>> \o <<y>>)
  BY DEF Joins, Pair
<1>3. w2 = Append(Append(w, x), y)
  BY <1>2
<1>4. Grown(w2, w1, y)
  BY <1>3 DEF Grown
<1> QED
  BY <1>1, <1>4

LEMMA OverEffect ==
  ASSUME rd \in [Reader -> Read], NEW r \in Reader, rd[r] \in Active, Over(r)
  PROVE  /\ rd' \in [Reader -> Read] /\ \A q \in Reader \ {r} : rd'[q] = rd[q]
         /\ rd'[r].pc = "over" /\ rd'[r].offset = rd[r].offset /\ rd'[r].limit = rd[r].limit
<1> DEFINE t == [pc |-> "over", offset |-> rd[r].offset, limit |-> rd[r].limit]
<1>1. t \in Finished
  BY ReadKinds DEF Finished, Read
<1>2. rd' = [rd EXCEPT ![r] = t]
  BY DEF Over
<1>3. t.pc = "over" /\ t.offset = rd[r].offset /\ t.limit = rd[r].limit /\ t \in Read
  BY <1>1 DEF Read
<1> HIDE DEF t
<1> QED
  BY <1>2, <1>3

\* A reader that is over has only its messages left.
LEMMA ReaderIsOver ==
  ASSUME NEW r \in Reader, ReaderInv(r), UNCHANGED <<answer[r], versions>>,
         rd'[r].pc = "over", rd'[r].offset = rd[r].offset, rd'[r].limit = rd[r].limit,
         answer[r].status = "none" => InOrder(Flown(r)', rd[r].offset, rd[r].limit, versions)
  PROVE  ReaderInv(r)'
<1>1. Unasked(r)' /\ Hashed(r)' /\ Ended(r)' /\ Sending(r)'
  BY DEF Unasked, Hashed, Ended, Sending
<1>2. InFlight(r)'
  BY DEF InFlight
<1>3. Answered(r)'
  BY DEF ReaderInv, Answered
<1> QED
  BY <1>1, <1>2, <1>3 DEF ReaderInv

LEMMA SliceIs ==
  ASSUME NEW r, NEW n
  PROVE  SliceAt(Slice(r, n), data[rd[r].file], rd[r].offset + Len(rd[r].sum), n)
  BY DEF Slice, SliceAt

\* What is known of a reader that has the file open.
LEMMA OpenReader ==
  ASSUME WriteInv, ReadTypes, NEW r \in Reader, ReaderInv(r), Running, rd[r].pc = "reading"
  PROVE  /\ rd[r] \in Active /\ rd[r].file \in Inode /\ rd[r].offset \in Nat /\ rd[r].limit \in Nat
         /\ rd[r].sum \in Contained /\ rd[r].seq \in Nat /\ Len(rd[r].sum) \in Nat
         /\ Len(rd[r].sum) <= rd[r].limit
         /\ data[rd[r].file] \in Contained /\ data[rd[r].file] \in versions /\ FileRead(rd[r].file)
         /\ PieceAt(data[rd[r].file], rd[r].offset, rd[r].sum)
         /\ Wanted(r) \in Nat /\ Wanted(r) <= rd[r].limit - Len(rd[r].sum) /\ Wanted(r) <= Chunk
         /\ Wanted(r) = 0 => Len(rd[r].sum) = rd[r].limit
<1>1. rd[r] \in Read
  BY DEF ReadTypes
<1>2. rd[r] \in Active /\ rd[r].file \in Inode /\ rd[r].offset \in Nat /\ rd[r].limit \in Nat
      /\ rd[r].sum \in Contained /\ rd[r].seq \in Nat
  BY <1>1, ReadKinds
<1>3. Len(rd[r].sum) \in Nat
  BY <1>2 DEF Contained
<1>4. /\ Len(rd[r].sum) <= rd[r].limit /\ FileRead(rd[r].file)
      /\ PieceAt(data[rd[r].file], rd[r].offset, rd[r].sum)
  BY DEF ReaderInv, Hashed
<1>5. data[rd[r].file] \in Contained /\ data[rd[r].file] \in versions
  BY <1>2, <1>4 DEF WriteInv, WriteTypes, FileRead
<1> DEFINE x == Len(rd[r].sum)
           y == rd[r].limit
<1>6. Wanted(r) = Least(Chunk, y - x) /\ x \in Nat /\ y \in Nat /\ x <= y
  BY <1>2, <1>3, <1>4 DEF Wanted
<1> HIDE DEF x, y
<1>7. Wanted(r) \in Nat /\ Wanted(r) <= y - x /\ Wanted(r) <= Chunk /\ (Wanted(r) = 0 => x = y)
  BY <1>6 DEF Least
<1> QED
  BY <1>2, <1>3, <1>4, <1>5, <1>7 DEF x, y

\* The chunk that a reader sends, if it has read anything.
LEMMA ChunkIs ==
  ASSUME NEW r, rd[r].seq \in Nat, NEW bytes \in Contained
  PROVE  \/ bytes = <<>> /\ Chunked(r, bytes) = <<>> /\ Len(Chunked(r, bytes)) = 0
         \/ /\ bytes # <<>> /\ Len(Chunked(r, bytes)) = 1
            /\ \E c \in ChunkMsg : Single(Chunked(r, bytes), c) /\ c.seq = rd[r].seq /\ c.data = bytes
<1> DEFINE c == [type |-> "file_chunk", seq |-> rd[r].seq, data |-> bytes]
<1>1. c \in ChunkMsg /\ c.seq = rd[r].seq /\ c.data = bytes
  BY DEF ChunkMsg
<1>2. Chunked(r, bytes) = IF bytes = <<>> THEN <<>> ELSE <<c>>
  BY DEF Chunked
<1> HIDE DEF c
<1>3. CASE bytes = <<>>
  BY <1>2, <1>3
<1>4. CASE bytes # <<>>
  <2>1. Chunked(r, bytes) = <<c>>
    BY <1>2, <1>4
  <2>2. Single(Chunked(r, bytes), c) /\ Len(Chunked(r, bytes)) = 1
    BY <2>1 DEF Single
  <2> QED
    BY <1>1, <1>4, <2>2
<1> QED
  BY <1>3, <1>4

LEMMA OpensStep ==
  ASSUME WriteInv, ReadInv, NEW r \in Reader, NEW offset \in Offsets, NEW max \in Limits,
         ReadOpens(r, offset, max)
  PROVE  ReadInv'
<1>1. /\ Linked /\ rd[r].pc = "idle" /\ UNCHANGED <<files, up, writes>> /\ UNCHANGED <<got, answer>>
      /\ ReadTypes /\ ReaderInv(r) /\ offset \in Nat /\ max \in Nat
  BY DEF ReadOpens, OnClient, ReadInv
<1>2. UNCHANGED <<data, path, versions, up, wpc>> /\ got[r] \in Seq(ChunkMsg) /\ wire[r] \in Seq(Message)
      /\ got' \in [Reader -> Seq(ChunkMsg)] /\ answer' \in [Reader -> Answers]
  BY <1>1 DEF files, writes, ReadTypes
<1>3. Flown(r) = <<>> /\ answer[r].status = "none"
  BY <1>1 DEF ReaderInv, Unasked
<1>4. <<>> \in Contained /\ <<>> \in Seq(ChunkMsg) /\ Len(<<>>) = 0
  BY DEF Contained
<1>5. \A o, l : InOrder(<<>>, o, l, versions)
  BY DEF InOrder
<1>6. CASE path = NoFile
  <2> DEFINE x == [type |-> "result", error |-> "file_not_found", truncated |-> FALSE, sum |-> <<>>]
             messages == Outcome("file_not_found", FALSE, <<>>)
             t == [pc |-> "over", offset |-> offset, limit |-> Cap]
  <2>1. x \in ResultMsg /\ x.error # ""
    BY <1>4 DEF ResultMsg
  <2>2. Single(messages, x)
    BY DEF Single, Outcome
  <2>3. t \in Read /\ t.pc = "over" /\ t.offset = offset /\ t.limit = Cap
    BY <1>1 DEF Read, Finished
  <2>4. rd' = [rd EXCEPT ![r] = t] /\ Send(r, messages)
    BY <1>6 DEF ReadOpens
  <2> HIDE DEF x, t
  <2>5. messages \in Seq(Message) /\ x \in Message
    <3>1. x \in Message
      BY <2>1 DEF Message
    <3> QED
      BY <2>2, <3>1, SingleTyped
  <2> HIDE DEF messages
  <2>6. rd' \in [Reader -> Read] /\ rd'[r] = t /\ \A q \in Reader \ {r} : rd'[q] = rd[q]
    BY <1>1, <2>3, <2>4 DEF ReadTypes
  <2>7. /\ wire' \in [Reader -> Seq(Message)] /\ \A q \in Reader \ {r} : wire'[q] = wire[q]
        /\ Joins(wire'[r], wire[r], messages)
    BY <1>1, <2>4, <2>5, SendEffect DEF ReadTypes
  <2> DEFINE g == got[r]
             w == wire[r]
             w2 == wire'[r]
  <2>8. g \in Seq(ChunkMsg) /\ w \in Seq(Message) /\ Joins(w2, w, messages)
        /\ Flow(g, w) \in Seq(ChunkMsg) /\ InOrder(Flow(g, w), offset, Cap, versions)
    BY <1>2, <1>3, <1>4, <1>5, <2>7 DEF Flown
  <2>9. Delivers(Flow(g, w), offset, Cap, x, versions)
    BY <2>1 DEF Delivers
  <2>10. Flown(r)' = Flow(g, w2)
    BY <1>1 DEF Flown
  <2> HIDE DEF g, w, w2
  <2>11. Grown(w2, w, x)
    BY <2>2, <2>5, <2>8, OneSent
  <2>12. InOrder(Flow(g, w2), offset, Cap, versions)
    BY <2>1, <2>8, <2>9, <2>11, ResultSent
  <2>13. ReaderInv(r)'
    <3>1. rd'[r].pc = "over" /\ rd'[r].offset = offset /\ rd'[r].limit = Cap
      BY <2>3, <2>6
    <3>2. InFlight(r)'
      BY <1>2, <2>10, <2>12, <3>1 DEF InFlight
    <3>3. answer'[r].status = "none"
      BY <1>1, <1>3
    <3> QED
      BY <3>1, <3>2, <3>3 DEF ReaderInv, Unasked, Hashed, Ended, Sending, Answered
  <2>14. Alone(r)
    BY <1>1, <2>6, <2>7 DEF Alone
  <2> QED
    BY <1>1, <1>2, <2>6, <2>7, <2>13, <2>14, OneReader
<1>7. CASE path # NoFile
  <2> DEFINE limit == IF max > 0 THEN Least(max, Cap) ELSE Cap
             t == [pc |-> "reading", file |-> path, offset |-> offset, limit |-> limit,
                   sum |-> <<>>, seq |-> 0]
  <2>1. limit \in Nat
    BY <1>1 DEF Least
  <2>2. rd' = [rd EXCEPT ![r] = t] /\ UNCHANGED wire
    BY <1>7 DEF ReadOpens
  <2> HIDE DEF limit
  <2>3. path \in Inode /\ Running /\ data[path] \in versions
    BY <1>1, <1>7 DEF WriteInv, WriteTypes, ReadTypes, Linked, Running
  <2>4. FileRead(path)
    BY <2>3 DEF FileRead, WriteInv, WriteTypes, Visible
  <2>5. t \in Active /\ t \in Read
    BY <1>1, <1>4, <2>1, <2>3 DEF Active, Read
  <2>6. t.pc = "reading" /\ t.file = path /\ t.offset = offset /\ t.limit = limit
        /\ t.sum = <<>> /\ t.seq = 0
    OBVIOUS
  <2> HIDE DEF t
  <2>7. rd' \in [Reader -> Read] /\ rd'[r] = t /\ \A q \in Reader \ {r} : rd'[q] = rd[q]
    BY <1>1, <2>2, <2>5 DEF ReadTypes
  <2>8. /\ rd'[r].pc = "reading" /\ rd'[r].file = path /\ rd'[r].offset = offset
        /\ rd'[r].limit = limit /\ rd'[r].sum = <<>> /\ rd'[r].seq = 0
    BY <2>6, <2>7
  <2>9. Flown(r)' = <<>> /\ answer'[r].status = "none"
    BY <1>1, <1>3, <2>2 DEF Flown
  <2>10. Hashed(r)'
    <3>1. /\ data'[path] \in versions' /\ (path \in Writer => wpc'[path] = "done")
          /\ PieceAt(data'[path], offset, <<>>)
      BY <1>2, <2>4 DEF FileRead, PieceAt
    <3>2. Len(<<>>) <= limit
      BY <1>4, <2>1
    <3> QED
      BY <2>8, <3>1, <3>2 DEF Hashed, FileRead
  <2>11. Unasked(r)' /\ Ended(r)' /\ Answered(r)'
    BY <2>8, <2>9 DEF Unasked, Ended, Answered
  <2>12. InFlight(r)'
    BY <1>2, <1>5, <2>9 DEF InFlight
  <2>13. Sending(r)'
    BY <1>4, <2>8, <2>9, NoBytes DEF Sending
  <2>14. Alone(r)
    BY <1>1, <2>2, <2>7 DEF Alone
  <2>15. wire' \in [Reader -> Seq(Message)]
    BY <1>1, <2>2 DEF ReadTypes
  <2> QED
    BY <1>1, <1>2, <2>7, <2>10, <2>11, <2>12, <2>13, <2>14, <2>15, OneReader DEF ReaderInv
<1> QED
  BY <1>6, <1>7

\* One turn of readFileTransfer's loop.
LEMMA TurnStep ==
  ASSUME WriteInv, ReadInv, NEW r \in Reader, ReadTurn(r)
  PROVE  ReadInv'
<1> DEFINE t == rd[r]
           file == data[t.file]
           n == Wanted(r)
           bytes == Slice(r, n)
           offset == t.offset
           sum == t.sum
<1>1. /\ Running /\ t.pc = "reading" /\ n > 0 /\ UNCHANGED <<files, up, writes>> /\ UNCHANGED <<got, answer>>
      /\ ReadTypes /\ ReaderInv(r)
  BY DEF ReadTurn, OnClient, ReadInv
<1>2. /\ UNCHANGED <<data, path, versions, up, wpc>> /\ got[r] \in Seq(ChunkMsg) /\ wire[r] \in Seq(Message)
      /\ got' \in [Reader -> Seq(ChunkMsg)] /\ answer' \in [Reader -> Answers] /\ (Running' <=> Running)
      /\ (Linked' <=> Linked)
  BY <1>1 DEF files, writes, ReadTypes, Running, Linked
<1>3. /\ t \in Active /\ t.file \in Inode /\ offset \in Nat /\ t.limit \in Nat /\ sum \in Contained
      /\ t.seq \in Nat /\ Len(sum) \in Nat /\ Len(sum) <= t.limit
      /\ file \in Contained /\ file \in versions /\ FileRead(t.file) /\ PieceAt(file, offset, sum)
      /\ n \in Nat /\ n <= t.limit - Len(sum)
  BY <1>1, OpenReader
<1>4. SliceAt(bytes, file, offset + Len(sum), n)
  BY SliceIs
<1>5. /\ (~Linked /\ bytes # <<>>) => Over(r) /\ UNCHANGED wire
      /\ ~(~Linked /\ bytes # <<>>) =>
           /\ rd' = [rd EXCEPT ![r].pc = IF Len(bytes) < n THEN "ended" ELSE @,
                               ![r].sum = @ \o bytes, ![r].seq = @ + Len(Chunked(r, bytes))]
           /\ Send(r, Chunked(r, bytes))
  BY DEF ReadTurn
<1> HIDE DEF n, bytes
<1>6. offset + Len(sum) \in Nat
  BY <1>3
<1>7. bytes \in Contained /\ Len(bytes) <= n
      /\ (Len(bytes) < n => Len(file) <= (offset + Len(sum)) + Len(bytes))
  BY <1>3, <1>4, <1>6, SliceTyped
<1>8. Len(bytes) \in Nat
  BY <1>7 DEF Contained
<1>9. CASE ~Linked /\ bytes # <<>>
  <2>1. Over(r) /\ UNCHANGED wire
    BY <1>5, <1>9
  <2>2. /\ rd' \in [Reader -> Read] /\ \A q \in Reader \ {r} : rd'[q] = rd[q]
        /\ rd'[r].pc = "over" /\ rd'[r].offset = rd[r].offset /\ rd'[r].limit = rd[r].limit
    BY <1>1, <1>3, <2>1, OverEffect DEF ReadTypes
  <2>3. Flown(r)' = Flown(r) /\ UNCHANGED <<answer[r], versions>>
    BY <1>1, <1>2, <2>1 DEF Flown
  <2>4. ReaderInv(r)'
    BY <1>1, <2>2, <2>3, ReaderIsOver DEF ReaderInv, InFlight
  <2>5. Alone(r) /\ wire' \in [Reader -> Seq(Message)]
    BY <1>1, <2>1, <2>2 DEF Alone, ReadTypes
  <2> QED
    BY <1>1, <1>2, <2>2, <2>4, <2>5, OneReader
<1>10. CASE ~(~Linked /\ bytes # <<>>)
  <2> DEFINE more == sum \o bytes
             place == IF Len(bytes) < n THEN "ended" ELSE "reading"
             chunk == Chunked(r, bytes)
             next == t.seq + Len(chunk)
             u == rd'[r]
  <2>1. Joins(more, sum, bytes)
    BY DEF Joins
  <2>2. more \in Contained /\ Len(more) = Len(sum) + Len(bytes) /\ PieceAt(file, offset, more)
    BY <1>3, <1>4, <2>1, PieceGrows
  <2>3. \/ bytes = <<>> /\ chunk = <<>> /\ Len(chunk) = 0
        \/ /\ bytes # <<>> /\ Len(chunk) = 1
           /\ \E c \in ChunkMsg : Single(chunk, c) /\ c.seq = t.seq /\ c.data = bytes
    BY <1>3, <1>7, ChunkIs
  <2>4. rd' = [rd EXCEPT ![r].pc = IF Len(bytes) < n THEN "ended" ELSE @,
                         ![r].sum = @ \o bytes, ![r].seq = @ + Len(chunk)]
        /\ Send(r, chunk)
    BY <1>5, <1>10
  <2>5. rd' = [rd EXCEPT ![r].pc = place, ![r].sum = more, ![r].seq = next]
    BY <1>1, <2>4
  <2> HIDE DEF more, place, next, chunk
  <2>6. next \in Nat /\ place \in {"reading", "ended"} /\ (place = "ended" <=> Len(bytes) < n)
    BY <1>3, <2>3 DEF next, place
  <2>7. /\ u \in Active /\ u.pc = place /\ u.sum = more /\ u.seq = next
        /\ u.file = t.file /\ u.offset = offset /\ u.limit = t.limit
        /\ \A q \in Reader \ {r} : rd'[q] = rd[q]
    BY <1>1, <1>3, <2>2, <2>5, <2>6 DEF ReadTypes, Active
  <2>8. rd' \in [Reader -> Read]
    <3> DEFINE v == [rd[r] EXCEPT !.pc = place, !.sum = more, !.seq = next]
    <3>1. rd' = [rd EXCEPT ![r] = v]
      BY <2>5
    <3>2. v \in Active
      BY <1>3, <2>2, <2>6 DEF Active
    <3>3. v \in Read
      BY <3>2 DEF Read
    <3> HIDE DEF v
    <3> QED
      BY <1>1, <3>1, <3>3 DEF ReadTypes
  <2> HIDE DEF u
  <2>9. chunk \in Seq(Message)
    <3>1. <<>> \in Seq(Message)
      OBVIOUS
    <3>2. \A c \in ChunkMsg : c \in Message
      BY DEF Message
    <3> QED
      BY <2>3, <3>1, <3>2, SingleTyped
  <2>10. /\ wire' \in [Reader -> Seq(Message)] /\ \A q \in Reader \ {r} : wire'[q] = wire[q]
         /\ ~Linked => wire'[r] = wire[r]
         /\ Linked => Joins(wire'[r], wire[r], chunk)
    BY <1>1, <2>4, <2>9, SendEffect DEF ReadTypes
  <2>11. Hashed(r)'
    <3>1. place = "reading" => Len(more) <= t.limit
      BY <1>3, <1>7, <1>8, <2>2
    <3>2. data'[t.file] \in versions' /\ (t.file \in Writer => wpc'[t.file] = "done")
          /\ PieceAt(data'[t.file], offset, more)
      BY <1>2, <1>3, <2>2 DEF FileRead
    <3> QED
      BY <2>7, <3>1, <3>2 DEF Hashed, FileRead, u
  <2>12. Ended(r)'
    <3>1. place = "ended" => AtEnd(file, offset, more)
      <4>1. Len(bytes) < n => Len(file) <= offset + Len(more)
        <5> DEFINE x == Len(sum)
                   y == Len(bytes)
                   z == Len(file)
        <5>1. x \in Nat /\ y \in Nat /\ z \in Nat
          BY <1>3, <1>8 DEF Contained
        <5>2. Len(more) = x + y /\ (y < n => z <= (offset + x) + y)
          BY <1>7, <2>2
        <5> HIDE DEF x, y, z
        <5>3. y < n => z <= offset + Len(more)
          BY <1>3, <5>1, <5>2
        <5> QED
          BY <5>3 DEF y, z
      <4> QED
        BY <2>2, <2>6, <4>1 DEF AtEnd
    <3> QED
      BY <1>2, <1>3, <2>7, <3>1 DEF Ended, u
  <2>13. Unasked(r)' /\ Answered(r)'
    BY <1>1, <1>2, <2>6, <2>7 DEF Unasked, ReaderInv, Answered, u
  <2>14. answer[r].status = "none" => InOrder(Flown(r)', offset, t.limit, versions)
         /\ (Linked => Flown(r)' \in Seq(ChunkMsg) /\ Len(Flown(r)') = next /\ Bytes(Flown(r)') = more)
    <3> SUFFICES ASSUME answer[r].status = "none"
                 PROVE  /\ InOrder(Flown(r)', offset, t.limit, versions)
                        /\ Linked => /\ Flown(r)' \in Seq(ChunkMsg) /\ Len(Flown(r)') = next
                                     /\ Bytes(Flown(r)') = more
      OBVIOUS
    <3>1. InOrder(Flown(r), offset, t.limit, versions)
      BY <1>1 DEF ReaderInv, InFlight
    <3>2. Linked => Flown(r) \in Seq(ChunkMsg) /\ Len(Flown(r)) = t.seq /\ Bytes(Flown(r)) = sum
      BY <1>1 DEF ReaderInv, Sending
    <3> DEFINE g == got[r]
               w == wire[r]
               w2 == wire'[r]
               limit == t.limit
    <3>3. Flown(r) = Flow(g, w) /\ Flown(r)' = Flow(g, w2)
      BY <1>1 DEF Flown
    <3>4. g \in Seq(ChunkMsg) /\ w \in Seq(Message)
      BY <1>2
    <3>5. (~Linked => w2 = w) /\ (Linked => Joins(w2, w, chunk))
      BY <2>10
    <3>6. CASE ~Linked
      <4>1. Flown(r)' = Flown(r)
        BY <3>3, <3>5, <3>6
      <4> QED
        BY <3>1, <3>6, <4>1
    <3>7. CASE Linked /\ bytes = <<>>
      <4>1. w2 = w
        BY <2>3, <3>4, <3>5, <3>7 DEF Joins
      <4>2. Flown(r)' = Flown(r) /\ next = t.seq
        BY <1>3, <2>3, <3>3, <3>7, <4>1 DEF next
      <4>3. more = sum
        BY <1>3, <3>7 DEF more, Contained
      <4> QED
        BY <3>1, <3>2, <3>7, <4>2, <4>3
    <3>8. CASE Linked /\ bytes # <<>>
      <4>1. PICK c \in ChunkMsg : Single(chunk, c) /\ c.seq = t.seq /\ c.data = bytes
        BY <2>3, <3>8
      <4>2. next = t.seq + 1
        BY <2>3, <3>8 DEF next
      <4>3. c \in Message
        BY DEF Message
      <4>4. Flow(g, w) \in Seq(ChunkMsg) /\ Len(Flow(g, w)) = t.seq /\ Bytes(Flow(g, w)) = sum
            /\ InOrder(Flow(g, w), offset, limit, versions)
        BY <3>1, <3>2, <3>3, <3>8
      <4> DEFINE m2 == Flow(g, w2)
                 b2 == Bytes(m2)
      <4> HIDE DEF g, w, w2, limit, sum, offset
      <4>5. Grown(w2, w, c)
        BY <3>4, <3>5, <3>8, <4>1, <4>3, OneSent
      <4>6. /\ m2 \in Seq(ChunkMsg) /\ Len(m2) = Len(Flow(g, w)) + 1
            /\ InOrder(m2, offset, limit, versions)
            /\ Joins(Bytes(m2), Bytes(Flow(g, w)), c.data)
        BY <3>4, <4>1, <4>4, <4>5, ChunkSent
      <4> HIDE DEF b2
      <4>7. Joins(b2, sum, bytes)
        BY <4>1, <4>4, <4>6 DEF b2
      <4>8. b2 = more
        BY <2>1, <4>7, Zenon DEF Joins
      <4>9. Len(m2) = next
        BY <4>2, <4>4, <4>6
      <4> HIDE DEF m2
      <4>10. Flown(r)' = m2
        BY <3>3 DEF m2
      <4>11. Bytes(m2) = more
        BY <4>8 DEF b2
      <4> QED
        BY <4>6, <4>9, <4>10, <4>11 DEF limit, m2
    <3> QED
      BY <3>6, <3>7, <3>8
  <2>15. InFlight(r)' /\ Sending(r)'
    BY <1>1, <1>2, <2>7, <2>14 DEF InFlight, Sending, u
  <2>16. Alone(r)
    BY <1>1, <2>7, <2>10 DEF Alone
  <2>17. ReaderInv(r)'
    BY <2>11, <2>12, <2>13, <2>15 DEF ReaderInv
  <2> QED
    BY <1>1, <1>2, <2>8, <2>10, <2>16, <2>17, OneReader
<1> QED
  BY <1>9, <1>10

\* What a reader sends last: its result, after a chunk or on its own.
Closing(r, messages, x) ==
  \/ Single(messages, x)
  \/ \E c \in ChunkMsg : Pair(messages, c, x) /\ c.seq = rd[r].seq /\ x.error # ""

LEMMA LastStep ==
  ASSUME WriteInv, ReadInv, NEW r \in Reader, rd[r] \in Active, rd[r].pc \in {"reading", "ended"},
         Over(r), OnClient, NEW x \in ResultMsg, NEW messages, Send(r, messages), Closing(r, messages, x),
         \/ Delivers(Flown(r), rd[r].offset, rd[r].limit, x, versions)
         \/ answer[r].status # "none" \/ ~Linked
  PROVE  ReadInv'
<1> DEFINE g == got[r]
           w == wire[r]
           w2 == wire'[r]
           offset == rd[r].offset
           limit == rd[r].limit
<1>1. UNCHANGED <<files, up, writes>> /\ UNCHANGED <<got, answer>> /\ ReadTypes /\ ReaderInv(r)
  BY DEF OnClient, ReadInv
<1>2. /\ UNCHANGED versions /\ g \in Seq(ChunkMsg) /\ w \in Seq(Message)
      /\ got' \in [Reader -> Seq(ChunkMsg)] /\ answer' \in [Reader -> Answers]
      /\ Flown(r) = Flow(g, w) /\ Flown(r)' = Flow(g, w2)
  BY <1>1 DEF files, ReadTypes, Flown
<1>3. /\ rd' \in [Reader -> Read] /\ \A q \in Reader \ {r} : rd'[q] = rd[q]
      /\ rd'[r].pc = "over" /\ rd'[r].offset = rd[r].offset /\ rd'[r].limit = rd[r].limit
  BY <1>1, OverEffect DEF ReadTypes
<1>4. x \in Message /\ \A c \in ChunkMsg : c \in Message
  BY DEF Message
<1>5. messages \in Seq(Message)
  <2>1. \A c \in Message : Pair(messages, c, x) => messages \in Seq(Message)
    BY <1>4 DEF Pair
  <2> QED
    BY <1>4, <2>1, SingleTyped DEF Closing
<1>6. /\ wire' \in [Reader -> Seq(Message)] /\ \A q \in Reader \ {r} : wire'[q] = wire[q]
      /\ (~Linked => w2 = w) /\ (Linked => Joins(w2, w, messages))
  BY <1>1, <1>5, SendEffect DEF ReadTypes
<1>7. ASSUME answer[r].status = "none" PROVE InOrder(Flow(g, w2), offset, limit, versions)
  <2>1. InOrder(Flow(g, w), offset, limit, versions)
    BY <1>1, <1>2, <1>7 DEF ReaderInv, InFlight
  <2>2. CASE ~Linked
    BY <1>6, <2>1, <2>2
  <2>3. CASE Linked
    <3>1. /\ Flow(g, w) \in Seq(ChunkMsg) /\ Len(Flow(g, w)) = rd[r].seq
          /\ Delivers(Flow(g, w), offset, limit, x, versions)
      BY <1>1, <1>2, <1>7, <2>3 DEF ReaderInv, Sending
    <3>2. Joins(w2, w, messages)
      BY <1>6, <2>3
    <3> HIDE DEF g, w, w2, offset, limit
    <3>3. CASE Single(messages, x)
      <4>1. Grown(w2, w, x)
        BY <1>2, <1>4, <3>2, <3>3, OneSent
      <4> QED
        BY <1>2, <2>1, <3>1, <4>1, ResultSent
    <3>4. ASSUME NEW c \in ChunkMsg, Pair(messages, c, x), c.seq = rd[r].seq, x.error # ""
          PROVE  InOrder(Flow(g, w2), offset, limit, versions)
      <4>1. PICK w1 \in Seq(Message) : Grown(w1, w, c) /\ Grown(w2, w1, x)
        BY <1>2, <1>4, <3>2, <3>4, TwoSent
      <4>2. Flow(g, w1) \in Seq(ChunkMsg) /\ InOrder(Flow(g, w1), offset, limit, versions)
        BY <1>2, <2>1, <3>1, <3>4, <4>1, ChunkSent
      <4>3. Delivers(Flow(g, w1), offset, limit, x, versions)
        BY <3>4 DEF Delivers
      <4> QED
        BY <1>2, <4>1, <4>2, <4>3, ResultSent
    <3> QED
      BY <3>3, <3>4 DEF Closing
  <2> QED
    BY <2>2, <2>3
<1>8. ReaderInv(r)'
  <2>1. UNCHANGED <<answer[r], versions>>
    BY <1>1, <1>2
  <2> QED
    BY <1>1, <1>2, <1>3, <1>7, <2>1, ReaderIsOver
<1>9. Alone(r)
  BY <1>1, <1>3, <1>6 DEF Alone
<1> QED
  BY <1>1, <1>2, <1>3, <1>6, <1>8, <1>9, OneReader

LEMMA FailsStep ==
  ASSUME WriteInv, ReadInv, NEW r \in Reader, ReadFails(r)
  PROVE  ReadInv'
<1> DEFINE x == [type |-> "result", error |-> "io_error", truncated |-> FALSE, sum |-> <<>>]
<1>1. /\ Running /\ rd[r].pc = "reading" /\ ReadTypes /\ ReaderInv(r) /\ Over(r) /\ OnClient
  BY DEF ReadFails, ReadInv
<1>2. PICK n \in 0..Wanted(r) - 1 :
        Send(r, Chunked(r, Slice(r, n)) \o Outcome("io_error", FALSE, <<>>))
  BY DEF ReadFails
<1> DEFINE bytes == Slice(r, n)
           chunk == Chunked(r, bytes)
           messages == chunk \o <<x>>
<1>3. Send(r, messages)
  BY <1>2 DEF Outcome
<1>4. /\ rd[r] \in Active /\ rd[r].offset \in Nat /\ rd[r].sum \in Contained /\ Len(rd[r].sum) \in Nat
      /\ data[rd[r].file] \in Contained /\ Wanted(r) \in Nat /\ rd[r].seq \in Nat
  BY <1>1, OpenReader
<1>5. n \in Nat /\ rd[r].offset + Len(rd[r].sum) \in Nat
  BY <1>4
<1>6. bytes \in Contained
  BY <1>4, <1>5, SliceIs, SliceTyped
<1>7. x \in ResultMsg /\ x.error # ""
  BY DEF ResultMsg, Contained
<1> HIDE DEF x, bytes
<1>8. \/ chunk = <<>>
      \/ \E c \in ChunkMsg : Single(chunk, c) /\ c.seq = rd[r].seq
  BY <1>4, <1>6, ChunkIs
<1>9. Closing(r, messages, x)
  <2>1. chunk = <<>> => Single(messages, x)
    <3> HIDE DEF chunk
    <3> QED
      BY DEF Single
  <2>2. \A c \in ChunkMsg : Single(chunk, c) => Pair(messages, c, x)
    <3> HIDE DEF chunk
    <3> QED
      BY DEF Single, Pair
  <2> HIDE DEF messages, chunk
  <2> QED
    BY <1>7, <1>8, <2>1, <2>2 DEF Closing
<1>10. Delivers(Flown(r), rd[r].offset, rd[r].limit, x, versions)
  BY <1>7 DEF Delivers
<1> HIDE DEF messages
<1> QED
  BY <1>1, <1>3, <1>4, <1>7, <1>9, <1>10, LastStep

\* The digest, the bytes sent and what the client says of them agree.
LEMMA EndsStep ==
  ASSUME WriteInv, ReadInv, NEW r \in Reader, ReadEnds(r)
  PROVE  ReadInv'
<1> DEFINE t == rd[r]
           offset == t.offset
           limit == t.limit
           sum == t.sum
<1>0. PICK more \in Probed(r) : ReadEnds(r) /\ Send(r, Outcome("", more, sum))
  BY DEF ReadEnds
<1> DEFINE x == [type |-> "result", error |-> "", truncated |-> more, sum |-> sum]
           messages == Outcome("", more, sum)
<1>1. /\ Running /\ ReadTypes /\ ReaderInv(r) /\ Over(r) /\ OnClient /\ Send(r, messages)
      /\ t.pc = "ended" \/ (t.pc = "reading" /\ Wanted(r) = 0)
  BY <1>0 DEF ReadEnds, ReadInv
<1>2. t \in Active /\ offset \in Nat /\ limit \in Nat /\ sum \in Contained
  BY <1>1, ReadKinds DEF ReadTypes
<1>3. Len(sum) \in Nat
  BY <1>2 DEF Contained
<1>4. more \in BOOLEAN /\ (more => t.pc = "reading" /\ Slice(r, 1) # <<>>)
  BY DEF More, Probed
<1>5. \E file \in versions : Truth(file, offset, limit, sum, more)
  <2>1. CASE t.pc = "ended"
    <3>1. PICK file \in versions : AtEnd(file, offset, sum)
      BY <1>1, <2>1 DEF ReaderInv, Ended
    <3>2. Len(file) \in Nat
      <4>1. file \in Contained
        BY <1>1 DEF ReadTypes
      <4> QED
        BY <4>1 DEF Contained
    <3>3. ~more
      BY <1>4, <2>1
    <3>4. Truth(file, offset, limit, sum, more)
      BY <1>2, <1>3, <3>1, <3>2, <3>3 DEF Truth, AtEnd
    <3> QED
      BY <3>4
  <2>2. CASE t.pc = "reading" /\ Wanted(r) = 0
    <3> DEFINE file == data[t.file]
               bytes == Slice(r, 1)
    <3>1. /\ file \in Contained /\ file \in versions /\ PieceAt(file, offset, sum) /\ Len(sum) = limit
      BY <1>1, <2>2, OpenReader
    <3>2. SliceAt(bytes, file, offset + Len(sum), 1)
      BY SliceIs
    <3>3. more => bytes # <<>>
      BY <1>4, <2>2
    <3>4. offset + Len(sum) \in Nat /\ Len(file) \in Nat
      BY <1>2, <1>3, <3>1 DEF Contained
    <3> HIDE DEF bytes, file
    <3>5. /\ bytes \in Contained /\ (Len(bytes) < 1 => Len(file) <= (offset + Len(sum)) + Len(bytes))
          /\ (bytes # <<>> => (offset + Len(sum)) + Len(bytes) <= Len(file))
      BY <3>1, <3>2, <3>4, SliceTyped
    <3>6. Len(bytes) \in Nat /\ (bytes = <<>> <=> Len(bytes) = 0)
      BY <3>5 DEF Contained
    <3> DEFINE y == Len(bytes)
               z == Len(file)
               from == offset + Len(sum)
    <3>7. y \in Nat /\ z \in Nat /\ from \in Nat /\ (y < 1 => z <= from + y)
          /\ (more => from + y <= z) /\ (more => y # 0)
      BY <3>3, <3>4, <3>5, <3>6
    <3> HIDE DEF y, z, from
    <3>8. more => z > from
      BY <3>7
    <3>9. Truth(file, offset, limit, sum, more)
      BY <3>1, <3>8 DEF Truth, z, from
    <3> QED
      BY <3>1, <3>9
  <2> QED
    BY <1>1, <2>1, <2>2
<1>6. x \in ResultMsg /\ x.sum = sum /\ x.error = "" /\ x.truncated = more
  BY <1>2, <1>4 DEF ResultMsg
<1>7. Single(messages, x)
  BY DEF Single, Outcome
<1> HIDE DEF x, messages
<1>8. Closing(r, messages, x)
  BY <1>7 DEF Closing
<1>9. \/ Delivers(Flown(r), offset, limit, x, versions) \/ answer[r].status # "none" \/ ~Linked
  <2>1. answer[r].status = "none" /\ Linked => Bytes(Flown(r)) = sum
    BY <1>1 DEF ReaderInv, Sending
  <2> HIDE DEF offset, limit, sum
  <2> QED
    BY <1>5, <1>6, <2>1 DEF Delivers
<1> QED
  BY <1>1, <1>2, <1>6, <1>8, <1>9, LastStep

-----------------------------------------------------------------------------
(* Steps of the relay                                                      *)

LEMMA RelayReader ==
  ASSUME NEW r \in Reader, ReaderInv(r), UNCHANGED <<files, up, writes, rd>>, rd[r].pc # "idle",
         answer'[r].status = "none" => answer[r].status = "none" /\ Flown(r)' = Flown(r),
         answer'[r].status # "ok" \/ Answered(r)'
  PROVE  ReaderInv(r)'
<1>1. UNCHANGED <<data, versions, up, wpc, rd>> /\ (Running' <=> Running) /\ (Linked' <=> Linked)
  BY DEF files, writes, Running, Linked
<1>2. Unasked(r)' /\ Hashed(r)' /\ Ended(r)'
  BY <1>1 DEF ReaderInv, Unasked, Hashed, Ended, FileRead
<1>3. InFlight(r)' /\ Sending(r)'
  BY <1>1 DEF ReaderInv, InFlight, Sending
<1>4. Answered(r)'
  BY DEF Answered
<1> QED
  BY <1>2, <1>3, <1>4 DEF ReaderInv

\* What a waiting reader is sent next.
LEMMA NextMessage ==
  ASSUME ReadInv, NEW r \in Reader, wire[r] # <<>>, UNCHANGED <<files, up, writes, rd>>,
         wire' = [wire EXCEPT ![r] = Tail(@)]
  PROVE  /\ got[r] \in Seq(ChunkMsg) /\ wire[r] \in Seq(Message) /\ Head(wire[r]) \in Message
         /\ wire' \in [Reader -> Seq(Message)] /\ wire'[r] = Tail(wire[r])
         /\ \A q \in Reader \ {r} : wire'[q] = wire[q]
         /\ rd' \in [Reader -> Read]
<1>1. got[r] \in Seq(ChunkMsg) /\ wire[r] \in Seq(Message) /\ wire \in [Reader -> Seq(Message)]
      /\ rd \in [Reader -> Read]
  BY DEF ReadInv, ReadTypes
<1> DEFINE w == wire[r]
           v == Tail(w)
<1>2. Head(w) \in Message /\ v \in Seq(Message)
  BY <1>1
<1> HIDE DEF v
<1>3. wire' = [wire EXCEPT ![r] = v]
  BY DEF v
<1>4. wire' \in [Reader -> Seq(Message)] /\ wire'[r] = v /\ \A q \in Reader \ {r} : wire'[q] = wire[q]
  BY <1>1, <1>2, <1>3
<1> QED
  BY <1>1, <1>2, <1>4 DEF v

LEMMA RefusedIs ==
  ASSUME answer \in [Reader -> Answers], NEW r \in Reader, NEW error \in Refusal, Refuse(r, error)
  PROVE  /\ answer' \in [Reader -> Answers] /\ answer'[r].status = error
         /\ \A q \in Reader \ {r} : answer'[q] = answer[q]
         /\ error # "none" /\ error # "ok"
<1> DEFINE a == [status |-> error]
<1>1. a \in Answers /\ a.status = error
  BY DEF Answers
<1>2. answer' = [answer EXCEPT ![r] = a]
  BY DEF Refuse, Answer
<1> HIDE DEF a
<1> QED
  BY <1>1, <1>2 DEF Refusal

LEMMA CollectStep ==
  ASSUME WriteInv, ReadInv, NEW r \in Reader, Collect(r)
  PROVE  ReadInv'
<1> DEFINE g == got[r]
           w == wire[r]
           h == Head(w)
           chunks == Append(g, h)
<1>1. /\ UNCHANGED <<files, up, writes, rd>> /\ rd[r].pc # "idle" /\ answer[r].status = "none"
      /\ w # <<>> /\ h.type = "file_chunk" /\ wire' = [wire EXCEPT ![r] = Tail(@)]
      /\ ReadTypes /\ ReaderInv(r)
      /\ \/ Refuse(r, "file_too_large") /\ UNCHANGED got
         \/ got' = [got EXCEPT ![r] = chunks] /\ UNCHANGED answer
  BY DEF Collect, OnRelay, Waiting, Pending, ReadInv
<1>2. /\ g \in Seq(ChunkMsg) /\ w \in Seq(Message) /\ h \in Message
      /\ wire' \in [Reader -> Seq(Message)] /\ wire'[r] = Tail(w)
      /\ \A q \in Reader \ {r} : wire'[q] = wire[q]
      /\ rd' \in [Reader -> Read]
  BY <1>1, NextMessage
<1>3. h \in ChunkMsg
  BY <1>1, <1>2, Kinds
<1>4. answer \in [Reader -> Answers] /\ got \in [Reader -> Seq(ChunkMsg)]
  BY <1>1 DEF ReadTypes
<1>5. CASE Refuse(r, "file_too_large") /\ UNCHANGED got
  <2>1. /\ answer' \in [Reader -> Answers] /\ answer'[r].status = "file_too_large"
        /\ \A q \in Reader \ {r} : answer'[q] = answer[q]
    BY <1>4, <1>5, RefusedIs DEF Refusal
  <2>2. ReaderInv(r)'
    BY <1>1, <2>1, RelayReader
  <2>3. Alone(r) /\ got' \in [Reader -> Seq(ChunkMsg)]
    BY <1>1, <1>2, <1>4, <1>5, <2>1 DEF Alone
  <2> QED
    BY <1>1, <1>2, <2>1, <2>2, <2>3, OneReader
<1>6. CASE got' = [got EXCEPT ![r] = chunks] /\ UNCHANGED answer
  <2>1. chunks \in Seq(ChunkMsg)
    BY <1>2, <1>3
  <2> HIDE DEF chunks
  <2>2. /\ got' \in [Reader -> Seq(ChunkMsg)] /\ got'[r] = chunks
        /\ \A q \in Reader \ {r} : got'[q] = got[q]
    BY <1>4, <1>6, <2>1
  <2> DEFINE g2 == got'[r]
             w2 == wire'[r]
  <2>3. Moved(g2, w2, g, w)
    BY <1>1, <1>2, <2>2, Zenon DEF Moved, chunks
  <2>4. Flown(r) = Flow(g, w) /\ Flown(r)' = Flow(g2, w2)
    BY DEF Flown
  <2>5. g \in Seq(ChunkMsg) /\ w \in Seq(Message) /\ Head(w) \in ChunkMsg
    BY <1>2, <1>3
  <2> HIDE DEF g, w, g2, w2
  <2>6. Flow(g2, w2) = Flow(g, w)
    BY <2>3, <2>5, FlowMoves
  <2>7. Flown(r)' = Flown(r)
    BY <2>4, <2>6
  <2>8. Answered(r)'
    BY <1>1, <1>6 DEF Answered
  <2>9. ReaderInv(r)'
    BY <1>1, <2>7, <2>8, RelayReader
  <2>10. Alone(r) /\ answer' \in [Reader -> Answers]
    BY <1>1, <1>2, <1>4, <1>6, <2>2 DEF Alone
  <2> QED
    BY <1>1, <1>2, <2>2, <2>9, <2>10, OneReader
<1> QED
  BY <1>1, <1>5, <1>6

\* _dispatch_file_transfer puts together what the client hashed.
LEMMA ConcludeStep ==
  ASSUME WriteInv, ReadInv, NEW r \in Reader, Conclude(r)
  PROVE  ReadInv'
<1> DEFINE g == got[r]
           w == wire[r]
           h == Head(w)
           a == [status |-> "ok", content |-> Reassembled(g), sha256 |-> h.sum, truncated |-> h.truncated]
<1>1. /\ UNCHANGED <<files, up, writes, rd>> /\ rd[r].pc # "idle" /\ answer[r].status = "none"
      /\ w # <<>> /\ h.type = "result" /\ wire' = [wire EXCEPT ![r] = Tail(@)] /\ UNCHANGED got
      /\ ReadTypes /\ ReaderInv(r)
  <2>1. ReadTypes /\ ReaderInv(r)
    BY DEF ReadInv
  <2>2. OnRelay /\ Waiting(r) /\ w # <<>> /\ h.type = "result" /\ wire' = [wire EXCEPT ![r] = Tail(@)] /\ UNCHANGED got
    BY Zenon DEF Conclude
  <2>3. /\ UNCHANGED <<files, up, writes, rd>> /\ rd[r].pc # "idle" /\ answer[r].status = "none"
    BY <2>2 DEF OnRelay, Waiting, Pending
  <2> QED
    BY <2>1, <2>2, <2>3, Zenon
<1>7. /\ h.error # "" => Refuse(r, h.error)
      /\ h.error = "" => answer' = [answer EXCEPT ![r] = a]
  BY Zenon DEF Conclude, Answer
<1>2. /\ g \in Seq(ChunkMsg) /\ w \in Seq(Message) /\ h \in Message
      /\ wire' \in [Reader -> Seq(Message)] /\ wire'[r] = Tail(w)
      /\ \A q \in Reader \ {r} : wire'[q] = wire[q]
      /\ rd' \in [Reader -> Read]
  BY <1>1, NextMessage
<1>3. h \in ResultMsg /\ h \notin ChunkMsg
  BY <1>1, <1>2, Kinds
<1>4. answer \in [Reader -> Answers] /\ got' \in [Reader -> Seq(ChunkMsg)]
  BY <1>1 DEF ReadTypes
<1>5. CASE h.error # "" /\ Refuse(r, h.error)
  <2>1. h.error \in Refusal
    BY <1>3, <1>5 DEF ResultMsg, Refusal
  <2>2. /\ answer' \in [Reader -> Answers] /\ answer'[r].status = h.error
        /\ \A q \in Reader \ {r} : answer'[q] = answer[q]
        /\ h.error # "none" /\ h.error # "ok"
    BY <1>4, <1>5, <2>1, RefusedIs
  <2>3. ReaderInv(r)'
    BY <1>1, <2>2, RelayReader
  <2>4. Alone(r)
    BY <1>1, <1>2, <2>2 DEF Alone
  <2> QED
    BY <1>1, <1>2, <1>4, <2>2, <2>3, <2>4, OneReader
<1>6. CASE h.error = "" /\ answer' = [answer EXCEPT ![r] = a]
  <2> DEFINE m == Flow(g, w)
             offset == rd[r].offset
             limit == rd[r].limit
             k == Len(g) + 1
  <2>1. InOrder(m, offset, limit, versions)
    BY <1>1 DEF ReaderInv, InFlight, Flown
  <2>2. /\ k \in 1..Len(m) /\ m[k] = h /\ First(m, Len(g)) = g /\ \A i \in 1..Len(g) : m[i] = g[i]
    BY <1>1, <1>2, FlowAtHead
  <2>3. Len(g) \in Nat /\ k - 1 = Len(g) /\ \A i \in 1..Len(g) : g[i] \in ChunkMsg /\ i \in 1..Len(m)
    BY <1>2, <2>2
  <2>4. Delivers(g, offset, limit, h, versions)
    <3> HIDE DEF m, g, k
    <3>1. Delivers(First(m, k - 1), offset, limit, m[k], versions)
      BY <1>3, <2>1, <2>2 DEF InOrder
    <3>2. First(m, k - 1) = g
      BY <2>2, <2>3
    <3> QED
      BY <2>2, <3>1, <3>2
  <2>5. \A i \in 1..Len(g) : g[i].seq = i - 1
    BY <2>1, <2>2, <2>3 DEF InOrder
  <2>6. Reassembled(g) = Bytes(g)
    BY <1>2, <2>5, SortedAlready
  <2> DEFINE content == Reassembled(g)
  <2>7. /\ Bytes(g) = h.sum
        /\ \E file \in versions : Truth(file, offset, limit, h.sum, h.truncated)
    BY <1>6, <2>4 DEF Delivers
  <2>8. content = h.sum /\ h.sum \in Contained /\ h.truncated \in BOOLEAN
    BY <1>3, <2>6, <2>7, Zenon DEF ResultMsg
  <2> HIDE DEF content
  <2>9. a \in Answers /\ a.status = "ok" /\ a.content = content /\ a.sha256 = h.sum
        /\ a.truncated = h.truncated
    BY <2>8 DEF Answers, content
  <2> HIDE DEF a, g, w, h
  <2>10. /\ answer' \in [Reader -> Answers] /\ answer'[r] = a
         /\ \A q \in Reader \ {r} : answer'[q] = answer[q]
    BY <1>4, <1>6, <2>9
  <2>11. Answered(r)'
    <3>1. UNCHANGED <<versions, rd>>
      BY <1>1 DEF files
    <3>2. a.sha256 = a.content
      BY <2>8, <2>9
    <3>3. \E file \in versions : Truth(file, offset, limit, a.content, a.truncated)
      BY <2>7, <2>8, <2>9
    <3> QED
      BY <2>10, <3>1, <3>2, <3>3 DEF Answered
  <2>12. ReaderInv(r)'
    BY <1>1, <2>9, <2>10, <2>11, RelayReader
  <2>13. Alone(r)
    BY <1>1, <1>2, <2>10 DEF Alone
  <2> QED
    BY <1>1, <1>2, <1>4, <2>10, <2>12, <2>13, OneReader
<1> QED
  BY <1>5, <1>6, <1>7, Zenon

LEMMA GiveUpStep ==
  ASSUME WriteInv, ReadInv, NEW r \in Reader, GiveUp(r)
  PROVE  ReadInv'
<1>1. /\ UNCHANGED <<files, up, writes, rd>> /\ rd[r].pc # "idle" /\ UNCHANGED <<wire, got>>
      /\ ReadTypes /\ ReaderInv(r)
      /\ Refuse(r, IF Linked THEN "timeout" ELSE "client_disconnected")
  BY DEF GiveUp, OnRelay, Waiting, ReadInv
<1>2. PICK error \in Refusal : Refuse(r, error)
  BY <1>1 DEF Refusal
<1>3. /\ answer' \in [Reader -> Answers] /\ answer'[r].status = error
      /\ \A q \in Reader \ {r} : answer'[q] = answer[q]
      /\ error # "none" /\ error # "ok"
  BY <1>1, <1>2, RefusedIs DEF ReadTypes
<1>4. ReaderInv(r)'
  BY <1>1, <1>3, RelayReader
<1>5. Alone(r) /\ rd' \in [Reader -> Read] /\ got' \in [Reader -> Seq(ChunkMsg)]
      /\ wire' \in [Reader -> Seq(Message)]
  BY <1>1, <1>3 DEF Alone, ReadTypes
<1> QED
  BY <1>1, <1>3, <1>4, <1>5, OneReader

-----------------------------------------------------------------------------
(* The other steps                                                         *)

\* A step that no reader takes.
LEMMA Elsewhere ==
  ASSUME WriteInv, WriteInv', ReadInv, FilesStay, UNCHANGED <<rd, got, answer>>,
         wire' \in [Reader -> Seq(Message)],
         (Running' /\ path' # NoFile) => data'[path'] \in versions', versions' \subseteq Contained,
         \A r \in Reader : LeftAlone(r)
  PROVE  ReadInv'
<1>1. ReadTypes'
  BY DEF ReadInv, ReadTypes
<1>2. ASSUME NEW r \in Reader PROVE ReaderInv(r)'
  BY <1>1, ReaderStays DEF ReadInv
<1> QED
  BY <1>1, <1>2 DEF ReadInv

LEMMA SameFile == \A file \in Contained : Extended(file, file)
  BY DEF Extended, Contained

\* A write changes no file that was ever visible.
LEMMA WritesElsewhere ==
  ASSUME WriteInv, WriteInv', ReadInv, NEW w \in Writer, NEW place \in Progress, WriteGoes(w, place),
         wpc[w] # "done", \A i \in Inode \ {w} : data'[i] = data[i],
         \/ UNCHANGED <<path, versions>> /\ (data'[w] = data[w] \/ path # w)
         \/ path' = w /\ versions' = versions \cup {data[w]} /\ UNCHANGED data
  PROVE  ReadInv'
<1>1. /\ UNCHANGED <<up, rd, wire, got, answer>>
      /\ \A v \in Writer : v # w => wpc'[v] = wpc[v]
  BY WriteMoves DEF WriteGoes, reads
<1>2. (Running' <=> Running) /\ (Linked' <=> Linked)
  BY <1>1 DEF Running, Linked
<1>3. data \in [Inode -> Contained] /\ versions \subseteq Contained /\ path \in Inode \cup {NoFile}
      /\ w \in Inode
  BY DEF WriteInv, WriteTypes, ReadInv, ReadTypes, Inode
<1>4. versions \subseteq versions' /\ versions' \subseteq Contained
  BY <1>3
<1>5. FilesStay
  <2> SUFFICES ASSUME NEW i \in Inode, FileRead(i) PROVE FileRead(i)' /\ Extended(data[i], data'[i])
    BY <1>2, <1>4 DEF FilesStay
  <2>1. i # w
    BY DEF FileRead
  <2>2. data'[i] = data[i] /\ data[i] \in Contained
    BY <1>3, <2>1
  <2> QED
    BY <1>1, <1>4, <2>1, <2>2, SameFile DEF FileRead
<1>6. (Running' /\ path' # NoFile) => data'[path'] \in versions'
  BY <1>2, <1>3 DEF ReadInv, ReadTypes
<1>7. \A r \in Reader : LeftAlone(r)
  BY <1>1, <1>2 DEF LeftAlone
<1>8. wire' \in [Reader -> Seq(Message)]
  BY <1>1 DEF ReadInv, ReadTypes
<1> QED
  BY <1>1, <1>4, <1>5, <1>6, <1>7, <1>8, Elsewhere

LEMMA WriterSteps ==
  ASSUME WriteInv, ReadInv, NEW w \in Writer,
         \/ WriteAsked(w) \/ WriteCreates(w) \/ WriteFills(w) \/ WriteSyncs(w)
         \/ WriteInstalls(w) \/ WriteFails(w)
  PROVE  ReadInv'
<1>1. WriteInv'
  BY PreparingSteps, InstallStep, FailStep
<1>2. CASE WriteAsked(w)
  <2>1. PICK place \in {"failed", "checked"} : WriteGoes(w, place)
    BY <1>2 DEF WriteAsked
  <2>2. wpc[w] = "idle" /\ UNCHANGED <<data, path, versions>> /\ place \in Progress
    BY <1>2 DEF WriteAsked, files, Progress
  <2> QED
    BY <1>1, <2>1, <2>2, WritesElsewhere
<1>3. CASE WriteCreates(w)
  <2>1. WriteGoes(w, "created") /\ "created" \in Progress /\ wpc[w] = "checked"
        /\ UNCHANGED <<data, path, versions>>
    BY <1>3 DEF WriteCreates, Progress
  <2> QED
    BY <1>1, <2>1, WritesElsewhere
<1>4. CASE WriteFills(w)
  <2>1. WriteGoes(w, "filled") /\ "filled" \in Progress /\ wpc[w] = "created"
        /\ data' = [data EXCEPT ![w] = Payload(w)] /\ UNCHANGED <<path, versions>>
    BY <1>4 DEF WriteFills, Progress
  <2>2. path # w /\ \A i \in Inode \ {w} : data'[i] = data[i]
    BY <2>1 DEF WriteInv, WriteTypes, Visible
  <2> QED
    BY <1>1, <2>1, <2>2, WritesElsewhere
<1>5. CASE WriteSyncs(w)
  <2>1. WriteGoes(w, "flushed") /\ "flushed" \in Progress /\ wpc[w] = "filled"
        /\ UNCHANGED <<data, path, versions>>
    BY <1>5 DEF WriteSyncs, Progress
  <2> QED
    BY <1>1, <2>1, WritesElsewhere
<1>6. CASE WriteInstalls(w)
  <2>1. WriteGoes(w, "done") /\ "done" \in Progress /\ wpc[w] = "flushed"
        /\ UNCHANGED data /\ path' = w /\ versions' = versions \cup {data[w]}
    BY <1>6 DEF WriteInstalls, Progress
  <2> QED
    BY <1>1, <2>1, WritesElsewhere
<1>7. CASE WriteFails(w)
  <2>1. WriteGoes(w, "failed") /\ "failed" \in Progress /\ wpc[w] # "done"
        /\ UNCHANGED <<data, path, versions>>
    BY <1>7 DEF WriteFails, Progress
  <2> QED
    BY <1>1, <2>1, WritesElsewhere
<1> QED
  BY <1>2, <1>3, <1>4, <1>5, <1>6, <1>7

LEMMA GrowReads == WriteInv /\ ReadInv /\ Grow => ReadInv'
<1> SUFFICES ASSUME WriteInv, ReadInv, Grow PROVE ReadInv'
  OBVIOUS
<1>1. WriteInv'
  BY GrowStep
<1>2. /\ path \in Inode /\ data' = [data EXCEPT ![path] = Append(@, Program)]
      /\ versions' = versions \cup {data'[path]}
      /\ UNCHANGED <<path, up, wpc, rd, wire, got, answer>>
  BY DEF Grow, WriteInv, WriteTypes, writes, reads
<1>3. data \in [Inode -> Contained] /\ data' \in [Inode -> Contained] /\ versions \subseteq Contained
  BY <1>1 DEF WriteInv, WriteTypes, ReadInv, ReadTypes
<1>4. versions \subseteq versions' /\ versions' \subseteq Contained
  BY <1>2, <1>3
<1>5. (Running' <=> Running) /\ (Linked' <=> Linked)
  BY <1>2 DEF Running, Linked
<1>6. FilesStay
  <2> SUFFICES ASSUME NEW i \in Inode, FileRead(i) PROVE FileRead(i)' /\ Extended(data[i], data'[i])
    BY <1>4, <1>5 DEF FilesStay
  <2>1. CASE i = path
    <3> DEFINE file == data[i]
    <3>1. file \in Contained /\ data'[i] = Append(file, Program)
      BY <1>2, <1>3, <2>1
    <3>2. Extended(file, Append(file, Program))
      <4> HIDE DEF file
      <4> QED
        BY <3>1 DEF Extended, Contained
    <3>3. Extended(data[i], data'[i])
      BY <3>1, <3>2
    <3> QED
      BY <1>2, <2>1, <3>3 DEF FileRead
  <2>2. CASE i # path
    <3>1. data'[i] = data[i] /\ data[i] \in Contained
      BY <1>2, <1>3, <2>2
    <3> QED
      BY <1>2, <1>4, <3>1, SameFile DEF FileRead
  <2> QED
    BY <2>1, <2>2
<1>7. \A r \in Reader : LeftAlone(r)
  BY <1>2, <1>5 DEF LeftAlone
<1>8. (Running' /\ path' # NoFile) => data'[path'] \in versions'
  BY <1>2
<1>9. wire' \in [Reader -> Seq(Message)]
  BY <1>2 DEF ReadInv, ReadTypes
<1> QED
  BY <1>1, <1>2, <1>4, <1>6, <1>7, <1>8, <1>9, Elsewhere

LEMMA LostMessages ==
  ASSUME wire \in [Reader -> Seq(Message)], LoseMessages
  PROVE  wire' \in [Reader -> Seq(Message)] /\ \A r \in Reader : Cut(wire'[r], wire[r])
<1>1. PICK k \in [Reader -> 0..(Cap \div Chunk + 2)] :
        wire' = [r \in Reader |-> SubSeq(wire[r], 1, Least(k[r], Len(wire[r])))]
  BY DEF LoseMessages
<1>2. ASSUME NEW r \in Reader PROVE wire'[r] \in Seq(Message) /\ Cut(wire'[r], wire[r])
  <2> DEFINE w == wire[r]
             n == Least(k[r], Len(w))
  <2>1. w \in Seq(Message) /\ Len(w) \in Nat /\ k[r] \in Nat
    BY <1>1
  <2>2. n \in 0..Len(w)
    BY <2>1 DEF Least
  <2>3. wire'[r] = First(w, n)
    BY <1>1 DEF First
  <2> HIDE DEF n, w
  <2>4. First(w, n) \in Seq(Message) /\ Len(First(w, n)) = n /\ \A j \in 1..n : First(w, n)[j] = w[j]
    BY <2>1, <2>2, FirstProperties
  <2>5. Cut(First(w, n), w)
    BY <2>1, <2>2, <2>4 DEF Cut
  <2> QED
    BY <2>3, <2>4, <2>5 DEF w
<1> QED
  BY <1>1, <1>2

LEMMA LossSteps ==
  ASSUME WriteInv, ReadInv, Lose \/ Crash
  PROVE  ReadInv'
<1>1. UNCHANGED <<versions, wpc, rd, got, answer>> /\ ~Linked' /\ LoseMessages
      /\ (Running' => Running /\ UNCHANGED <<data, path>>)
  BY DEF Lose, Crash, files, writes, Linked, Running
<1>2. WriteInv'
  BY CrashStep, OtherSteps DEF Lose, Linked, Running
<1>3. wire' \in [Reader -> Seq(Message)] /\ \A r \in Reader : Cut(wire'[r], wire[r])
  BY <1>1, LostMessages DEF ReadInv, ReadTypes
<1>4. FilesStay
  <2>1. Running' => \A i \in Inode : FileRead(i) => FileRead(i)' /\ Extended(data[i], data'[i])
    BY <1>1, SameFile DEF FileRead, WriteInv, WriteTypes
  <2> QED
    BY <1>1, <2>1 DEF FilesStay
<1>5. \A r \in Reader : LeftAlone(r)
  BY <1>1, <1>3 DEF LeftAlone
<1>6. ((Running' /\ path' # NoFile) => data'[path'] \in versions') /\ versions' \subseteq Contained
  BY <1>1 DEF ReadInv, ReadTypes
<1> QED
  BY <1>1, <1>2, <1>3, <1>4, <1>5, <1>6, Elsewhere

LEMMA StutterReads == WriteInv /\ ReadInv /\ UNCHANGED vars => ReadInv'
<1> SUFFICES ASSUME WriteInv, ReadInv, UNCHANGED vars PROVE ReadInv'
  OBVIOUS
<1>1. UNCHANGED <<data, path, versions, up, wpc, rd, wire, got, answer>> /\ WriteInv'
  BY WriteStep DEF vars, files, writes, reads
<1>2. (Running' <=> Running) /\ (Linked' <=> Linked)
  BY <1>1 DEF Running, Linked
<1>3. FilesStay
  BY <1>1, <1>2, SameFile DEF FilesStay, FileRead, WriteInv, WriteTypes
<1>4. \A r \in Reader : LeftAlone(r)
  BY <1>1, <1>2 DEF LeftAlone
<1>5. /\ wire' \in [Reader -> Seq(Message)] /\ versions' \subseteq Contained
      /\ (Running' /\ path' # NoFile) => data'[path'] \in versions'
  BY <1>1, <1>2 DEF ReadInv, ReadTypes
<1> QED
  BY <1>1, <1>3, <1>4, <1>5, Elsewhere

LEMMA ReadStep == WriteInv /\ ReadInv /\ [Next]_vars => ReadInv'
<1> SUFFICES ASSUME WriteInv, ReadInv, [Next]_vars PROVE ReadInv'
  OBVIOUS
<1>1. ASSUME NEW w \in Writer,
             \/ WriteAsked(w) \/ WriteCreates(w) \/ WriteFills(w) \/ WriteSyncs(w)
             \/ WriteInstalls(w) \/ WriteFails(w)
      PROVE  ReadInv'
  BY <1>1, WriterSteps
<1>2. ASSUME NEW r \in Reader, NEW offset \in Offsets, NEW max \in Limits, ReadOpens(r, offset, max)
      PROVE  ReadInv'
  BY <1>2, OpensStep
<1>3. ASSUME NEW r \in Reader, ReadTurn(r) \/ ReadFails(r) \/ ReadEnds(r) PROVE ReadInv'
  BY <1>3, TurnStep, FailsStep, EndsStep
<1>4. ASSUME NEW r \in Reader, Collect(r) \/ Conclude(r) \/ GiveUp(r) PROVE ReadInv'
  BY <1>4, CollectStep, ConcludeStep, GiveUpStep
<1>5. CASE Grow
  BY <1>5, GrowReads
<1>6. CASE Lose \/ Crash
  BY <1>6, LossSteps
<1>7. CASE UNCHANGED vars
  BY <1>7, StutterReads
<1> QED
  BY <1>1, <1>2, <1>3, <1>4, <1>5, <1>6, <1>7 DEF Next

LEMMA ReadInvariant == Spec => [](WriteInv /\ ReadInv)
<1>1. Init => WriteInv /\ ReadInv
  BY WriteInit, ReadInit
<1>2. (WriteInv /\ ReadInv) /\ [Next]_vars => (WriteInv /\ ReadInv)'
  BY WriteStep, ReadStep
<1> QED
  BY <1>1, <1>2, PTL DEF Spec

-----------------------------------------------------------------------------
\* A piece in the sense of the invariant is one in the sense of the properties.
LEMMA PieceIsSlice ==
  ASSUME NEW file \in Contained, NEW offset \in Nat, NEW sum \in Contained, PieceAt(file, offset, sum)
  PROVE  LET from == Least(offset, Len(file))
             to == from + Len(sum)
         IN  to <= Len(file) /\ sum = SubSeq(file, from + 1, to)
<1> DEFINE n == Len(file)
           m == Len(sum)
           from == Least(offset, n)
<1>1. n \in Nat /\ m \in Nat /\ (sum = <<>> <=> m = 0)
  BY DEF Contained
<1>2. sum # <<>> => offset + m <= n /\ \A k \in 1..m : sum[k] = file[offset + k]
  BY DEF PieceAt
<1> HIDE DEF n, m
<1>3. from \in Nat /\ from <= n /\ from + m <= n /\ (m > 0 => from = offset)
  BY <1>1, <1>2 DEF Least
<1> HIDE DEF from
<1>4. CASE m = 0
  <2>1. SubSeq(file, from + 1, from) = <<>>
    BY <1>3 DEF Contained
  <2>2. from + m = from
    BY <1>3, <1>4
  <2> QED
    BY <1>1, <1>3, <1>4, <2>1, <2>2 DEF n, m, from
<1>5. CASE m > 0
  <2> DEFINE s == SubSeq(file, from + 1, from + m)
  <2>1. s \in Seq(Label) /\ Len(s) = m /\ \A k \in 1..m : s[k] = file[from + k]
    <3>1. from + 1 \in 1..(Len(file) + 1) /\ from + m \in (from + 1)..Len(file) /\ (from + m) - (from + 1) + 1 = m
      BY <1>1, <1>3, <1>5 DEF n
    <3>2. file \in Seq(Label)
      BY DEF Contained
    <3> DEFINE a == from + 1
               b == from + m
    <3>3. a \in 1..(Len(file) + 1) /\ b \in a..Len(file) /\ b - a + 1 = m /\ \A k \in 1..m : a + k - 1 = from + k
      BY <1>1, <1>3, <3>1
    <3> HIDE DEF a, b
    <3>4. SubSeq(file, a, b) \in Seq(Label) /\ Len(SubSeq(file, a, b)) = m
      BY <3>2, <3>3
    <3>5. \A k \in 1..m : SubSeq(file, a, b)[k] = file[a + k - 1]
      BY <3>2, <3>3, <1>1
    <3> QED
      BY <3>3, <3>4, <3>5 DEF a, b
  <2>2. \A k \in 1..m : s[k] = sum[k]
    BY <1>1, <1>2, <1>3, <1>5, <2>1
  <2>3. sum \in Seq(Label) /\ Len(sum) = m
    BY DEF Contained, m
  <2> HIDE DEF s
  <2>4. sum = s
    BY <2>1, <2>2, <2>3
  <2> QED
    BY <1>3, <2>4, Zenon DEF n, m, from, s
<1> QED
  BY <1>1, <1>4, <1>5

LEMMA AnswerIsTrue ==
  ASSUME ReadInv, NEW r \in Reader, answer[r].status = "ok"
  PROVE  /\ answer[r].sha256 = answer[r].content
         /\ \E file \in versions :
              /\ PieceOf(file, r)
              /\ Len(answer[r].content) # rd[r].limit => ~Remains(file, r)
              /\ answer[r].truncated => Len(answer[r].content) = rd[r].limit /\ Remains(file, r)
<1> DEFINE content == answer[r].content
<1>1. /\ answer[r].sha256 = content
      /\ \E file \in versions :
           Truth(file, rd[r].offset, rd[r].limit, content, answer[r].truncated)
  BY DEF ReadInv, ReaderInv, Answered
<1>2. PICK file \in versions : Truth(file, rd[r].offset, rd[r].limit, content, answer[r].truncated)
  BY <1>1
<1>3. file \in Contained /\ content \in Contained
  BY DEF ReadInv, ReadTypes, Answers, Refusal
<1>4. rd[r].pc # "idle"
  BY DEF ReadInv, ReaderInv, Unasked
<1>5. rd[r].offset \in Nat
  BY <1>4, ReadKinds DEF ReadInv, ReadTypes
<1> HIDE DEF content
<1>6. PieceAt(file, rd[r].offset, content)
  BY <1>2 DEF Truth
<1>7. PieceOf(file, r)
  BY <1>3, <1>5, <1>6, PieceIsSlice DEF PieceOf, content
<1> QED
  BY <1>1, <1>2, <1>7 DEF Truth, content, Remains

\* What read_file returns is a piece of one version of the file, whose digest is the one
\* returned with it, whatever is renamed over it, appended or lost in the meantime
\* (readFileTransfer, _dispatch_file_transfer).
THEOREM OneVersionRead == Spec => []ReadIsOneVersion
<1>1. WriteInv /\ ReadInv => ReadIsOneVersion
  BY AnswerIsTrue DEF ReadIsOneVersion
<1> QED
  BY <1>1, ReadInvariant, PTL

\* An answer that is shorter than the limit goes to the end of that version, and one that
\* is labelled truncated has the limit's length and bytes after it: a read that failed
\* half-way is never returned as whole.  (Of an answer of the limit's length that is not
\* labelled, nothing is said: the probe may have failed.)
THEOREM CompleteRead == Spec => []ReadIsComplete
<1>1. WriteInv /\ ReadInv => ReadIsComplete
  <2> SUFFICES ASSUME WriteInv, ReadInv, NEW r \in Reader, answer[r].status = "ok"
               PROVE  \E file \in versions :
                        /\ PieceOf(file, r)
                        /\ Len(answer[r].content) < rd[r].limit => ~Remains(file, r)
                        /\ answer[r].truncated => Len(answer[r].content) = rd[r].limit
                                                  /\ Remains(file, r)
    BY DEF ReadIsComplete
  <2> QED
    BY AnswerIsTrue
<1> QED
  BY <1>1, ReadInvariant, PTL
=============================================================================
