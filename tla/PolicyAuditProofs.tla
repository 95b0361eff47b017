------------------------- MODULE PolicyAuditProofs -------------------------
(***************************************************************************)
(* Proofs about what the relay does around a command: the audit log        *)
(* (AuditLog.tla), for any contents and length of the file, and the policy *)
(* (CommandPolicy.tla), for any codes, quota, rate limit, window and       *)
(* length of the run.                                                      *)
(***************************************************************************)
EXTENDS CommandPolicy, AuditLog, SequenceLemmas, FiniteSetTheorems

-----------------------------------------------------------------------------
(* The audit log: what a step does to the file                             *)

IsLine(line) == line = [prev |-> line.prev, body |-> line.body, hash |-> line.hash]
IsFile(lines) == IsSequence(lines) /\ \A i \in 1..Len(lines) : IsLine(lines[i])

\* The hash that the entry after the first n lines must carry.
Tip(lines, n) == IF n = 0 THEN GENESIS ELSE lines[n].hash
Sound(lines, i) == /\ Readable(lines[i])
                   /\ lines[i].prev = Tip(lines, i - 1)
                   /\ lines[i].hash = Hash(lines[i].prev, lines[i].body)

LEMMA VerifySound ==
  ASSUME NEW lines
  PROVE  Verify(lines) <=> \A i \in 1..Len(lines) : Sound(lines, i)
<1>1. \A i \in 1..Len(lines) :
        (i - 1 = 0 <=> i = 1)
  OBVIOUS
<1> QED
  BY <1>1 DEF Verify, Sound, Tip

LEMMA EntryReadable == \A b : IsLine(Entry(b)) /\ Readable(Entry(b))
  BY DEF IsLine, Entry, Readable, UNREADABLE, UNDECODABLE, Junk, Hash

LEMMA JoinedUnreadable == \A line : IsLine(Joined(line)) /\ ~Readable(Joined(line))
  BY DEF IsLine, Joined, Readable, UNREADABLE, UNDECODABLE, Junk

\* An append leaves the lines before it, sound or not.
LEMMA AppendSound ==
  ASSUME NEW lines, IsFile(lines), NEW line, IsLine(line)
  PROVE  /\ IsFile(Append(lines, line))
         /\ \A i \in 1..Len(lines) : Sound(Append(lines, line), i) <=> Sound(lines, i)
         /\ Verify(Append(lines, line)) <=> Verify(lines) /\ Sound(Append(lines, line), Len(lines) + 1)
<1> DEFINE new == Append(lines, line)
<1>1. /\ IsSequence(new) /\ Len(lines) \in Nat /\ Len(new) = Len(lines) + 1
      /\ new[Len(lines) + 1] = line /\ \A i \in 1..Len(lines) : new[i] = lines[i]
  BY AppendAny DEF IsFile
<1> HIDE DEF new
<1>2. IsFile(new)
  BY <1>1 DEF IsFile
<1>3. \A i \in 1..Len(lines) : Tip(new, i - 1) = Tip(lines, i - 1) /\ new[i] = lines[i]
  <2> SUFFICES ASSUME NEW i \in 1..Len(lines) PROVE Tip(new, i - 1) = Tip(lines, i - 1)
    BY <1>1
  <2>1. i - 1 = 0 \/ i - 1 \in 1..Len(lines)
    BY <1>1
  <2> QED
    BY <1>1, <2>1 DEF Tip
<1>4. \A i \in 1..Len(lines) : Sound(new, i) <=> Sound(lines, i)
  BY <1>3 DEF Sound
<1>5. 1..Len(new) = 1..Len(lines) \cup {Len(lines) + 1}
  BY <1>1
<1>6. Verify(new) <=> Verify(lines) /\ Sound(new, Len(lines) + 1)
  BY <1>4, <1>5, VerifySound
<1> QED
  BY <1>2, <1>4, <1>6 DEF new

\* What a write makes of the file: an entry added, or a line that shows the cut.
LEMMA WrittenFile ==
  ASSUME NEW line, IsLine(line), IsFile(file), cut => file # <<>>
  PROVE  /\ IsFile(Written(line)) /\ Written(line) # <<>>
         /\ ~cut => Written(line) = Append(file, line)
         /\ cut => ~Verify(Written(line))
<1>1. CASE ~cut
  BY <1>1, AppendSound, AppendAny DEF Written, IsFile
<1>2. CASE cut
  <2> DEFINE start == Front(file)
             new == Append(start, Joined(line))
  <2>1. IsFile(start)
    BY <1>2, FrontAny DEF IsFile
  <2>2. Len(start) \in Nat /\ new[Len(start) + 1] = Joined(line) /\ new # <<>>
    BY <2>1, AppendAny DEF IsFile
  <2>3. IsFile(new) /\ (Verify(new) => Sound(new, Len(start) + 1))
    BY <2>1, JoinedUnreadable, AppendSound
  <2>4. ~Verify(new)
    BY <2>2, <2>3, JoinedUnreadable DEF Sound
  <2> QED
    BY <1>2, <2>2, <2>3, <2>4 DEF Written
<1> QED
  BY <1>1, <1>2

-----------------------------------------------------------------------------
(* Subsequences                                                            *)

LEMMA SubsequenceGrows ==
  ASSUME NEW s, NEW t, IsSequence(s), IsSequence(t), IsSubsequence(s, t), NEW x
  PROVE  /\ IsSubsequence(s, Append(t, x))
         /\ IsSubsequence(Append(s, x), Append(t, x))
<1>1. PICK f \in [1..Len(s) -> 1..Len(t)] :
        \A i \in 1..Len(s) : s[i] = t[f[i]] /\ \A j \in 1..(i - 1) : f[j] < f[i]
  BY DEF IsSubsequence
<1>2. /\ Len(s) \in Nat /\ Len(t) \in Nat
      /\ Len(Append(s, x)) = Len(s) + 1 /\ Append(s, x)[Len(s) + 1] = x
      /\ \A i \in 1..Len(s) : Append(s, x)[i] = s[i]
      /\ Len(Append(t, x)) = Len(t) + 1 /\ Append(t, x)[Len(t) + 1] = x
      /\ \A i \in 1..Len(t) : Append(t, x)[i] = t[i]
  BY AppendAny
<1> DEFINE m == Len(s)
           n == Len(t)
           u == Append(s, x)
           v == Append(t, x)
<1> HIDE DEF m, n, u, v
<1>3. /\ f \in [1..m -> 1..n] /\ m \in Nat /\ n \in Nat
      /\ \A i \in 1..m : s[i] = t[f[i]] /\ \A j \in 1..(i - 1) : f[j] < f[i]
      /\ Len(u) = m + 1 /\ u[m + 1] = x /\ \A i \in 1..m : u[i] = s[i]
      /\ Len(v) = n + 1 /\ v[n + 1] = x /\ \A i \in 1..n : v[i] = t[i]
  BY <1>1, <1>2 DEF m, n, u, v
<1>4. IsSubsequence(s, v)
  <2>1. f \in [1..m -> 1..(n + 1)]
    BY <1>3
  <2>2. \A i \in 1..m : s[i] = v[f[i]] /\ \A j \in 1..(i - 1) : f[j] < f[i]
    BY <1>3
  <2> QED
    BY <1>3, <2>1, <2>2 DEF IsSubsequence, m
<1>5. IsSubsequence(u, v)
  <2> DEFINE g == [i \in 1..(m + 1) |-> IF i = m + 1 THEN n + 1 ELSE f[i]]
  <2>1. g \in [1..(m + 1) -> 1..(n + 1)]
    BY <1>3
  <2>2. g[m + 1] = n + 1 /\ \A i \in 1..m : g[i] = f[i] /\ f[i] \in 1..n
    BY <1>3
  <2> HIDE DEF g
  <2>3. ASSUME NEW i \in 1..(m + 1) PROVE u[i] = v[g[i]] /\ \A j \in 1..(i - 1) : g[j] < g[i]
    <3>1. CASE i = m + 1
      <4>1. u[i] = x /\ v[g[i]] = x
        BY <1>3, <2>2, <3>1
      <4>2. \A j \in 1..(i - 1) : j \in 1..m
        BY <1>3, <3>1
      <4>3. \A j \in 1..(i - 1) : g[j] < g[i]
        BY <1>3, <2>2, <3>1, <4>2
      <4> QED
        BY <4>1, <4>3
    <3>2. CASE i \in 1..m
      <4>1. g[i] = f[i] /\ f[i] \in 1..n /\ u[i] = s[i] /\ v[f[i]] = t[f[i]]
        BY <1>3, <2>2, <3>2
      <4>2. \A j \in 1..(i - 1) : j \in 1..m
        BY <1>3, <3>2
      <4>3. \A j \in 1..(i - 1) : g[j] < g[i]
        BY <1>3, <2>2, <3>2, <4>1, <4>2
      <4> QED
        BY <1>3, <3>2, <4>1, <4>3
    <3> QED
      BY <1>3, <3>1, <3>2
  <2> QED
    BY <1>3, <2>1, <2>3 DEF IsSubsequence
<1> QED
  BY <1>4, <1>5 DEF u, v

LEMMA EmptySubsequence == IsSubsequence(<<>>, <<>>)
<1> DEFINE f == [i \in 1..0 |-> i]
<1>1. f \in [1..0 -> 1..0] /\ Len(<<>>) = 0 /\ \A i \in 1..0 : FALSE
  OBVIOUS
<1> HIDE DEF f
<1>2. \A i \in 1..0 : <<>>[i] = <<>>[f[i]] /\ \A j \in 1..(i - 1) : f[j] < f[i]
  BY <1>1
<1> QED
  BY <1>1, <1>2 DEF IsSubsequence

-----------------------------------------------------------------------------
(* The invariant                                                           *)

Whole == edited = "no" /\ ~torn      \* neither cut nor edited so far
Edited == edited # "no" /\ ~torn     \* edited, and never cut

\* A process that was running when the file was edited has left its next entry there.
Marked(lines) == \E j \in 1..Len(lines) : lines[j].prev = Tip(before, Len(before))

AuditInv ==
  /\ IsFile(file) /\ IsSequence(acked)
  /\ cut => file # <<>>
  /\ ~torn => ~cut
  /\ Whole => Verify(file)
  /\ Whole /\ up = "up" => prevHash = Tip(file, Len(file))
  /\ edited = "no" => (Verify(file) => IsSubsequence(acked, file))
  /\ Edited => /\ IsFile(before) /\ Verify(before)
               /\ edited = "watched" => up = "up" /\ prevHash = Tip(before, Len(before))
               /\ edited = "recorded" => Marked(file)

LEMMA EmptyFile == IsFile(<<>>) /\ IsSequence(<<>>) /\ Verify(<<>>)
<1>1. <<>> \in Seq({}) /\ Len(<<>>) = 0 /\ \A i \in 1..0 : FALSE
  OBVIOUS
<1> QED
  BY <1>1 DEF IsFile, IsSequence, Verify

\* What every write does, whatever becomes of its entry.
LEMMA WriteStep ==
  ASSUME AuditInv, NEW line, IsLine(line), file' = Written(line), cut' => torn'
  PROVE  /\ IsFile(file') /\ file' # <<>>
         /\ Verify(file') => ~cut /\ Verify(file)
         /\ edited = "no" => (Verify(file') => IsSubsequence(acked, file'))
         /\ ~cut => file' = Append(file, line)
<1> USE DEF AuditInv
<1>1. /\ IsFile(file') /\ file' # <<>>
      /\ ~cut => file' = Append(file, line)
      /\ cut => ~Verify(file')
  BY WrittenFile
<1>2. Verify(file') => ~cut /\ Verify(file)
  BY <1>1, AppendSound
<1>3. edited = "no" => (Verify(file') => IsSubsequence(acked, file'))
  BY <1>1, <1>2, SubsequenceGrows DEF IsFile
<1> QED
  BY <1>1, <1>2, <1>3

\* The entry that a process writes after an edit marks the file, and no entry unmarks it.
LEMMA MarkStep ==
  ASSUME AuditInv, Edited, NEW b, file' = Append(file, Entry(b)), UNCHANGED before,
         edited \in {"watched", "recorded"}
  PROVE  Marked(file)'
<1>1. /\ Len(file) \in Nat /\ Len(file') = Len(file) + 1 /\ file'[Len(file) + 1] = Entry(b)
      /\ \A i \in 1..Len(file) : file'[i] = file[i]
  BY AppendAny DEF AuditInv, IsFile
<1>2. Tip(before, Len(before))' = Tip(before, Len(before))
  BY DEF Tip
<1>3. CASE edited = "watched"
  <2>1. file'[Len(file) + 1].prev = Tip(before, Len(before)) /\ Len(file) + 1 \in 1..Len(file')
    BY <1>1, <1>3 DEF AuditInv, Entry
  <2> QED
    BY <1>2, <2>1 DEF Marked
<1>4. CASE edited = "recorded"
  <2>1. PICK j \in 1..Len(file) : file[j].prev = Tip(before, Len(before))
    BY <1>4 DEF AuditInv, Marked
  <2>2. j \in 1..Len(file') /\ file'[j].prev = Tip(before, Len(before))
    BY <1>1, <2>1
  <2> QED
    BY <1>2, <2>2 DEF Marked
<1> QED
  BY <1>3, <1>4

\* An entry that the process writes on top of a whole file is sound.
LEMMA EntrySound ==
  ASSUME AuditInv, Whole, up = "up", NEW b
  PROVE  Verify(Append(file, Entry(b)))
<1> DEFINE new == Append(file, Entry(b))
<1>1. IsFile(file) /\ Verify(file) /\ prevHash = Tip(file, Len(file))
  BY DEF AuditInv
<1>2. /\ Len(file) \in Nat /\ Len(new) = Len(file) + 1 /\ new[Len(file) + 1] = Entry(b)
      /\ \A i \in 1..Len(file) : new[i] = file[i]
  BY <1>1, AppendAny DEF IsFile
<1>3. Verify(new) <=> Verify(file) /\ Sound(new, Len(file) + 1)
  BY <1>1, EntryReadable, AppendSound
<1> HIDE DEF new
<1>4. Tip(new, Len(file)) = Tip(file, Len(file))
  BY <1>2 DEF Tip
<1>5. Sound(new, Len(file) + 1)
  <2>1. (Len(file) + 1) - 1 = Len(file)
    BY <1>2
  <2>2. Entry(b).prev = prevHash /\ Entry(b).hash = Hash(Entry(b).prev, Entry(b).body)
    BY DEF Entry
  <2> QED
    BY <1>1, <1>2, <1>4, <2>1, <2>2, EntryReadable DEF Sound
<1> QED
  BY <1>1, <1>3, <1>5 DEF new

LEMMA RecordStep ==
  ASSUME AuditInv, NEW b \in Body, Record(b)
  PROVE  AuditInv'
<1> DEFINE e == Entry(b)
<1>1. /\ file' = Written(e) /\ ~cut' /\ prevHash' = Hash(prevHash, b) /\ acked' = Append(acked, e)
      /\ up = "up" /\ UNCHANGED <<up, torn, before>>
      /\ edited' = IF edited = "watched" THEN "recorded" ELSE edited
  BY DEF Record, Sees
<1>2. IsLine(e) /\ e.hash = Hash(prevHash, b)
  BY EntryReadable DEF Entry
<1>3. /\ IsFile(file') /\ file' # <<>> /\ (Verify(file') => ~cut /\ Verify(file))
      /\ ~cut => file' = Append(file, e)
  BY <1>1, <1>2, WriteStep
<1>4. IsSequence(acked') /\ (~torn => ~cut)
  BY <1>1, AppendAny DEF AuditInv
<1>5. Whole' => Verify(file')
  BY <1>1, <1>3, <1>4, EntrySound DEF Whole
<1>6. Whole' => prevHash' = Tip(file', Len(file'))
  <2> SUFFICES ASSUME Whole' PROVE prevHash' = Tip(file', Len(file'))
    OBVIOUS
  <2>1. file' = Append(file, e)
    BY <1>1, <1>3, <1>4 DEF Whole
  <2>2. Len(file) \in Nat /\ Len(file') = Len(file) + 1 /\ file'[Len(file) + 1] = e
    BY <2>1, AppendAny DEF AuditInv, IsFile
  <2> QED
    BY <1>1, <1>2, <2>2 DEF Tip
<1>7. edited' = "no" => (Verify(file') => IsSubsequence(acked', file'))
  <2> SUFFICES ASSUME edited = "no", Verify(file') PROVE IsSubsequence(acked', file')
    BY <1>1
  <2>1. IsSubsequence(acked, file) /\ IsSequence(acked) /\ IsSequence(file)
    BY <1>3 DEF AuditInv, IsFile
  <2> QED
    BY <1>1, <1>3, <2>1, SubsequenceGrows
<1>8. Edited' => /\ IsFile(before') /\ Verify(before') /\ edited' # "watched"
                 /\ edited' = "recorded" => Marked(file)'
  BY <1>1, <1>3, <1>4, MarkStep DEF Edited, AuditInv
<1> QED
  BY <1>1, <1>3, <1>4, <1>5, <1>6, <1>7, <1>8 DEF AuditInv

LEMMA CutStep ==
  ASSUME AuditInv, NEW b \in Body, RecordCut(b)
  PROVE  AuditInv'
<1>1. PICK line \in {UNREADABLE, UNDECODABLE, Entry(b)} : file' = Written(line)
  BY DEF RecordCut
<1>2. cut' /\ torn' /\ UNCHANGED <<prevHash, acked, edited, before>>
  BY DEF RecordCut
<1>3. IsLine(line)
  BY <1>1, EntryReadable DEF IsLine, UNREADABLE, UNDECODABLE, Junk
<1>4. /\ IsFile(file') /\ file' # <<>>
      /\ edited = "no" => (Verify(file') => IsSubsequence(acked, file'))
  BY <1>1, <1>2, <1>3, WriteStep
<1>5. ~Whole' /\ ~Edited'
  BY <1>2 DEF Whole, Edited
<1> QED
  BY <1>2, <1>4, <1>5 DEF AuditInv

LEMMA CrashAfterWriteStep ==
  ASSUME AuditInv, NEW b \in Body, CrashAfterWrite(b)
  PROVE  AuditInv'
<1>1. /\ file' = Written(Entry(b)) /\ ~cut' /\ up = "up" /\ up' # "up"
      /\ UNCHANGED <<prevHash, acked, torn, before>>
      /\ edited' = IF edited = "watched" THEN "recorded" ELSE edited
  BY DEF CrashAfterWrite, Sees
<1>2. /\ IsFile(file') /\ file' # <<>> /\ (Verify(file') => ~cut /\ Verify(file))
      /\ edited = "no" => (Verify(file') => IsSubsequence(acked, file'))
      /\ ~cut => file' = Append(file, Entry(b))
  BY <1>1, EntryReadable, WriteStep
<1>3. Whole' => Verify(file')
  BY <1>1, <1>2, EntrySound DEF Whole, AuditInv
<1>4. Edited' => /\ IsFile(before') /\ Verify(before') /\ edited' # "watched"
                 /\ edited' = "recorded" => Marked(file)'
  BY <1>1, <1>2, MarkStep DEF Edited, AuditInv
<1> QED
  BY <1>1, <1>2, <1>3, <1>4 DEF AuditInv, Whole

\* A process that finds every line readable resumes the chain where it is.
LEMMA LastHashIsTip ==
  ASSUME IsFile(file), Verify(file)
  PROVE  LastHash = Tip(file, Len(file))
<1> DEFINE ok == {i \in 1..Len(file) : Readable(file[i])}
           n == Len(file)
<1>1. ok = 1..n
  BY VerifySound DEF Sound
<1>2. n \in Nat
  BY DEF IsFile, IsSequence
<1>3. LastHash = IF ok = {} THEN GENESIS ELSE file[Max(ok)].hash
  BY DEF LastHash
<1> HIDE DEF ok, n
<1>4. CASE n = 0
  BY <1>1, <1>3, <1>4 DEF Tip, n
<1>5. CASE n # 0
  <2>1. n \in ok /\ \A j \in ok : n >= j
    BY <1>1, <1>2, <1>5
  <2>2. Max(ok) = n
    <3>1. Max(ok) = CHOOSE i \in ok : \A j \in ok : i >= j
      BY DEF Max
    <3>2. Max(ok) \in ok /\ \A j \in ok : Max(ok) >= j
      BY <2>1, <3>1
    <3> QED
      BY <1>1, <1>2, <2>1, <3>2
  <2> QED
    BY <1>3, <1>5, <2>1, <2>2 DEF Tip, n
<1> QED
  BY <1>4, <1>5

LEMMA RestartStep ==
  ASSUME AuditInv, Restart
  PROVE  AuditInv'
<1>1. UNCHANGED <<file, cut, acked, torn, edited, before>> /\ up # "up"
  BY DEF Restart, ghosts
<1>2. up' = "up" => prevHash' = LastHash
  BY DEF Restart
<1>3. Whole' /\ up' = "up" => prevHash' = Tip(file', Len(file'))
  BY <1>1, <1>2, LastHashIsTip DEF AuditInv, Whole
<1> QED
  BY <1>1, <1>3 DEF AuditInv, Whole, Edited, Marked, Tip

-----------------------------------------------------------------------------
(* Edits                                                                   *)

\* The hash of a line is that of no other file up to another line: a hash covers all
\* that comes before it.
LEMMA TipsDiffer ==
  ASSUME NEW f, IsFile(f), Verify(f), NEW g, IsFile(g), Verify(g),
         NEW i \in 0..Len(f), NEW j \in 0..Len(g), Tip(f, i) = Tip(g, j)
  PROVE  i = j /\ \A m \in 1..i : f[m] = g[m]
<1> DEFINE Same(k, l) == k = l /\ \A m \in 1..k : f[m] = g[m]
           S == {k \in Nat : k \in 0..Len(f) =>
                  \A l \in 0..Len(g) : Tip(f, k) = Tip(g, l) => Same(k, l)}
<1>0. Len(f) \in Nat /\ Len(g) \in Nat
  BY DEF IsFile, IsSequence
<1>1. ASSUME NEW h, IsFile(h), Verify(h), NEW k \in Nat, k + 1 \in 1..Len(h)
      PROVE  /\ Tip(h, k + 1) = <<Tip(h, k), h[k + 1].body>> /\ Tip(h, k + 1) # <<>>
             /\ h[k + 1] = [prev |-> Tip(h, k), body |-> h[k + 1].body, hash |-> Tip(h, k + 1)]
  <2>1. Sound(h, k + 1) /\ (k + 1) - 1 = k /\ k + 1 # 0
    BY <1>1, VerifySound
  <2>2. /\ h[k + 1].prev = Tip(h, k) /\ Tip(h, k + 1) = h[k + 1].hash
        /\ h[k + 1].hash = <<h[k + 1].prev, h[k + 1].body>>
    BY <2>1 DEF Sound, Hash, Tip
  <2>3. h[k + 1] = [prev |-> h[k + 1].prev, body |-> h[k + 1].body, hash |-> h[k + 1].hash]
    BY <1>1 DEF IsFile, IsLine
  <2>4. \A a, b : <<a, b>> # <<>>
    OBVIOUS
  <2>5. Tip(h, k + 1) = <<Tip(h, k), h[k + 1].body>>
    BY <2>2, Zenon
  <2>6. Tip(h, k + 1) # <<>>
    BY <2>4, <2>5, Zenon
  <2>7. h[k + 1] = [prev |-> Tip(h, k), body |-> h[k + 1].body, hash |-> Tip(h, k + 1)]
    BY <2>2, <2>3, Zenon
  <2> QED
    BY <2>5, <2>6, <2>7
<1>2. 0 \in S
  <2> SUFFICES ASSUME NEW l \in 0..Len(g), Tip(f, 0) = Tip(g, l), l # 0 PROVE FALSE
    BY <1>0
  <2>1. l - 1 \in Nat /\ (l - 1) + 1 = l /\ l \in 1..Len(g)
    BY <1>0
  <2>2. Tip(g, l) # <<>>
    BY <1>1, <2>1
  <2> QED
    BY <2>2 DEF Tip, GENESIS
<1>3. ASSUME NEW k \in Nat, k \in S PROVE k + 1 \in S
  <2> SUFFICES ASSUME k + 1 \in 0..Len(f), NEW l \in 0..Len(g), Tip(f, k + 1) = Tip(g, l)
               PROVE  Same(k + 1, l)
    OBVIOUS
  <2>1. k + 1 \in 1..Len(f) /\ k \in 0..Len(f)
    BY <1>0
  <2>2. /\ Tip(f, k + 1) = <<Tip(f, k), f[k + 1].body>> /\ Tip(f, k + 1) # <<>>
        /\ f[k + 1] = [prev |-> Tip(f, k), body |-> f[k + 1].body, hash |-> Tip(f, k + 1)]
    BY <1>1, <2>1
  <2>3. l # 0
    BY <2>2 DEF Tip, GENESIS
  <2> DEFINE n == l - 1
  <2>4. n \in Nat /\ n + 1 = l /\ n \in 0..Len(g) /\ n + 1 \in 1..Len(g)
    BY <1>0, <2>3
  <2>5. /\ Tip(g, n + 1) = <<Tip(g, n), g[n + 1].body>>
        /\ g[n + 1] = [prev |-> Tip(g, n), body |-> g[n + 1].body, hash |-> Tip(g, n + 1)]
    BY <1>1, <2>4
  <2> HIDE DEF n
  <2>6. Tip(f, k) = Tip(g, n) /\ f[k + 1].body = g[n + 1].body
    BY <2>2, <2>4, <2>5
  <2>7. Same(k, n)
    BY <1>3, <2>1, <2>4, <2>6
  <2>8. f[k + 1] = g[n + 1]
    BY <2>2, <2>4, <2>5, <2>6
  <2>9. k + 1 = l
    BY <2>4, <2>7
  <2>10. ASSUME NEW m \in 1..(k + 1) PROVE f[m] = g[m]
    BY <2>7, <2>8
  <2> QED
    BY <2>9, <2>10
<1>4. Nat \subseteq S
  <2> HIDE DEF S
  <2> QED
    BY <1>2, <1>3, SetInduction
<1> QED
  BY <1>0, <1>4

\* An edit leaves lines, sound or not.
LEMMA EditedIsFile ==
  ASSUME IsFile(file),
         NEW new \in Altered \cup Rehashed \cup Swapped \cup Shortened \cup Truncated
  PROVE  IsFile(new)
<1>0. PICK S : file \in Seq(S)
  BY DEF IsFile, IsSequence
<1>00. Len(file) \in Nat
  BY <1>0
<1>1. ASSUME NEW i \in 1..Len(file), NEW line, IsLine(line), new = [file EXCEPT ![i] = line]
      PROVE  IsFile(new)
  <2>1. new \in Seq(S \cup {line}) /\ Len(new) = Len(file) /\ new[i] = line
        /\ \A j \in 1..Len(file) : j # i => new[j] = file[j]
    BY <1>0, <1>1
  <2> QED
    BY <1>1, <2>1 DEF IsFile, IsSequence
<1>2. CASE new \in Altered
  <2>1. PICK i \in 1..Len(file), b \in Body : new = [file EXCEPT ![i].body = b]
    BY <1>2 DEF Altered
  <2> DEFINE line == [prev |-> file[i].prev, body |-> b, hash |-> file[i].hash]
  <2>2. file[i] = [prev |-> file[i].prev, body |-> file[i].body, hash |-> file[i].hash]
    BY DEF IsFile, IsLine
  <2>3. [[prev |-> file[i].prev, body |-> file[i].body, hash |-> file[i].hash] EXCEPT !.body = b] = line
    OBVIOUS
  <2>4. [file[i] EXCEPT !.body = b] = line
    BY <2>2, <2>3, Zenon
  <2>5. new = [file EXCEPT ![i] = [file[i] EXCEPT !.body = b]]
    BY <2>1
  <2>6. new = [file EXCEPT ![i] = line]
    BY <2>4, <2>5, Zenon
  <2>7. IsLine(line)
    BY DEF IsLine
  <2> HIDE DEF line
  <2> QED
    BY <1>1, <2>6, <2>7
<1>3. CASE new \in Rehashed
  <2>1. PICK i \in 1..Len(file), b \in Body :
          new = [file EXCEPT ![i] = [prev |-> file[i].prev, body |-> b, hash |-> Hash(file[i].prev, b)]]
    BY <1>3 DEF Rehashed
  <2> DEFINE line == [prev |-> file[i].prev, body |-> b, hash |-> Hash(file[i].prev, b)]
  <2>2. IsLine(line) /\ new = [file EXCEPT ![i] = line]
    BY <2>1 DEF IsLine
  <2> HIDE DEF line
  <2> QED
    BY <1>1, <2>2
<1>4. CASE new \in Swapped
  <2>1. PICK i \in 1..(Len(file) - 1) : new = [file EXCEPT ![i] = file[i + 1], ![i + 1] = file[i]]
    BY <1>4 DEF Swapped
  <2>2. i \in 1..Len(file) /\ i + 1 \in 1..Len(file)
    BY <1>00
  <2>3. /\ new \in Seq(S) /\ Len(new) = Len(file) /\ new[i] = file[i + 1] /\ new[i + 1] = file[i]
        /\ \A j \in 1..Len(file) : j # i /\ j # i + 1 => new[j] = file[j]
    BY <1>0, <2>1, <2>2
  <2> QED
    BY <2>2, <2>3 DEF IsFile, IsSequence
<1>5. CASE new \in Shortened
  <2>1. PICK i \in 1..Len(file) : new = RemoveAt(file, i)
    BY <1>5 DEF Shortened
  <2>2. /\ IsSequence(new) /\ Len(new) = Len(file) - 1
        /\ \A j \in 1..Len(new) : new[j] = IF j < i THEN file[j] ELSE file[j + 1]
    BY <2>1, RemoveAtAny DEF IsFile
  <2>3. \A j \in 1..Len(new) : j \in 1..Len(file) /\ j + 1 \in 1..Len(file)
    BY <1>00, <2>2
  <2> QED
    BY <2>2, <2>3 DEF IsFile
<1>6. CASE new \in Truncated
  <2>1. PICK n \in 0..(Len(file) - 1) : new = SubSeq(file, 1, n)
    BY <1>6 DEF Truncated
  <2>2. new \in Seq(S) /\ Len(new) = n /\ \A j \in 1..n : new[j] = file[j] /\ j \in 1..Len(file)
    BY <1>0, <1>00, <2>1
  <2> QED
    BY <2>2 DEF IsFile, IsSequence
<1> QED
  BY <1>2, <1>3, <1>4, <1>5, <1>6

\* An edit is of a whole file, or comes after another.
LEMMA EditStep ==
  ASSUME AuditInv, Edit \/ \E b \in Body : Forge(b)
  PROVE  AuditInv'
<1>1. ~torn /\ ~cut /\ UNCHANGED <<cut, prevHash, up, acked, torn>>
  BY DEF AuditInv, Edit, Forge
<1>2. ASSUME NEW line, IsLine(line), file' = Append(file, line)
      PROVE  IsFile(file')
  BY <1>2, AppendSound DEF AuditInv
<1>3. IsFile(file')
  <2>1. CASE Edit
    BY <2>1, EditedIsFile DEF Edit, AuditInv
  <2>2. ASSUME NEW b \in Body, Forge(b) PROVE IsFile(file')
    <3> DEFINE p == IF file = <<>> THEN GENESIS ELSE Last(file).hash
               line == [prev |-> p, body |-> b, hash |-> Hash(p, b)]
    <3>1. file' = Append(file, line) /\ IsLine(line)
      BY <2>2 DEF Forge, IsLine
    <3> HIDE DEF line
    <3> QED
      BY <1>2, <3>1
  <2> QED
    BY <2>1, <2>2
<1>4. edited' # "no"
  BY DEF Edit, Forge
<1>5. CASE edited = "no"
  <2>1. before' = file /\ edited' \in {"watched", "unwatched"} /\ (edited' = "watched" => up = "up")
    BY <1>5 DEF Edit, Forge
  <2>2. Verify(file) /\ IsFile(file) /\ (up = "up" => prevHash = Tip(file, Len(file)))
    BY <1>1, <1>5 DEF AuditInv, Whole
  <2>3. /\ IsFile(before') /\ Verify(before') /\ edited' # "recorded"
        /\ edited' = "watched" => up' = "up" /\ prevHash' = Tip(before', Len(before'))
    BY <1>1, <2>1, <2>2
  <2> QED
    BY <1>1, <1>3, <1>4, <2>3 DEF AuditInv, Whole, Edited
<1>6. CASE edited # "no"
  <2>1. PICK line : file' = Append(file, line)
    BY <1>6 DEF Edit, Forge
  <2>2. UNCHANGED <<edited, before>>
    BY <1>6 DEF Edit, Forge
  <2>3. Len(file) \in Nat /\ Len(file') = Len(file) + 1 /\ \A i \in 1..Len(file) : file'[i] = file[i]
    BY <2>1, AppendAny DEF AuditInv, IsFile
  <2>4. Marked(file) => Marked(file)'
    BY <2>2, <2>3 DEF Marked, Tip
  <2> QED
    BY <1>1, <1>3, <1>4, <2>2, <2>4 DEF AuditInv, Whole, Edited
<1> QED
  BY <1>5, <1>6

LEMMA AuditInvariant == AuditSpec => []AuditInv
<1>1. AuditInit => AuditInv
  BY EmptyFile, EmptySubsequence DEF AuditInit, AuditInv, Whole, Edited, Tip
<1>2. AuditInv /\ [AuditNext]_auditVars => AuditInv'
  <2> SUFFICES ASSUME AuditInv, [AuditNext]_auditVars PROVE AuditInv'
    OBVIOUS
  <2>1. ASSUME NEW b \in Body, Record(b) \/ RecordCut(b) \/ CrashAfterWrite(b) PROVE AuditInv'
    BY <2>1, RecordStep, CutStep, CrashAfterWriteStep
  <2>2. CASE Crash
    BY <2>2 DEF Crash, Sees, AuditInv, Whole, Edited, Marked, Tip
  <2>3. CASE Restart
    BY <2>3, RestartStep
  <2>4. CASE Edit \/ \E b \in Body : Forge(b)
    BY <2>4, EditStep
  <2>5. CASE UNCHANGED auditVars
    BY <2>5 DEF auditVars, AuditInv, Whole, Edited, Marked, Tip
  <2> QED
    BY <2>1, <2>2, <2>3, <2>4, <2>5 DEF AuditNext
<1> QED
  BY <1>1, <1>2, PTL DEF AuditSpec

\* Without cut writes or edits, a relay that crashes and restarts leaves a chain that
\* verifies and that holds, in order, every entry that AuditLog.record has returned.
THEOREM UnbrokenByCrashes == AuditSpec => []ChainUnbroken
<1>1. AuditInv => ChainUnbroken
  BY DEF AuditInv, ChainUnbroken, Whole
<1> QED
  BY <1>1, AuditInvariant, PTL

\* Whatever writes are cut short and however often the relay restarts, verify_chain
\* accepts no file that lacks an entry AuditLog.record has returned.
THEOREM LossesShow == AuditSpec => []LossIsDetected
<1>1. AuditInv => LossIsDetected
  BY DEF AuditInv, LossIsDetected
<1> QED
  BY <1>1, AuditInvariant, PTL

\* A line that verify_chain finds where it was vouches for all those before it.
THEOREM EarlierLinesKept == AuditSpec => []KeptLinesVouch
<1>1. AuditInv => KeptLinesVouch
  <2> SUFFICES ASSUME AuditInv, Edited, Verify(file), NEW i \in 1..Len(before),
                      NEW j \in 1..Len(file), file[j] = before[i]
               PROVE  j = i /\ \A m \in 1..i : file[m] = before[m]
    BY DEF KeptLinesVouch, Edited
  <2>1. IsFile(before) /\ Verify(before) /\ IsFile(file)
    BY DEF AuditInv
  <2>2. /\ Len(file) \in Nat /\ Len(before) \in Nat /\ i \in 0..Len(before) /\ j \in 0..Len(file)
        /\ i # 0 /\ j # 0
    BY <2>1 DEF IsFile, IsSequence
  <2>3. Tip(file, j) = Tip(before, i)
    BY <2>2 DEF Tip
  <2> QED
    BY <2>1, <2>2, <2>3, TipsDiffer
<1> QED
  BY <1>1, AuditInvariant, PTL

\* The first record that a relay makes of a file edited while it was running makes
\* verify_chain refuse the file, unless all the lines are still there.
THEOREM NextRecordShows == AuditSpec => []RelayVouches
<1>1. AuditInv => RelayVouches
  <2> SUFFICES ASSUME AuditInv, Edited, Verify(file), edited = "recorded"
               PROVE  Len(before) <= Len(file) /\ \A m \in 1..Len(before) : file[m] = before[m]
    BY DEF RelayVouches, Edited
  <2>1. IsFile(before) /\ Verify(before) /\ IsFile(file)
    BY DEF AuditInv
  <2>2. PICK j \in 1..Len(file) : file[j].prev = Tip(before, Len(before))
    BY DEF AuditInv, Marked
  <2>3. /\ Len(file) \in Nat /\ Len(before) \in Nat /\ Len(before) \in 0..Len(before)
        /\ j - 1 \in 0..Len(file)
    BY <2>1 DEF IsFile, IsSequence
  <2>4. Tip(file, j - 1) = Tip(before, Len(before))
    BY <2>2, VerifySound DEF Sound
  <2>5. j - 1 = Len(before) /\ \A m \in 1..(j - 1) : file[m] = before[m]
    BY <2>1, <2>3, <2>4, TipsDiffer
  <2> QED
    BY <2>3, <2>5
<1> QED
  BY <1>1, AuditInvariant, PTL

-----------------------------------------------------------------------------
(* The command policy: how far back the timestamps of a code reach         *)

USE PolicyAssumption

Past(s) == \A i \in 1..Len(s) : s[i] <= now
Ordered(s) == \A i, j \in 1..Len(s) : i <= j => s[i] <= s[j]

\* The timestamps are the end of the history, and what was dropped is out of the window.
EndOf(s, h, gone) == /\ gone \in Nat /\ Len(h) = gone + Len(s)
                     /\ \A i \in 1..Len(s) : s[i] = h[gone + i]
Old(h, gone) == \A i \in 1..gone : OutOfWindow(h[i])
Recent(s) == \A i \in 1..Len(s) : ~OutOfWindow(s[i])
Remembered(k) == \E gone \in Nat : EndOf(stamps[k], log[k], gone) /\ Old(log[k], gone)

\* Of any RateLimit + 1 commands that follow one another, the last is a window's length
\* after the first.
Spaced(h) == \A i \in 1..Len(h) : i + RateLimit <= Len(h) => h[i + RateLimit] - h[i] >= Window

\* After a refusal for the rate, the timestamps left are as many as the limit, and recent.
Full(k) == last[k] = "rate" =>
             Len(stamps[k]) >= RateLimit /\ Recent(stamps[k])

RateInv == /\ TypeOK
           /\ \A k \in Code : /\ Ordered(log[k]) /\ Past(log[k]) /\ Spaced(log[k])
                              /\ Remembered(k) /\ Full(k)

Below == {p \in Nat \X Nat : p[1] < p[2]}

LEMMA LeastElement ==
  ASSUME NEW S \in SUBSET Nat, S # {}
  PROVE  \E i \in S : \A j \in S : i <= j
<1>1. IsWellFoundedOn(Below, Nat)
  BY NatLessThanWellFounded DEF OpToRel, Below
<1>2. PICK i \in S : \A j \in S : ~(<<j, i>> \in Below)
  BY <1>1, WFMin
<1>3. ASSUME NEW j \in S PROVE i <= j
  <2>1. <<j, i>> \in Nat \X Nat /\ <<j, i>> \notin Below
    BY <1>2
  <2>2. ~(j < i)
    BY <2>1 DEF Below
  <2> QED
    BY <2>2
<1> QED
  BY <1>3

\* What is dropped is a prefix, all of it out of the window; what is kept is in it, if
\* the timestamps are in order.
LEMMA PrunedIsSuffix ==
  ASSUME NEW s \in Seq(Nat), now \in Nat
  PROVE  \E d \in 0..Len(s) : /\ Pruned(s) = SubSeq(s, d + 1, Len(s))
                              /\ \A i \in 1..d : OutOfWindow(s[i])
                              /\ d < Len(s) => ~OutOfWindow(s[d + 1])
<1> DEFINE kept == {i \in 1..Len(s) : ~OutOfWindow(s[i])}
<1>1. CASE kept = {}
  <2>1. Pruned(s) = << >> /\ \A i \in 1..Len(s) : OutOfWindow(s[i])
    BY <1>1 DEF Pruned
  <2>2. SubSeq(s, Len(s) + 1, Len(s)) = << >>
    OBVIOUS
  <2> QED
    BY <2>1, <2>2
<1>2. CASE kept # {}
  <2>1. kept \in SUBSET Nat
    OBVIOUS
  <2>2. \E i \in kept : \A j \in kept : i <= j
    BY <1>2, <2>1, LeastElement
  <2> DEFINE first == CHOOSE i \in kept : \A j \in kept : i <= j
  <2>3. first \in kept /\ \A j \in kept : first <= j
    BY <2>2
  <2>4. Pruned(s) = SubSeq(s, first, Len(s))
    BY <1>2 DEF Pruned
  <2> HIDE DEF first
  <2>5. \A i \in 1..(first - 1) : OutOfWindow(s[i])
    <3> SUFFICES ASSUME NEW i \in 1..(first - 1), ~OutOfWindow(s[i]) PROVE FALSE
      OBVIOUS
    <3>1. i \in kept
      BY <2>3
    <3> QED
      BY <3>1, <2>3
  <2>6. first - 1 \in 0..Len(s) /\ first = (first - 1) + 1 /\ ~OutOfWindow(s[first])
    BY <2>3
  <2> HIDE DEF kept
  <2> QED
    BY <2>4, <2>5, <2>6
<1> QED
  BY <1>1, <1>2

\* The end of the end of a sequence.
LEMMA Suffix ==
  ASSUME NEW s \in Seq(Nat), NEW d \in 0..Len(s)
  PROVE  /\ SubSeq(s, d + 1, Len(s)) \in Seq(Nat)
         /\ EndOf(SubSeq(s, d + 1, Len(s)), s, d)
  BY DEF EndOf

LEMMA EndOfEnd ==
  ASSUME NEW h \in Seq(Nat), NEW s \in Seq(Nat), NEW q \in Seq(Nat), NEW e, NEW d,
         EndOf(s, h, e), EndOf(q, s, d)
  PROVE  EndOf(q, h, e + d)
<1>1. /\ e \in Nat /\ Len(h) = e + Len(s) /\ d \in Nat /\ Len(s) = d + Len(q)
      /\ Len(h) \in Nat /\ Len(s) \in Nat /\ Len(q) \in Nat
  BY DEF EndOf
<1>2. e + d \in Nat /\ Len(h) = e + d + Len(q)
  BY <1>1
<1>3. ASSUME NEW i \in 1..Len(q) PROVE q[i] = h[e + d + i]
  <2>1. d + i \in 1..Len(s) /\ e + (d + i) = e + d + i
    BY <1>1
  <2>2. q[i] = s[d + i] /\ s[d + i] = h[e + (d + i)]
    BY <2>1 DEF EndOf
  <2> QED
    BY <2>1, <2>2
<1> QED
  BY <1>2, <1>3 DEF EndOf

LEMMA OldAndOld ==
  ASSUME NEW h \in Seq(Nat), NEW s \in Seq(Nat), NEW e, NEW d \in 0..Len(s),
         EndOf(s, h, e), Old(h, e), Old(s, d)
  PROVE  Old(h, e + d)
<1>1. e \in Nat /\ Len(h) = e + Len(s) /\ d \in Nat /\ Len(s) \in Nat
  BY DEF EndOf
<1> SUFFICES ASSUME NEW i \in 1..(e + d) PROVE OutOfWindow(h[i])
  BY DEF Old
<1>2. CASE i \in 1..e
  BY <1>2 DEF Old
<1>3. CASE i \notin 1..e
  <2>1. i - e \in 1..d /\ i - e \in 1..Len(s) /\ e + (i - e) = i
    BY <1>1, <1>3
  <2>2. s[i - e] = h[i]
    BY <2>1 DEF EndOf
  <2>3. OutOfWindow(s[i - e])
    BY <2>1 DEF Old
  <2> QED
    BY <2>2, <2>3
<1> QED
  BY <1>2, <1>3

LEMMA LaterIsRecent ==
  ASSUME NEW a \in Nat, NEW b \in Nat, a <= b, now \in Nat, ~OutOfWindow(a)
  PROVE  ~OutOfWindow(b)
  BY DEF OutOfWindow

\* In an ordered history all is recent that follows something recent.
LEMMA RecentEnd ==
  ASSUME NEW h \in Seq(Nat), NEW q \in Seq(Nat), NEW gone, now \in Nat,
         EndOf(q, h, gone), Ordered(h), Len(q) > 0 => ~OutOfWindow(h[gone + 1])
  PROVE  Recent(q)
<1> SUFFICES ASSUME NEW i \in 1..Len(q) PROVE ~OutOfWindow(q[i])
  BY DEF Recent
<1>1. gone \in Nat /\ Len(h) = gone + Len(q) /\ q[i] = h[gone + i] /\ Len(q) \in Nat
  BY DEF EndOf
<1>2. gone + 1 \in 1..Len(h) /\ gone + i \in 1..Len(h) /\ gone + 1 <= gone + i /\ Len(q) > 0
  BY <1>1
<1>3. h[gone + 1] <= h[gone + i] /\ h[gone + 1] \in Nat /\ h[gone + i] \in Nat
  BY <1>2 DEF Ordered
<1> QED
  BY <1>1, <1>2, <1>3, LaterIsRecent

\* What a check leaves of the timestamps is the end of the history that is in the
\* window, and all of it.
LEMMA PrunedIsWindow ==
  ASSUME TypeOK, NEW k \in Code, Ordered(log[k]), Remembered(k)
  PROVE  /\ Pruned(stamps[k]) \in Seq(Nat)
         /\ \E gone \in Nat : EndOf(Pruned(stamps[k]), log[k], gone) /\ Old(log[k], gone)
         /\ Recent(Pruned(stamps[k]))
<1>1. stamps[k] \in Seq(Nat) /\ log[k] \in Seq(Nat) /\ now \in Nat
  BY DEF TypeOK
<1>2. PICK d \in 0..Len(stamps[k]) :
        /\ Pruned(stamps[k]) = SubSeq(stamps[k], d + 1, Len(stamps[k]))
        /\ \A i \in 1..d : OutOfWindow(stamps[k][i])
        /\ d < Len(stamps[k]) => ~OutOfWindow(stamps[k][d + 1])
  BY <1>1, PrunedIsSuffix
<1>3. Pruned(stamps[k]) \in Seq(Nat) /\ EndOf(Pruned(stamps[k]), stamps[k], d) /\ Old(stamps[k], d)
  BY <1>1, <1>2, Suffix DEF Old
<1>4. PICK e \in Nat : EndOf(stamps[k], log[k], e) /\ Old(log[k], e)
  BY DEF Remembered
<1>5. EndOf(Pruned(stamps[k]), log[k], e + d) /\ Old(log[k], e + d) /\ e + d \in Nat
  <2>1. EndOf(Pruned(stamps[k]), log[k], e + d)
    BY <1>1, <1>3, <1>4, EndOfEnd
  <2>2. Old(log[k], e + d)
    BY <1>1, <1>3, <1>4, OldAndOld
  <2> QED
    BY <2>1, <2>2 DEF EndOf
<1>6. ASSUME Len(Pruned(stamps[k])) > 0 PROVE ~OutOfWindow(log[k][e + d + 1])
  <2>1. Len(stamps[k]) = d + Len(Pruned(stamps[k])) /\ Len(Pruned(stamps[k])) \in Nat
    BY <1>3 DEF EndOf
  <2>2. d < Len(stamps[k]) /\ d + 1 \in 1..Len(stamps[k]) /\ e + (d + 1) = e + d + 1
    BY <2>1, <1>6, <1>4
  <2>3. stamps[k][d + 1] = log[k][e + (d + 1)]
    BY <2>2, <1>4 DEF EndOf
  <2> QED
    BY <1>2, <2>2, <2>3
<1>7. Recent(Pruned(stamps[k]))
  BY <1>1, <1>3, <1>5, <1>6, RecentEnd
<1> QED
  BY <1>3, <1>5, <1>7

LEMMA Appended ==
  ASSUME NEW s \in Seq(Nat), NEW x \in Nat
  PROVE  /\ Append(s, x) \in Seq(Nat) /\ Len(s) \in Nat /\ Len(Append(s, x)) = Len(s) + 1
         /\ Append(s, x)[Len(s) + 1] = x
         /\ \A i \in 1..Len(s) : Append(s, x)[i] = s[i] /\ s[i] \in Nat
  OBVIOUS

\* A command allowed now.
LEMMA OneMore ==
  ASSUME NEW h \in Seq(Nat), NEW q \in Seq(Nat), NEW gone, now \in Nat,
         EndOf(q, h, gone), Old(h, gone), Ordered(h), Past(h), Spaced(h), Len(q) < RateLimit
  PROVE  /\ Append(h, now) \in Seq(Nat) /\ Append(q, now) \in Seq(Nat)
         /\ Ordered(Append(h, now)) /\ Past(Append(h, now)) /\ Spaced(Append(h, now))
         /\ EndOf(Append(q, now), Append(h, now), gone) /\ Old(Append(h, now), gone)
<1> DEFINE n == Len(h)
           g == Append(h, now)
           p == Append(q, now)
<1>1. gone \in Nat /\ n = gone + Len(q) /\ \A i \in 1..Len(q) : q[i] = h[gone + i]
  BY DEF EndOf
<1>2. /\ g \in Seq(Nat) /\ n \in Nat /\ Len(g) = n + 1 /\ g[n + 1] = now
      /\ \A i \in 1..n : g[i] = h[i] /\ h[i] \in Nat
  BY Appended
<1>3. /\ p \in Seq(Nat) /\ Len(q) \in Nat /\ Len(p) = Len(q) + 1 /\ p[Len(q) + 1] = now
      /\ \A i \in 1..Len(q) : p[i] = q[i]
  BY Appended
<1> HIDE DEF n, g, p
<1>4. /\ gone \in Nat /\ n = gone + Len(q) /\ n \in Nat /\ Len(q) \in Nat
      /\ g \in Seq(Nat) /\ Len(g) = n + 1 /\ g[n + 1] = now /\ \A i \in 1..n : g[i] = h[i]
      /\ \A i \in 1..n : h[i] \in Nat
  BY <1>1, <1>2, <1>3
<1>5. EndOf(p, g, gone)
  <2>1. ASSUME NEW i \in 1..(Len(q) + 1) PROVE p[i] = g[gone + i]
    <3>1. CASE i \in 1..Len(q)
      <4>1. gone + i \in 1..n
        BY <1>4, <3>1
      <4> QED
        BY <1>1, <1>4, <1>3, <3>1, <4>1
    <3>2. CASE i = Len(q) + 1
      <4>1. gone + i = n + 1
        BY <1>4, <3>2
      <4> QED
        BY <1>4, <1>3, <3>2, <4>1
    <3> QED
      BY <1>4, <3>1, <3>2
  <2> QED
    BY <1>4, <1>3, <2>1 DEF EndOf
<1>6. Past(g)
  <2> SUFFICES ASSUME NEW i \in 1..Len(g) PROVE g[i] <= now
    BY DEF Past
  <2>1. CASE i \in 1..n
    BY <1>4, <2>1 DEF Past, n
  <2>2. CASE i = n + 1
    BY <1>4, <2>2
  <2>3. i \in 1..n \/ i = n + 1
    <3>1. n \in Nat /\ Len(g) = n + 1
      BY <1>4
    <3> QED
      BY <3>1
  <2> QED
    BY <2>1, <2>2, <2>3
<1>7. Ordered(g)
  <2> SUFFICES ASSUME NEW i \in 1..Len(g), NEW j \in 1..Len(g), i <= j PROVE g[i] <= g[j]
    BY DEF Ordered
  <2>1. CASE j \in 1..n
    <3>1. i \in 1..n
      BY <1>4, <2>1
    <3>2. h[i] <= h[j]
      BY <2>1, <3>1 DEF Ordered, n
    <3> QED
      BY <1>4, <2>1, <3>1, <3>2
  <2>2. CASE j = n + 1
    BY <1>4, <1>6, <2>2 DEF Past
  <2>3. j \in 1..n \/ j = n + 1
    BY <1>4
  <2> QED
    BY <2>1, <2>2, <2>3
<1>8. Spaced(g)
  <2> SUFFICES ASSUME NEW i \in 1..Len(g), i + RateLimit <= Len(g) PROVE g[i + RateLimit] - g[i] >= Window
    BY DEF Spaced
  <2>1. CASE i + RateLimit <= n
    <3>1. i \in 1..n /\ i + RateLimit \in 1..n
      BY <1>4, <2>1
    <3>2. h[i + RateLimit] - h[i] >= Window
      BY <2>1, <3>1 DEF Spaced, n
    <3> QED
      BY <1>4, <3>1, <3>2
  <2>2. CASE i + RateLimit = n + 1
    <3>1. i \in 1..gone /\ i \in 1..n
      BY <1>4, <2>2
    <3>2. now - h[i] >= Window
      BY <3>1 DEF Old, OutOfWindow
    <3> QED
      BY <1>4, <2>2, <3>1, <3>2
  <2>3. i + RateLimit <= n \/ i + RateLimit = n + 1
    <3>1. n \in Nat /\ Len(g) = n + 1
      BY <1>4
    <3> QED
      BY <3>1
  <2> QED
    BY <2>1, <2>2, <2>3
<1>9. Old(g, gone)
  <2>1. \A i \in 1..gone : g[i] = h[i]
    BY <1>4
  <2> QED
    BY <2>1 DEF Old
<1> QED
  BY <1>4, <1>5, <1>6, <1>7, <1>8, <1>9, <1>3 DEF g, p

-----------------------------------------------------------------------------
(* The invariant of the rate limit.                                        *)

\* A check concerns one code.
LEMMA OtherCode ==
  ASSUME NEW k \in Code, RateInv, now' = now, stamps'[k] = stamps[k], log'[k] = log[k], last'[k] = last[k]
  PROVE  (Ordered(log[k]) /\ Past(log[k]) /\ Spaced(log[k]) /\ Remembered(k) /\ Full(k))'
<1>1. (Ordered(log[k]) /\ Past(log[k]) /\ Spaced(log[k]))'
  BY DEF RateInv, Ordered, Past, Spaced
<1>2. Remembered(k)'
  <2>1. PICK gone \in Nat : EndOf(stamps[k], log[k], gone) /\ Old(log[k], gone)
    BY DEF RateInv, Remembered
  <2>2. EndOf(stamps'[k], log'[k], gone)
    BY <2>1
  <2>3. Old(log[k], gone)'
    BY <2>1 DEF Old, OutOfWindow
  <2> QED
    BY <2>2, <2>3 DEF Remembered, EndOf
<1>3. Full(k)'
  <2>1. Full(k)
    BY DEF RateInv
  <2> QED
    BY <2>1 DEF Full, Recent, OutOfWindow
<1> QED
  BY <1>1, <1>2, <1>3

LEMMA RateInvariant == Spec => []RateInv
<1>1. Init => RateInv
  <2> SUFFICES ASSUME Init PROVE RateInv
    OBVIOUS
  <2>1. TypeOK
    BY DEF Init, TypeOK
  <2>2. \A k \in Code : log[k] = << >> /\ stamps[k] = << >> /\ last[k] = "none"
    BY DEF Init
  <2>3. ASSUME NEW k \in Code
        PROVE  Ordered(log[k]) /\ Past(log[k]) /\ Spaced(log[k]) /\ Remembered(k) /\ Full(k)
    <3>1. Ordered(log[k]) /\ Past(log[k]) /\ Spaced(log[k]) /\ Full(k)
      BY <2>2 DEF Ordered, Past, Spaced, Full
    <3>2. EndOf(stamps[k], log[k], 0) /\ Old(log[k], 0)
      BY <2>2 DEF EndOf, Old
    <3> QED
      BY <3>1, <3>2 DEF Remembered
  <2> QED
    BY <2>1, <2>3 DEF RateInv
<1>2. RateInv /\ [Next]_vars => RateInv'
  <2> SUFFICES ASSUME RateInv, [Next]_vars PROVE RateInv'
    OBVIOUS
  <2> USE DEF RateInv
  <2>1. CASE UNCHANGED vars
    BY <2>1 DEF vars, TypeOK, Ordered, Past, Spaced, Remembered, Full, EndOf, Old, Recent, OutOfWindow
  <2>2. ASSUME NEW k \in Code, RefuseSubject(k) \/ RefuseQuota(k) PROVE RateInv'
    <3>1. UNCHANGED <<now, counts, stamps, log>>
      BY <2>2 DEF RefuseSubject, RefuseQuota
    <3>2. \/ last' = [last EXCEPT ![k] = "subject"]
          \/ last' = [last EXCEPT ![k] = "quota"]
      BY <2>2 DEF RefuseSubject, RefuseQuota, Decide
    <3>3. TypeOK' /\ \A j \in Code : last'[j] = "rate" => last[j] = "rate"
      BY <3>1, <3>2 DEF TypeOK
    <3>4. ASSUME NEW j \in Code
          PROVE  (Ordered(log[j]) /\ Past(log[j]) /\ Spaced(log[j]) /\ Remembered(j) /\ Full(j))'
      BY <3>1, <3>3 DEF Ordered, Past, Spaced, Remembered, Full, EndOf, Old, Recent, OutOfWindow
    <3> QED
      BY <3>3, <3>4
  <2>3. ASSUME NEW k \in Code, RefuseRate(k) PROVE RateInv'
    <3>1. /\ UNCHANGED <<now, counts, log>> /\ Len(Pruned(stamps[k])) >= RateLimit
          /\ stamps' = [stamps EXCEPT ![k] = Pruned(stamps[k])]
          /\ last' = [last EXCEPT ![k] = "rate"]
      BY <2>3 DEF RefuseRate, Decide
    <3>2. PICK gone \in Nat : EndOf(Pruned(stamps[k]), log[k], gone) /\ Old(log[k], gone)
      BY PrunedIsWindow
    <3>3. Pruned(stamps[k]) \in Seq(Nat) /\ Recent(Pruned(stamps[k]))
      BY PrunedIsWindow
    <3> HIDE DEF Pruned
    <3>4. TypeOK' /\ stamps'[k] = Pruned(stamps[k])
      BY <3>1, <3>3 DEF TypeOK
    <3>5. ASSUME NEW j \in Code PROVE (Ordered(log[j]) /\ Past(log[j]) /\ Spaced(log[j]))'
      BY <3>1 DEF Ordered, Past, Spaced
    <3>6. ASSUME NEW j \in Code, j # k PROVE (Remembered(j) /\ Full(j))'
      <4>1. stamps'[j] = stamps[j] /\ log'[j] = log[j] /\ last'[j] = last[j]
        BY <3>1, <3>6 DEF TypeOK
      <4> QED
        BY <3>1, <4>1, OtherCode
    <3>7. Remembered(k)'
      <4>1. EndOf(stamps'[k], log'[k], gone) /\ Old(log[k], gone)'
        BY <3>1, <3>2, <3>4 DEF Old, OutOfWindow
      <4> QED
        BY <4>1 DEF Remembered, EndOf
    <3>8. Full(k)'
      <4>1. Len(stamps'[k]) >= RateLimit /\ Recent(stamps[k])'
        BY <3>1, <3>3, <3>4 DEF Recent, OutOfWindow
      <4> QED
        BY <4>1 DEF Full
    <3> QED
      BY <3>4, <3>5, <3>6, <3>7, <3>8
  <2>4. ASSUME NEW k \in Code, Allow(k) PROVE RateInv'
    <3> DEFINE q == Pruned(stamps[k])
    <3>1. /\ UNCHANGED now /\ Len(q) < RateLimit
          /\ stamps' = [stamps EXCEPT ![k] = Append(q, now)]
          /\ counts' = [counts EXCEPT ![k] = @ + 1]
          /\ log' = [log EXCEPT ![k] = Append(@, now)]
          /\ last' = [last EXCEPT ![k] = "allowed"]
      BY <2>4 DEF Allow, Decide
    <3>2. PICK gone \in Nat : EndOf(q, log[k], gone) /\ Old(log[k], gone)
      BY PrunedIsWindow
    <3>3. q \in Seq(Nat) /\ log[k] \in Seq(Nat) /\ now \in Nat
      BY PrunedIsWindow DEF TypeOK
    <3> HIDE DEF q
    <3> DEFINE h == Append(log[k], now)
    <3>4. /\ h \in Seq(Nat) /\ Append(q, now) \in Seq(Nat)
          /\ Ordered(h) /\ Past(h) /\ Spaced(h)
          /\ EndOf(Append(q, now), h, gone) /\ Old(h, gone)
      BY <3>1, <3>2, <3>3, OneMore
    <3> HIDE DEF h
    <3>5. log' = [log EXCEPT ![k] = h]
      BY <3>1 DEF h
    <3>6. TypeOK' /\ log'[k] = h /\ stamps'[k] = Append(q, now) /\ last'[k] = "allowed"
      BY <3>1, <3>4, <3>5 DEF TypeOK
    <3>7. ASSUME NEW j \in Code, j # k
          PROVE  (Ordered(log[j]) /\ Past(log[j]) /\ Spaced(log[j]) /\ Remembered(j) /\ Full(j))'
      <4>1. stamps'[j] = stamps[j] /\ log'[j] = log[j] /\ last'[j] = last[j]
        BY <3>1, <3>5, <3>7 DEF TypeOK
      <4> QED
        BY <3>1, <4>1, OtherCode
    <3>8. (Ordered(log[k]) /\ Past(log[k]) /\ Spaced(log[k]) /\ Full(k))'
      BY <3>1, <3>4, <3>6 DEF Ordered, Past, Spaced, Full
    <3>9. Remembered(k)'
      <4>1. EndOf(stamps'[k], log'[k], gone) /\ Old(log[k], gone)'
        BY <3>1, <3>4, <3>6 DEF Old, OutOfWindow
      <4> QED
        BY <4>1 DEF Remembered, EndOf
    <3> QED
      BY <3>6, <3>7, <3>8, <3>9
  <2>5. CASE Tick
    <3>1. now' = now + 1 /\ last' = [k \in Code |-> "none"] /\ UNCHANGED <<counts, stamps, log>>
      BY <2>5 DEF Tick
    <3>2. TypeOK'
      BY <3>1 DEF TypeOK
    <3>3. ASSUME NEW k \in Code
          PROVE  (Ordered(log[k]) /\ Past(log[k]) /\ Spaced(log[k]) /\ Remembered(k) /\ Full(k))'
      <4>1. PICK gone \in Nat : EndOf(stamps[k], log[k], gone) /\ Old(log[k], gone)
        BY DEF Remembered
      <4>2. log[k] \in Seq(Nat) /\ stamps[k] \in Seq(Nat) /\ now \in Nat
        BY DEF TypeOK
      <4>3. gone <= Len(log[k])
        BY <4>1, <4>2 DEF EndOf
      <4>4. Old(log[k], gone)' /\ Past(log[k])'
        <5>1. \A i \in 1..gone : now' - log[k][i] >= Window
          BY <3>1, <4>1, <4>2, <4>3 DEF Old, OutOfWindow
        <5>2. \A i \in 1..Len(log[k]) : log[k][i] <= now'
          BY <3>1, <4>2 DEF Past
        <5> QED
          BY <3>1, <5>1, <5>2 DEF Old, Past, OutOfWindow
      <4>5. EndOf(stamps[k], log[k], gone)' /\ Ordered(log[k])' /\ Spaced(log[k])'
        BY <3>1, <4>1 DEF EndOf, Ordered, Spaced
      <4>6. Full(k)'
        BY <3>1 DEF Full
      <4> QED
        BY <4>4, <4>5, <4>6 DEF Remembered
    <3> QED
      BY <3>2, <3>3
  <2> QED
    BY <2>1, <2>2, <2>3, <2>4, <2>5 DEF Next
<1> QED
  BY <1>1, <1>2, PTL DEF Spec

-----------------------------------------------------------------------------
(* What a client may rely on, and its operator.                            *)

LEMMA IntervalSize ==
  ASSUME NEW a \in Nat, NEW b \in Int, NEW n \in Nat, b = a + n - 1
  PROVE  IsFiniteSet(a..b) /\ Cardinality(a..b) = n
<1>1. IsFiniteSet(a..b) /\ Cardinality(a..b) = IF a > b THEN 0 ELSE b - a + 1
  BY FS_Interval
<1>2. CASE a > b
  BY <1>1, <1>2
<1>3. CASE ~(a > b)
  BY <1>1, <1>3
<1> QED
  BY <1>2, <1>3

\* No window, wherever it begins, holds more allowed commands than the limit, although
\* each check forgets what it finds out of its own window (command_policy.py:155).
THEOREM WindowsAreBounded == Spec => []RateRespected
<1>1. RateInv => RateRespected
  <2> SUFFICES ASSUME RateInv, NEW k \in Code, NEW t \in 0..MaxTime
               PROVE  Cardinality(InWindow(k, t)) <= RateLimit
    BY DEF RateRespected
  <2> DEFINE h == log[k]
  <2>1. h \in Seq(Nat) /\ Ordered(h) /\ Spaced(h) /\ t \in Nat
    BY DEF RateInv, TypeOK
  <2>2. InWindow(k, t) = {i \in 1..Len(h) : t - Window < h[i] /\ h[i] <= t}
    BY DEF InWindow
  <2> HIDE DEF h
  <2>3. CASE InWindow(k, t) = {}
    BY <2>3, FS_EmptySet
  <2>4. CASE InWindow(k, t) # {}
    <3>1. InWindow(k, t) \in SUBSET Nat
      BY <2>2
    <3>2. PICK a \in InWindow(k, t) : \A i \in InWindow(k, t) : a <= i
      BY <3>1, <2>4, LeastElement
    <3>3. a \in 1..Len(h) /\ h[a] \in Nat /\ t - Window < h[a]
      BY <2>1, <2>2
    <3>4. ASSUME NEW i \in InWindow(k, t) PROVE i \in a..(a + RateLimit - 1)
      <4>1. i \in 1..Len(h) /\ h[i] \in Nat /\ h[i] <= t /\ a <= i
        BY <2>1, <2>2, <3>2
      <4>2. ASSUME a + RateLimit <= i PROVE FALSE
        <5>1. a + RateLimit \in 1..Len(h) /\ a + RateLimit <= Len(h)
          BY <3>3, <4>1, <4>2
        <5>2. h[a + RateLimit] - h[a] >= Window
          BY <2>1, <3>3, <5>1 DEF Spaced
        <5>3. h[a + RateLimit] <= h[i] /\ h[a + RateLimit] \in Nat
          BY <2>1, <4>1, <4>2, <5>1 DEF Ordered
        <5> QED
          BY <2>1, <3>3, <4>1, <5>2, <5>3
      <4> QED
        BY <3>3, <4>1, <4>2
    <3> DEFINE b == a + RateLimit - 1
    <3>5. b \in Int /\ a \in Nat /\ RateLimit \in Nat /\ b = a + RateLimit - 1
      BY <3>3
    <3>6. InWindow(k, t) \in SUBSET (a..b)
      BY <3>4
    <3> HIDE DEF b
    <3>7. IsFiniteSet(a..b) /\ Cardinality(a..b) = RateLimit
      BY <3>5, IntervalSize
    <3> QED
      BY <3>6, <3>7, FS_Subset
  <2> QED
    BY <2>3, <2>4
<1> QED
  BY <1>1, RateInvariant, PTL

\* A command is refused for its rate only when the window that ends now is full.
THEOREM RefusalsAreJustified == Spec => []RateRefusalJustified
<1>1. RateInv => RateRefusalJustified
  <2> SUFFICES ASSUME RateInv, NEW k \in Code, last[k] = "rate"
               PROVE  Cardinality(InWindow(k, now)) >= RateLimit
    BY DEF RateRefusalJustified
  <2> DEFINE h == log[k]
             s == stamps[k]
  <2>1. h \in Seq(Nat) /\ s \in Seq(Nat) /\ now \in Nat /\ Past(h) /\ Len(s) >= RateLimit /\ Recent(s)
    BY DEF RateInv, TypeOK, Full
  <2>2. InWindow(k, now) = {i \in 1..Len(h) : now - Window < h[i] /\ h[i] <= now}
    BY DEF InWindow
  <2>3. PICK gone \in Nat : EndOf(s, h, gone)
    BY DEF RateInv, Remembered
  <2> HIDE DEF h, s
  <2>4. Len(h) = gone + Len(s) /\ Len(s) \in Nat
    BY <2>1, <2>3 DEF EndOf
  <2>5. ASSUME NEW i \in (gone + 1)..Len(h) PROVE i \in InWindow(k, now)
    <3>1. i - gone \in 1..Len(s) /\ gone + (i - gone) = i /\ i \in 1..Len(h)
      BY <2>4
    <3>2. s[i - gone] = h[i]
      BY <3>1, <2>3 DEF EndOf
    <3>3. ~(now - h[i] >= Window) /\ h[i] <= now /\ h[i] \in Nat
      BY <2>1, <3>1, <3>2 DEF Recent, Past, OutOfWindow
    <3> QED
      BY <2>1, <2>2, <3>1, <3>3
  <2>6. IsFiniteSet((gone + 1)..Len(h)) /\ Cardinality((gone + 1)..Len(h)) = Len(s)
    <3>1. gone + 1 \in Nat /\ Len(h) \in Int /\ Len(h) = (gone + 1) + Len(s) - 1
      BY <2>4
    <3> QED
      BY <3>1, <2>4, IntervalSize
  <2>7. IsFiniteSet(InWindow(k, now)) /\ Cardinality(InWindow(k, now)) \in Nat
    <3>1. InWindow(k, now) \in SUBSET (1..Len(h)) /\ IsFiniteSet(1..Len(h))
      BY <2>2, <2>4, FS_Interval
    <3> QED
      BY <3>1, FS_Subset, FS_CardinalityType
  <2>8. Len(s) <= Cardinality(InWindow(k, now))
    BY <2>5, <2>6, <2>7, FS_Subset
  <2> QED
    BY <2>1, <2>4, <2>7, <2>8
<1> QED
  BY <1>1, RateInvariant, PTL

\* The quota is spent by the commands allowed, and by nothing else.
THEOREM QuotaIsExact == Spec => []QuotaCountsAllowed
<1>1. Init => QuotaCountsAllowed
  BY DEF Init, QuotaCountsAllowed
<1>2. RateInv /\ QuotaCountsAllowed /\ [Next]_vars => QuotaCountsAllowed'
  <2> SUFFICES ASSUME RateInv, QuotaCountsAllowed, [Next]_vars PROVE QuotaCountsAllowed'
    OBVIOUS
  <2>1. CASE UNCHANGED <<counts, log>>
    BY <2>1 DEF QuotaCountsAllowed
  <2>2. ASSUME NEW k \in Code, Allow(k) PROVE QuotaCountsAllowed'
    <3>1. /\ counts' = [counts EXCEPT ![k] = @ + 1] /\ log' = [log EXCEPT ![k] = Append(@, now)]
          /\ ~(counts[k] >= MaxCommands)
      BY <2>2 DEF Allow, QuotaReached
    <3>2. log[k] \in Seq(Nat) /\ now \in Nat /\ counts[k] \in Nat
      BY DEF RateInv, TypeOK
    <3>3. counts'[k] = counts[k] + 1 /\ Len(log'[k]) = Len(log[k]) + 1
      BY <3>1, <3>2, Appended DEF RateInv, TypeOK
    <3>4. \A j \in Code : j # k => counts'[j] = counts[j] /\ log'[j] = log[j]
      BY <3>1 DEF RateInv, TypeOK
    <3>5. counts'[k] = Len(log'[k]) /\ counts'[k] <= MaxCommands
      BY <3>1, <3>2, <3>3 DEF QuotaCountsAllowed
    <3> QED
      BY <3>4, <3>5 DEF QuotaCountsAllowed
  <2> QED
    BY <2>1, <2>2 DEF Next, RefuseSubject, RefuseQuota, RefuseRate, Tick, vars
<1> QED
  BY <1>1, <1>2, RateInvariant, PTL DEF Spec
=============================================================================
