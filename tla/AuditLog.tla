------------------------------ MODULE AuditLog ------------------------------
(***************************************************************************)
(* AuditLog and verify_chain of relay/audit.py: a JSONL file in which each *)
(* entry carries the hash of the one before.  SHA-256 is modelled as free  *)
(* of collisions: the hash of an entry is the pair of what it covers.      *)
(* A write may be cut short (full disk, crash): the text after the last    *)
(* newline is then a fragment, and the next append continues that line.  A *)
(* fragment that ends inside a multi-byte character is not even text (the  *)
(* entries are written in UTF-8, with accents).                            *)
(***************************************************************************)
EXTENDS Naturals, SequencesExt, FiniteSetsExt

CONSTANTS Body,     \* event contents
          MaxLines  \* bound on the file

ASSUME AuditAssumption == MaxLines \in Nat

VARIABLES file,      \* the lines of the file, an unterminated one included
          cut,       \* the last line has no newline
          prevHash,  \* _prev_hash
          up,        \* the process: "up", "down", or "refused" (its start raised)
          acked,     \* history: the entries that record has returned, in order
          torn,      \* history: some write was cut short
          edited,    \* history: "no", or who saw the file edited from outside: a
            \* process that still runs and has recorded nothing since ("watched"),
            \* one that has ("recorded"), or none ("unwatched")
          before     \* history: the file as it was before that

auditVars == <<file, cut, prevHash, up, acked, torn, edited, before>>
ghosts == <<torn, edited, before>>

GENESIS == << >>
Junk(why) == [prev |-> <<why>>, body |-> why, hash |-> <<why>>]
UNREADABLE == Junk("not JSON")
UNDECODABLE == Junk("not UTF-8")

Hash(prev, body) == <<prev, body>>
Entry(body) == [prev |-> prevHash, body |-> body, hash |-> Hash(prevHash, body)]
Readable(line) == line \notin {UNREADABLE, UNDECODABLE}
Decodable == \A i \in 1..Len(file) : file[i] # UNDECODABLE

AuditInit == /\ file = << >> /\ cut = FALSE
             /\ prevHash = GENESIS /\ up = "up"
             /\ acked = << >>
             /\ torn = FALSE /\ edited = "no" /\ before = << >>

\* A write that continues an unterminated line makes one line of the two.
Joined(line) == IF UNDECODABLE \in {Last(file), line} THEN UNDECODABLE ELSE UNREADABLE
Written(line) == IF cut THEN Append(Front(file), Joined(line)) ELSE Append(file, line)

\* history: the process adds a line, or is no longer there, after the edit it saw.
Sees(what) == edited' = IF edited = "watched" THEN what ELSE edited

\* Faulty variant, which the properties must reject: the previous hash is read again
\* from the file.
RecordRereads(b) ==
  LET last == IF file = << >> THEN GENESIS ELSE Last(file).hash
      line == [prev |-> last, body |-> b, hash |-> Hash(last, b)]
  IN /\ up = "up" /\ Len(file) < MaxLines
     /\ file' = Written(line)
     /\ cut' = FALSE
     /\ prevHash' = Hash(last, b)
     /\ acked' = Append(acked, line)
     /\ Sees("recorded")
     /\ UNCHANGED <<up, torn, before>>

Record(b) ==
  /\ up = "up" /\ Len(file) < MaxLines
  /\ file' = Written(Entry(b))
  /\ cut' = FALSE
  /\ prevHash' = Hash(prevHash, b)
  /\ acked' = Append(acked, Entry(b))
  /\ Sees("recorded")
  /\ UNCHANGED <<up, torn, before>>

\* The write stops inside the text, or just before its newline; the process
\* survives (record raises, _prev_hash is left alone) or dies with it.
RecordCut(b) ==
  /\ up = "up" /\ Len(file) < MaxLines
  /\ \E line \in {UNREADABLE, UNDECODABLE, Entry(b)} : file' = Written(line)
  /\ cut' = TRUE
  /\ up' \in {"up", "down"}
  /\ torn' = TRUE
  /\ UNCHANGED <<prevHash, acked, edited, before>>

\* The process dies between two records, or right after a write.
Crash == /\ up = "up" /\ up' = "down"
         /\ Sees("unwatched")
         /\ UNCHANGED <<file, cut, prevHash, acked, torn, before>>

CrashAfterWrite(b) ==
  /\ up = "up" /\ Len(file) < MaxLines
  /\ file' = Written(Entry(b))
  /\ cut' = FALSE /\ up' = "down"
  /\ Sees("recorded")
  /\ UNCHANGED <<prevHash, acked, torn, before>>

\* _read_last_hash: unreadable lines are skipped.
LastHash == LET ok == {i \in 1..Len(file) : Readable(file[i])} IN
            IF ok = {} THEN GENESIS ELSE file[Max(ok)].hash

\* Faulty variant, which the properties must reject: the chain starts afresh.
RestartAfresh == /\ up \in {"down", "refused"} /\ up' = "up"
                 /\ prevHash' = GENESIS
                 /\ UNCHANGED <<file, cut, acked, ghosts>>

\* The constructor, called when relay.app is imported: a line that cannot be
\* decoded raises while the file is iterated, outside the try; the container tries
\* again.
Restart == /\ up \in {"down", "refused"}
           /\ IF Decodable THEN up' = "up" /\ prevHash' = LastHash
              ELSE up' = "refused" /\ UNCHANGED prevHash
           /\ UNCHANGED <<file, cut, acked, ghosts>>

\* The file is edited, once, by something other than the relay: a line is altered,
\* with the hash that it had or with its new one (no key is needed for it), moved or
\* removed, or the end of the file is.  Lines that continue the chain may be added.
\* (Files in which a write was cut short are not edited here.)
Altered == {[file EXCEPT ![i].body = b] : i \in 1..Len(file), b \in Body}
Rehashed == {[file EXCEPT ![i] = [prev |-> @.prev, body |-> b, hash |-> Hash(@.prev, b)]] :
              i \in 1..Len(file), b \in Body}
Swapped == {[file EXCEPT ![i] = file[i + 1], ![i + 1] = file[i]] : i \in 1..(Len(file) - 1)}
Shortened == {RemoveAt(file, i) : i \in 1..Len(file)}
Truncated == {SubSeq(file, 1, n) : n \in 0..(Len(file) - 1)}

Edit ==
  /\ edited = "no" /\ ~torn
  /\ file' \in Altered \cup Rehashed \cup Swapped \cup Shortened \cup Truncated
  /\ edited' = IF up = "up" THEN "watched" ELSE "unwatched"
  /\ before' = file
  /\ UNCHANGED <<cut, prevHash, up, acked, torn>>

Forge(b) ==
  /\ ~torn /\ Len(file) < MaxLines
  /\ LET last == IF file = << >> THEN GENESIS ELSE Last(file).hash IN
     file' = Append(file, [prev |-> last, body |-> b, hash |-> Hash(last, b)])
  /\ IF edited = "no"
     THEN edited' = (IF up = "up" THEN "watched" ELSE "unwatched") /\ before' = file
     ELSE UNCHANGED <<edited, before>>
  /\ UNCHANGED <<cut, prevHash, up, acked, torn>>

AuditNext == \/ \E b \in Body : Record(b) \/ RecordCut(b) \/ CrashAfterWrite(b)
             \/ Crash \/ Restart
             \/ Edit \/ \E b \in Body : Forge(b)

AuditSpec == AuditInit /\ [][AuditNext]_auditVars

\* Faulty variants, which the properties must reject: unreadable lines are skipped;
\* the content of a line is not hashed.
VerifyReadable(lines) ==
  LET ok == SelectSeq(lines, Readable) IN
  \A i \in 1..Len(ok) :
    /\ ok[i].prev = IF i = 1 THEN GENESIS ELSE ok[i - 1].hash
    /\ ok[i].hash = Hash(ok[i].prev, ok[i].body)

VerifyLinks(lines) ==
  \A i \in 1..Len(lines) :
    lines[i].prev = IF i = 1 THEN GENESIS ELSE lines[i - 1].hash

\* verify_chain (on a line that is not UTF-8 it raises instead of returning False)
Verify(lines) ==
  \A i \in 1..Len(lines) :
    LET line == lines[i] IN
    /\ Readable(line)
    /\ line.prev = IF i = 1 THEN GENESIS ELSE lines[i - 1].hash
    /\ line.hash = Hash(line.prev, line.body)

-----------------------------------------------------------------------------
(* Properties.                                                             *)

IsSubsequence(s, t) ==
  \E f \in [1..Len(s) -> 1..Len(t)] :
    \A i \in 1..Len(s) : s[i] = t[f[i]] /\ \A j \in 1..(i - 1) : f[j] < f[i]

\* Without cut writes or edits, whenever the relay crashes and restarts, the chain
\* verifies and holds every entry that record returned, in order.
ChainUnbroken ==
  ~torn /\ edited = "no" => Verify(file) /\ IsSubsequence(acked, file)

\* Whatever writes are cut short and however often the relay restarts, a file
\* that verifies has lost no entry that record returned: a loss shows.
LossIsDetected == edited = "no" => (Verify(file) => IsSubsequence(acked, file))

\* A line that a file which verifies still has as it was vouches for all that came
\* before it: of these, none was altered, removed, added or moved, wherever the relay
\* resumed the chain afterwards.
KeptLinesVouch ==
  ~torn /\ edited # "no" /\ Verify(file) =>
    \A i \in 1..Len(before), j \in 1..Len(file) :
      file[j] = before[i] => j = i /\ \A m \in 1..i : file[m] = before[m]

\* The next record of a process that was running when the file was edited vouches for
\* the whole of it: its end was not replaced either.
RelayVouches ==
  ~torn /\ edited = "recorded" /\ Verify(file) =>
    Len(before) <= Len(file) /\ \A m \in 1..Len(before) : file[m] = before[m]
=============================================================================
