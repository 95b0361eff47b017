------------------------------ MODULE Transfer ------------------------------
(***************************************************************************)
(* File transfers: read_file streams slices of a file as file_chunk        *)
(* messages that the relay puts together; write_file installs a payload    *)
(* through a temporary file and a rename (client/filetransfer.go and the   *)
(* tools of relay/mcp_server.py).  All transfers name the same path of one *)
(* client, where each runs in a goroutine of its own.  A byte is the label *)
(* of who wrote it.  File systems keep what was synced; a rename may be    *)
(* lost in a crash, but never half done.                                   *)
(***************************************************************************)
EXTENDS Naturals, SequencesExt

CONSTANTS Reader, Writer,   \* requests of either tool
          Original, Program, \* labels: the file found, a program that appends to it
          NoFile,
          Chunk,            \* fileChunkBytes
          Cap,              \* maxFileTransferBytes = MAX_FILE_TRANSFER_BYTES
          Sizes,            \* bounds: payloads and the file found,
          Offsets, Limits,  \*   arguments of a read (limit 0: absent),
          MaxGrowth         \*   bytes the program appends

ASSUME TransferAssumption ==
  /\ Chunk \in Nat \ {0} /\ Cap \in Nat \ {0} /\ MaxGrowth \in Nat
  /\ Sizes \subseteq Nat /\ Offsets \subseteq Nat /\ Limits \subseteq Nat
  /\ NoFile \notin Writer \cup {Original} /\ Original \notin Writer

VARIABLES data,     \* contents of an inode; a writer's temporary file is its own inode
          path,     \* inode the path names, or NoFile
          temps,    \* writers whose temporary name exists
          synced,   \* inodes that a crash leaves as they are
          onDisk,   \* what the path may name after a crash
          versions, \* history: every contents the path has named
          up,       \* the client is "linked" to the relay, "cut" from it, or "crashed"
          wpc, size, exclusive,  \* a write: progress, payload, overwrite=false
          rd,       \* a read on the client
          wire,     \* its messages, under way or queued in the broker
          got, answer  \* the relay's aggregator, and what the tool returns

files == <<data, path, temps, synced, onDisk, versions>>
writes == <<wpc, size, exclusive>>
reads == <<rd, wire, got, answer>>
vars == <<files, up, writes, reads>>

Inode == Writer \cup {Original}
Payload(w) == [i \in 1..size[w] |-> w]
Contents == {data[i] : i \in {path} \ {NoFile}}   \* of the path, if it is there
Linked == up = "linked"
Running == up # "crashed"
Least(m, n) == IF m < n THEN m ELSE n
Encoded(n) == 4 * ((n + 2) \div 3)                 \* base64 characters of n bytes
Pending == [status |-> "none"]

Init ==
  /\ \E n \in Sizes :
       data = [i \in Inode |-> IF i = Original THEN [k \in 1..n |-> Original] ELSE <<>>]
  /\ path \in {Original, NoFile}
  /\ temps = {} /\ synced = {Original} /\ onDisk = {path}
  /\ versions = Contents
  /\ up = "linked"
  /\ wpc = [w \in Writer |-> "idle"]
  /\ size \in [Writer -> Sizes] /\ exclusive \in [Writer -> BOOLEAN]
  /\ rd = [r \in Reader |-> [pc |-> "idle"]]
  /\ wire = [r \in Reader |-> <<>>] /\ got = [r \in Reader |-> <<>>]
  /\ answer = [r \in Reader |-> Pending]

-----------------------------------------------------------------------------
(* Writes                                                                  *)

WriteGoes(w, place) == wpc' = [wpc EXCEPT ![w] = place] /\ UNCHANGED <<up, size, exclusive, reads>>

\* write_file up to the client's os.Stat: nothing is dispatched beyond the cap.
WriteAsked(w) ==
  /\ Linked /\ wpc[w] = "idle"
  /\ WriteGoes(w, IF size[w] > Cap \/ (exclusive[w] /\ path # NoFile) THEN "failed" ELSE "checked")
  /\ UNCHANGED files

\* os.CreateTemp, in the directory of the target
WriteCreates(w) ==
  /\ Running /\ wpc[w] = "checked" /\ WriteGoes(w, "created")
  /\ temps' = temps \cup {w}
  /\ UNCHANGED <<data, path, synced, onDisk, versions>>

WriteFills(w) ==
  /\ Running /\ wpc[w] = "created" /\ WriteGoes(w, "filled")
  /\ data' = [data EXCEPT ![w] = Payload(w)]
  /\ UNCHANGED <<path, temps, synced, onDisk, versions>>

\* Faulty variant, which the properties must reject: the temporary file is not synced.
WriteCloses(w) ==
  /\ Running /\ wpc[w] = "filled" /\ WriteGoes(w, "flushed")
  /\ UNCHANGED files

\* tmp.Sync and tmp.Close
WriteSyncs(w) ==
  /\ Running /\ wpc[w] = "filled" /\ WriteGoes(w, "flushed")
  /\ synced' = synced \cup {w}
  /\ UNCHANGED <<data, path, temps, onDisk, versions>>

\* Faulty variant, which the properties must reject: the payload is copied over the target.
WriteCopies(w) ==
  /\ Running /\ wpc[w] = "flushed" /\ path # NoFile /\ WriteGoes(w, "done")
  /\ data' = [data EXCEPT ![path] = data[w]]
  /\ versions' = versions \cup {data[w]}
  /\ temps' = temps \ {w}
  /\ UNCHANGED <<path, synced, onDisk>>

\* os.Rename
WriteInstalls(w) ==
  /\ Running /\ wpc[w] = "flushed" /\ WriteGoes(w, "done")
  /\ path' = w
  /\ onDisk' = onDisk \cup {w}
  /\ versions' = versions \cup {data[w]}
  /\ temps' = temps \ {w}
  /\ UNCHANGED <<data, synced>>

\* Faulty variant, which the properties must reject: the permissions are set after the
\* rename, and fail the write.
WriteFailsLate(w) ==
  /\ Running /\ wpc[w] \in {"checked", "created", "filled", "flushed", "done"}
  /\ WriteGoes(w, "failed")
  /\ temps' \in {temps, temps \ {w}}
  /\ UNCHANGED <<data, path, synced, onDisk, versions>>

\* Any of these steps fails.  The deferred function removes the temporary file, and
\* nobody hears of it when the removal fails too.
WriteFails(w) ==
  /\ Running /\ wpc[w] \in {"checked", "created", "filled", "flushed"}
  /\ WriteGoes(w, "failed")
  /\ temps' \in {temps, temps \ {w}}
  /\ UNCHANGED <<data, path, synced, onDisk, versions>>

-----------------------------------------------------------------------------
(* Reads, on the client                                                    *)

Send(r, messages) == wire' = IF Linked THEN [wire EXCEPT ![r] = @ \o messages] ELSE wire
Outcome(error, truncated, sum) ==
  <<[type |-> "result", error |-> error, truncated |-> truncated, sum |-> sum]>>
Over(r) == rd' = [rd EXCEPT ![r] = [pc |-> "over", offset |-> @.offset, limit |-> @.limit]]
OnClient == UNCHANGED <<files, up, writes, got, answer>>

\* read_file, os.Stat, os.Open, Seek; rd[r].sum: what the hasher was given
ReadOpens(r, offset, max) ==
  /\ Linked /\ rd[r].pc = "idle"
  /\ IF path = NoFile
     THEN /\ rd' = [rd EXCEPT ![r] = [pc |-> "over", offset |-> offset, limit |-> Cap]]
          /\ Send(r, Outcome("file_not_found", FALSE, <<>>))
     ELSE /\ rd' = [rd EXCEPT ![r] = [pc |-> "reading", file |-> path, offset |-> offset,
                limit |-> IF max > 0 THEN Least(max, Cap) ELSE Cap, sum |-> <<>>, seq |-> 0]]
          /\ UNCHANGED wire
  /\ OnClient

Wanted(r) == Least(Chunk, rd[r].limit - Len(rd[r].sum))
\* The next n bytes of the file, or what is left of it.
Slice(r, n) == LET from == rd[r].offset + Len(rd[r].sum)
               IN  SubSeq(data[rd[r].file], from + 1, Least(from + n, Len(data[rd[r].file])))
Chunked(r, bytes) == IF bytes = <<>> THEN <<>>
                     ELSE <<[type |-> "file_chunk", seq |-> rd[r].seq, data |-> bytes]>>

\* One turn of the loop.  A short read is the end of the file.  Without a
\* connection the emit fails (and so does the result).
ReadTurn(r) ==
  /\ Running /\ rd[r].pc = "reading" /\ Wanted(r) > 0
  /\ LET bytes == Slice(r, Wanted(r)) IN
     IF ~Linked /\ bytes # <<>>
     THEN Over(r) /\ UNCHANGED wire
     ELSE /\ rd' = [rd EXCEPT ![r].pc = IF Len(bytes) < Wanted(r) THEN "ended" ELSE @,
                              ![r].sum = @ \o bytes, ![r].seq = @ + Len(Chunked(r, bytes))]
          /\ Send(r, Chunked(r, bytes))
  /\ OnClient

\* Faulty variant, which the properties must reject: any error ends the file.
ReadStops(r) ==
  /\ Running /\ rd[r].pc = "reading" /\ Wanted(r) > 0
  /\ rd' = [rd EXCEPT ![r].pc = "ended"] /\ UNCHANGED wire
  /\ OnClient

\* The file system fails, after some bytes of the chunk or none.
ReadFails(r) ==
  /\ Running /\ rd[r].pc = "reading" /\ Wanted(r) > 0
  /\ \E n \in 0..Wanted(r) - 1 :
       Send(r, Chunked(r, Slice(r, n)) \o Outcome("io_error", FALSE, <<>>))
  /\ Over(r)
  /\ OnClient

\* Bytes remain past the limit.
More(r) == rd[r].pc = "reading" /\ Slice(r, 1) # <<>>

\* What the probe says: its own failure is taken for the end of the file.
Probed(r) == {More(r), FALSE}

ReadEnds(r) ==
  /\ Running
  /\ rd[r].pc = "ended" \/ (rd[r].pc = "reading" /\ Wanted(r) = 0)
  /\ Over(r)
  /\ \E truncated \in Probed(r) : Send(r, Outcome("", truncated, rd[r].sum))
  /\ OnClient

-----------------------------------------------------------------------------
(* Reads, on the relay                                                     *)

OnRelay == UNCHANGED <<files, up, writes, rd>>
Answer(r, what) == answer' = [answer EXCEPT ![r] = what]
Refuse(r, error) == Answer(r, [status |-> error])
Waiting(r) == rd[r].pc # "idle" /\ answer[r] = Pending

\* sorted(received, key=seq), which keeps equals in their order
Place(chunks, i) == Cardinality({j \in DOMAIN chunks :
                      chunks[j].seq < chunks[i].seq \/ (chunks[j].seq = chunks[i].seq /\ j <= i)})
Sorted(chunks) == [k \in DOMAIN chunks |-> chunks[CHOOSE i \in DOMAIN chunks : Place(chunks, i) = k]]

\* _reassemble_chunks
Bytes(chunks) == FlattenSeq([k \in DOMAIN chunks |-> chunks[k].data])
Reassembled(chunks) == Bytes(Sorted(chunks))

Received(chunks) == FoldSeq(LAMBDA c, n : n + Encoded(Len(c.data)), 0, chunks)

\* _dispatch_file_transfer counts base64 characters; past the cap it closes the generator.
Collect(r) ==
  /\ Waiting(r) /\ wire[r] # <<>> /\ Head(wire[r]).type = "file_chunk"
  /\ LET chunks == Append(got[r], Head(wire[r])) IN
     IF Received(chunks) > Cap
     THEN Refuse(r, "file_too_large") /\ UNCHANGED got
     ELSE got' = [got EXCEPT ![r] = chunks] /\ UNCHANGED answer
  /\ wire' = [wire EXCEPT ![r] = Tail(@)]
  /\ OnRelay

Conclude(r) ==
  /\ Waiting(r) /\ wire[r] # <<>> /\ Head(wire[r]).type = "result"
  /\ LET result == Head(wire[r]) IN
     IF result.error # "" THEN Refuse(r, result.error)
     ELSE Answer(r, [status |-> "ok", content |-> Reassembled(got[r]), sha256 |-> result.sum,
                     truncated |-> result.truncated])
  /\ wire' = [wire EXCEPT ![r] = Tail(@)]
  /\ UNCHANGED got /\ OnRelay

\* The sentinel follows what was queued; each wait of the broker has its timeout.
GiveUp(r) ==
  /\ Waiting(r) /\ wire[r] = <<>>
  /\ Refuse(r, IF Linked THEN "timeout" ELSE "client_disconnected")
  /\ UNCHANGED <<wire, got>> /\ OnRelay

-----------------------------------------------------------------------------
\* A program of the machine appends to the file.
Grow ==
  /\ Running /\ path # NoFile
  /\ Cardinality({k \in DOMAIN data[path] : data[path][k] = Program}) < MaxGrowth
  /\ data' = [data EXCEPT ![path] = Append(@, Program)]
  /\ versions' = versions \cup {data'[path]}
  /\ UNCHANGED <<path, temps, synced, onDisk, up, writes, reads>>

\* What is under way on the connection is lost from some point on.
LoseMessages ==
  \E k \in [Reader -> 0..(Cap \div Chunk + 2)] :
    wire' = [r \in Reader |-> SubSeq(wire[r], 1, Least(k[r], Len(wire[r])))]

\* The connection ends; the goroutines go on, with nobody to answer to.
Lose ==
  /\ Linked /\ up' = "cut" /\ LoseMessages
  /\ UNCHANGED <<files, writes, rd, got, answer>>

\* The process is killed, or its machine stops.
Crash ==
  /\ Running /\ up' = "crashed" /\ LoseMessages
  /\ path' \in onDisk
  /\ \E lost \in SUBSET (Inode \ synced) :
       data' = [i \in Inode |-> IF i \in lost THEN <<>> ELSE data[i]]
  /\ UNCHANGED <<temps, synced, onDisk, versions, writes, rd, got, answer>>

Next ==
  \/ \E w \in Writer : WriteAsked(w) \/ WriteCreates(w) \/ WriteFills(w) \/ WriteSyncs(w)
                       \/ WriteInstalls(w) \/ WriteFails(w)
  \/ \E r \in Reader :
       \/ \E offset \in Offsets, max \in Limits : ReadOpens(r, offset, max)
       \/ ReadTurn(r) \/ ReadFails(r) \/ ReadEnds(r) \/ Collect(r) \/ Conclude(r) \/ GiveUp(r)
  \/ Grow \/ Lose \/ Crash

Spec == Init /\ [][Next]_vars

-----------------------------------------------------------------------------
(* Properties                                                              *)

\* The variables keep to their types; an aggregator holds no more than the cap, in order.
TypeOK ==
  /\ data \in [Inode -> Seq(Inode \cup {Program})]
  /\ path \in onDisk /\ onDisk \subseteq Inode \cup {NoFile}
  /\ temps \subseteq Writer /\ synced \subseteq Inode
  /\ up \in {"linked", "cut", "crashed"}
  /\ wpc \in [Writer -> {"idle", "checked", "created", "filled", "flushed", "done", "failed"}]
  /\ \A r \in Reader :
       /\ rd[r].pc \in {"idle", "reading", "ended", "over"}
       /\ Received(got[r]) <= Cap
       /\ \A k \in DOMAIN got[r] : got[r][k].seq = k - 1

\* A crash at any moment leaves under the path one whole file: the one that was
\* there, or the payload of a write (writeFileTransfer syncs before it renames).
TargetIsWhole ==
  /\ path \in Writer => IsPrefix(Payload(path), data[path])
  /\ path = Original => Range(data[path]) \subseteq {Original, Program}

\* A write that is reported to have failed, at any step, has never been visible under
\* the path and no crash will make it so (client/README.md: "laisse la cible
\* préexistante intacte").
FailureIsInvisible == \A w \in Writer : wpc[w] = "failed" => w \notin onDisk

\* What r returned is what the file held from the offset asked for.
PieceOf(file, r) ==
  LET from == Least(rd[r].offset, Len(file))   \* an offset past the end reads nothing
      to == from + Len(answer[r].content)
  IN  to <= Len(file) /\ answer[r].content = SubSeq(file, from + 1, to)

\* The answer to a read is a piece of one version of the file, and has the digest
\* sent with it, whatever was installed, appended or lost meanwhile (readFileTransfer
\* against writeFileTransfer, _reassemble_chunks).
ReadIsOneVersion ==
  \A r \in Reader : answer[r].status = "ok" =>
    /\ \E file \in versions : PieceOf(file, r)
    /\ answer[r].sha256 = answer[r].content

Remains(file, r) == Len(file) > rd[r].offset + Len(answer[r].content)

\* An answer shorter than what was asked for goes to the end of some version of the file,
\* and "truncated" is said only at the limit, where bytes of one remain: a transfer that
\* failed half-way is never returned as the whole file.
ReadIsComplete ==
  \A r \in Reader : answer[r].status = "ok" =>
    \E file \in versions :
      /\ PieceOf(file, r)
      /\ Len(answer[r].content) < rd[r].limit => ~Remains(file, r)
      /\ answer[r].truncated => Len(answer[r].content) = rd[r].limit /\ Remains(file, r)

\* No read is refused for its size: the client stops at the cap, which docs/PROTOCOL.md
\* says is common to both ways and counts decoded bytes.
ReadReachesCap == \A r \in Reader : answer[r].status # "file_too_large"
=============================================================================
