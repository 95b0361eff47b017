# A TLA+ model of claude-distant

claude-distant lets a harness (an MCP client) run commands on a remote machine.
A **relay** (`src/relay`, Python, one asyncio event loop) accepts WebSocket
connections of **clients** (`src/client`, Go), gives each a nine-digit session
code, and exposes MCP tools that name a code. The client executes what the relay
dispatches to it, under a local guard-rail held by its operator.

This directory models the parts of the program whose correctness depends on
orders of events: what interleaves, expires, is torn, is killed half-way.
Modules are checked by TLC on small instances; every safety property that holds, and both
refinements, are also proved with TLAPS for instances of any size. Where the code does not do
what its documents say, section 4 says how, and runs show the worst of it.

## 1. Inventory

| Component | Source | State it keeps | Operations | What is hard |
|---|---|---|---|---|
| Session store | `relay/session_store.py` | code → record (connection, `expires_at`) | create, get, touch, remove, remove_by_connection, terminate | lazy expiry, stable codes requested by several connections, boundary of the lease |
| Broker | `relay/broker.py` | `_pending`: request → (connection, queue) | register, heartbeat, unregister, terminate, handle_client_message, dispatch | a dispatch is suspended in a send or on its queue while its connection ends or is killed |
| WebSocket handler | `relay/app.py` | local `session_code`, token | the receive loop and its `finally` | its code outlives the record |
| Command policy | `relay/command_policy.py` | counts and timestamps per code | check | sliding window, state that outlives sessions |
| Audit log | `relay/audit.py` | file, `_prev_hash` | record, resume, verify_chain | torn writes, restarts, edits |
| Client tokens | `relay/auth.py` | one-use tokens with expiry | issue, validate, consume | validated at the handshake, consumed at the register |
| JWT, CLI | `relay/jwt_auth.py`, `relay/tokens.py` | none | sign, check | nothing that interleaves |
| MCP server | `relay/mcp_server.py` | none of its own | one tool per command, aggregation, scopes | chunks out of order, limits, timeouts of both sides |
| Client loop | `client/main.go`, `gui.go`, `wsconn.go` | connection, context, backoff, status shown | runForever, runSession, heartbeatLoop | which ends of a session are final, a deadline against lost answers, a status set by queued calls |
| Guard-rail | `client/executor.go`, `policy.go` | policy, memory of "toujours" | passesGuardRail, resolveApproval, PromptConfirm | one goroutine per command, prompts shared or orphaned |
| Process execution | `client/executor.go`, `proc_linux.go` | process, pipes | runAndStream, pump, kill | exit, timeout and last output race |
| File transfer | `client/filetransfer.go` | file, temporary file | chunked read, atomic write | partial failures, limits, files that grow |
| Command parsing and limits | `client/executor.go`, `commanddetail.go` | none | splitArgv, resolveShell, the timeout, the journal's line | quotes and escapes at the edges, products that overflow |
| Activity log | `client/activitylog.go`, `gui.go` | ring, subscribers, the window's panel | Append, Subscribe, notify, appendLogEvent | notifications outside the lock, a filtered copy kept beside the list |
| Workspace, lifecycle | `client/workspace.go`, `lifecycle.go`, `secrets.go` | directory, token in memory | create, cleanup, zero, RunGuarded | commands still running at exit, panics |
| Identity, system info, secrets, build configuration | `client/identity.go`, … | none | pure reads | — |

What makes each correct (in parentheses, where it is stated):

* *Session store*: a client that heartbeats keeps its code (`KeptAlive`); only heartbeats
  prolong a session, and none brings back one that has expired (`NoRevival`); it does what the
  broker relies on (`ImplementsDirectory`).
* *Broker and handler*: store and handlers agree (`NoStaleRecord`, `Routed`); no command
  outlives its connection unnoticed (`NoLostWakeup`, `AbortedEnds`); a kill is a barrier
  (`KilledAreWoken`, `ClosedSilent`, `KillCloses`); every command has one verdict, after
  all its output (`CompleteOutput`, `ImplementsService`).
* *Command policy*: the limit holds in every window and not only in those that a check
  happens to end (`RateRespected`), and no refusal is undue (`RateRefusalJustified`).
* *Audit log*: what verifies has lost nothing (`LossIsDetected`), across crashes
  (`ChainUnbroken`); every line vouches for those before it (`KeptLinesVouch`), and the next
  entry of a running relay for all that it had written (`RelayVouches`).
* *Guard-rail*: nothing gated runs without an answer to its own prompt (`DialogConsent`, with
  dialogs); on the console an answer serves one command where prompts come one after the other
  (`OneAnswerEach`).
* *Process execution*: ordered output, one result after it, always (`OutputInPlace`,
  `ResultIsLast`, `AnswerComes`), and truthful (`SuccessIsReal`).
* *File transfer*: all or nothing for writes (`TargetIsWhole`, `FailureIsInvisible`), one
  version and no silent gap for reads (`ReadIsOneVersion`, `ReadIsComplete`).
* *Command parsing*: what the harness quotes is what the program gets (`ArgumentsSurvive`);
  it gets the time asked for, and the relay waits for longer (`DeadlineFits`); the journal
  shows one command as one line (`OneFaithfulLine`).
* *Client loop*: a kill is final however it is learnt (`KillIsFinal`), everything else is
  followed by another attempt (`KeepsTrying`); lost answers cost no connection
  (`HeartbeatSuffices`); a command ends with its session (`CommandsStop`); the window says
  what the connection is (`StatusTruthful`). *Lifecycle*: the process ends, clean (`StopsClean`).
* *Activity log*: the rows are the events (`PanelIsFiltered`), each goroutine's in its order
  (`OwnOrder`), and the panel does not drift away from the log (`PanelFollowsLog`).
* *Client tokens*: one session per token (not modelled, see section 7).

Interactions: a handler calls the broker, the broker awaits the store and appends
to the audit log; an MCP tool iterates over `dispatch_command`, which asks the
policy, sends to the connection and reads the queue that the handler fills; the
kill-switch takes the record, wakes the pending requests, notifies and closes.
On the client, the read loop starts a goroutine per command; they share the
connection, the policy, the memory of answers and, on the console, standard input.

## 2. Modules

`SessionDirectory` — what the store promises to the broker, without a clock:
`holder` and `fresh` per code. A lease that runs out (`Expire`) leaves a record
in place; only `Purge`, inside get and touch, deletes it.

`SessionStore` — the store with `now` and `expires_at`, driven by clients that
keep their heartbeat period, stall, are killed or leave. A stalled client heartbeats late,
whenever it likes, and so may one that was killed until its socket closes: `Touch` goes by the
code, as `ws_client` does, so these may delete or prolong another's record. `beat` is when the
handler of a connection last touched its code. Refines
`SessionDirectory` with `fresh[k]` defined as "recorded and not yet expired".

`Relay` — extends `SessionDirectory` with the handlers and the broker. A
coroutine of asyncio is not interrupted between two awaits that suspend, so an
action is such a stretch: `Dispatch` is everything from the lookup to the
suspension inside `send_json`; `Kill` everything from `store.terminate` to the
notification, the wake-ups included. A request is cancelled where it awaits: a dispatch is
abandoned (`Abandon`), and a kill stops between its wake-ups and its close (`KillCancelled`),
as nothing shields it. Awaiting the store does not suspend (its
lock is free whenever it is asked for, since no holder awaits while holding it).

| Variable | Code |
|---|---|
| `ws` | state of a connection and its handler; `"lost"`: the socket is gone, the `finally` has not run |
| `code` | `session_code`, a local of `ws_client` |
| `req` | where a `dispatch_command` is; pending (in `_pending`) iff sending or waiting |
| `target`, `queue` | `_PendingRequest.connection`, `.queue`; `GONE` is `_DISCONNECTED` |
| `kpc`, `kconn` | where a `terminate_session` is, and its `record.connection` |
| `fate`, `sent`, `replied`, `got` | history only: no guard of the relay reads them |

Left out of `Relay`: payloads; the session's metadata; that an audit append may
raise at the *end* of a dispatch (it changes only which exception the tool sees).

`CommandService` — abstract: connections with a link, commands with one verdict,
fixed by whichever comes first of the result and the end of the link, which
aborts all running commands in one step. `Relay` refines it: a connection is down
as soon as it is killed or unregistered; the verdict of a pending command is the
first result or sentinel in its queue.

`CommandPolicy` — `check` as four outcomes, with its two tables keyed by code.

(Both tables outlive the sessions of a code, as in the code.)

`AuditLog` — the file as a sequence of lines, whether the last is unterminated,
the chain head in memory. A write may stop inside the text, inside a multi-byte
character, or before the newline. The hash of an entry is the pair of what it
covers: no collisions, and no key: an edit may keep the hash that a line had (`Altered`) or put
its new one (`Rehashed`), lines that continue the chain may be forged (`Forge`), and the
end may be cut off (`Truncated`). `before` is a history of what was edited, `edited` of whether
the relay was running then and has recorded since. Edits of files with torn lines are left out.

`GuardRail` — the progress of each command through `Handle`: the policy read, the
memory lookup, the prompt, the memory update and the execution; sessions that
follow one another with a memory each; console prompts, which read one standard
input, or dialogs. The operator may switch the policy between any two steps, and type before
a prompt (`TypeAhead`). A line typed goes to whichever prompt reads first, also one of a past
session. The prompts of one session share a `bufio.Reader` without a lock; where two of its
goroutines have been in it at once (`raced`), it gives any line typed so far, one that was read
already included, or loses one (`Read`).

`Transfer` — the writes (temporary file, sync, rename) and the reads (chunks, end of
file, probe) of one path of one client, the messages under way, and the relay's
aggregator. A byte is the label of who wrote it, so that a piece made of two versions
shows. The removal of the temporary file may fail, and so may the probe; their errors are
ignored, as in the code. `versions` is a history of what the path has named; `onDisk` what it may name
after a crash, since no directory is synced: a crash may undo a rename, and empties the
inodes that were not synced. A program of the machine may append to the file. Reads run
in the same module because they share the file with the writes.

| Variable | Code |
|---|---|
| `data`, `path`, `temps` | inodes, the target's directory entry, `.claude-distant-*.part` |
| `wpc`, `size`, `exclusive` | where a `writeFileTransfer` is, `len(content)`, `overwrite=false` |
| `rd` | a `readFileTransfer`: its file, offset, `limit`, what the hasher was given (`sent` is its length), `seq` |
| `wire` | its messages, in the socket or in the broker's queue |
| `got`, `answer` | `received`; what the tool returns |

`Command` — pure: the splitting of a command line, the choice of a shell, the time limits
of both sides in integers that wrap at a given bound, and the line that the journal gets. A text is a
sequence of characters of five kinds (ordinary, blank, the quotes, the backslash, a
line break, a control character); nothing is read off it but those.

`Process` — one command on Linux, from its message (a request of `Command`) to its result.
Its five goroutines: the caller's select, two pumps
(a read and a send are two steps: the pipe may be closed, and the result be due,
in between), `cmd.Wait` and the watcher of `exec.CommandContext`. What `os/exec` does
is modelled from its documented behaviour and marked external: `Wait` reaps, then
hears the watcher, then closes the client's ends of the pipes, read or not. The output is
bytes, numbered; which of them are characters is `Spelled`, a parameter. A read ends anywhere,
and `AsText` is what the encoding of a read as JSON makes of it: bytes that are no character
within it become `Replacement` (U+FFFD).

`ClientLoop` — one process of the client, as a console program or with its window, from
its configuration to its exit. `Panic` is one of the main goroutine, which `RunGuarded` catches;
`PanicElsewhere` one of the window's loop, the heartbeats, a command or its pumps, which ends
the process. A signal queues the closing of the window (`SignalCloses`).

| Variable | Code |
|---|---|
| `main` | where `main` is: before `runUI`, in it, in the deferred cleanup, gone (`"exited"`, or `"crashed"` past the cleanup) |
| `ctx`, `dir`, `token` | the context of the process, its `Workspace`, its `SecretBytes` |
| `loop` | where `runForever` (`guiRunForever`) is: top of the loop, `DialRelay`, the read loop, the backoff, returned |
| `link`, `inbox` | the connection as the network and the relay leave it; what is not yet read |
| `known`, `named` | the relay has registered the client; the client has read so |
| `child`, `own` | a command's goroutine and process; whether its `sessionCtx` is the current one |
| `ui`, `label` | calls of `setStatus` queued with `fyne.Do`; the status shown |
| `silence`, `beat`, `missed` | time since the read deadline was set and since the last heartbeat; acknowledgements missed |
| `heard` | history only: the client has read of the kill |

The relay is reduced to what a client can tell of it: it registers, sends commands, answers
heartbeats or not, kills with or without the notification, and goes silent; the network may
lose what is in flight with the connection, the news of a kill too (`Cuts`).

`Journal` — the ring of `activitylog.go` and the panel of `gui.go`: append under the
mutex, notify outside of it, queue for the interface's goroutine, apply; the switch
"commands only".

The proofs: `RelayProofs` (about `Relay`), `StoreProofs` (`SessionStore`), `PolicyAuditProofs`
(`CommandPolicy`, `AuditLog`), `GuardProofs` (`GuardRail`), `TransferProofs`, `ProcessProofs`
(`Process`, `Command`), `ClientProofs` (`ClientLoop`, `Journal`), and `SequenceLemmas`, what
they share about sequences and folds. `MC*` — small instances.

A definition introduced as a *faulty variant* is no part of a specification: it
is a form of the next definition with a plausible bug, kept to show that a
property can fail.

## 3. Runs

| Run | What it checks |
|---|---|
| `MCRelay` | 2 connections that want 2 codes, 1 command, 1 kill, 1 partial message. `NoStaleRecord` and `Routed` (store and handlers agree both ways); `NoLostWakeup`, `KilledAreWoken`; `CompleteOutput`; `ClosedSilent`; the refinement of `CommandService`; and, under fairness, `AbortedEnds` and `KillCloses`. The command may be abandoned and the kill cancelled. |
| `MCRelayHalfKill` | *violated*: `KillIsWhole`. See findings. |
| `MCSessionStore` | 3 connections, 2 codes, TTL 3, period 2, clock to 6, heartbeats early, late, and of handlers whose record is gone: `KeptAlive`, `NoRevival`, refinement of `SessionDirectory`. The run stops at the end of the clock, hence no deadlock check. |
| `MCCommandPolicy` | 2 codes, rate limit 2 in a window of 3, quota 3, clock to 5: `RateRespected` over every window, `RateRefusalJustified`. |
| `MCAuditLog` | up to 3 lines of 2 bodies, with faults, restarts, one edit and forged lines: `ChainUnbroken`, `LossIsDetected`, `KeptLinesVouch`, `RelayVouches`. |
| `MCGuardRail` | 2 commands, 2 texts, 2 sessions, 1 line typed ahead: `DialogConsent`, `OneAnswerEach`. |
| `MCTransfer` | 2 writes and 1 read of a path, files of 4 or 9 bytes, chunks of 3, cap 8, offsets 0 and 5, limits none and 4, 1 byte appended, one crash or lost connection, a removal or a probe that fails: `TargetIsWhole`, `FailureIsInvisible`, `ReadIsOneVersion`, `ReadIsComplete`. All transfers end, hence no deadlock check. |
| `MCTransferCap` | *violated*: `ReadReachesCap`. |
| `MCProcess` | 1 command of 2,408, with 1 descendant, 2 bytes per stream, read apart or together, of which any may be characters, pipes of 2: `ArgumentsSurvive`, `OneFaithfulLine`, `DeadlineFits` on each request, then `OutputInPlace`, `ResultIsLast`, `SuccessIsReal`, and `AnswerComes` under fairness. The command ends, hence no deadlock check. |
| `MCProcessTree` | *violated*: `TreeIsKilled`. |
| `MCClient` | both builds, 1 command (the relay sends no more than `Cmd` has), 2 messages and 2 interface calls in flight, heartbeats every 20 s against a read deadline of 90 s, a panic of the main goroutine or of another, a kill whose news may be lost: `KillIsFinal`, `HeartbeatSuffices`, `StatusTruthful`, and `CommandsStop`, `KeepsTrying`, `StopsClean` under fairness. A client that has exited stops, hence no deadlock check. |
| `MCJournal` | 3 goroutines of 2 events, a backlog of 0 or 1, a ring of 2: `PanelIsFiltered`, `OwnOrder`, `PanelFollowsLog`. The goroutines stop, hence no deadlock check. |

A state is well typed wherever a proof needs it: `TypeOK` (or `Types`, in a module of
proofs) is part of each inductive invariant below; no run is spent on types alone.

**Bounds.** Two connections and two codes are enough for every way in which one connection can
disturb another's record: a code held, desired by another, expired under one and taken by the
other, and a free one to fall back to; a connection is used by one handler and never again, so
longer histories only repeat the pattern with fresh connections. In `MCGuardRail` a command
may leave its prompt behind in a lost session and the other ask in the next, or both in one.
One command and one kill meet both connections in every order; more of them, and longer
queues, are covered by the proofs, which bound nothing. `MCRelay` checks liveness and
therefore uses no symmetry. `MaxChunks`, `MaxLines`, `MaxTime`, `MaxSessions`, `MaxAhead`
bound what grows; `MaxTime` exceeds TTL and window, so leases and windows do run out, and
`MaxLines` leaves room for an entry before, on and after a torn line. In `MCTransfer` chunk
and cap are in the proportion of 192 KiB to 8 MiB (the cap is no multiple of the chunk; a
chunk is a multiple of 3 bytes, the cap is not, as there); sizes lie under the cap, over it,
and make one, two and three chunks; an offset lies within one file and past the end of the
other. Two writes are needed for a read to see the file replaced while another replacement is
under way. In `MCProcess` two bytes let a pump send, fall behind and lose some, and let a read
cut a character; a second descendant would only be killed or spared with the first. Its texts
are all those of three characters, and one or two arguments of at most two characters in every
style of quoting: the splitter's state is one of three quotes and whether an argument has
begun, so three characters take it through every pair of transitions. A `time.Duration` has 8
bits there (`Overflow`, 128, is the first value too large) and a second 4 units, so products
do overflow; `DeadlineFits` excludes them (see "Also seen"). In `MCClient` a unit is 10 s, as
in `heartbeatInterval` and `readTimeout` (20 and 90 s), and two acknowledgements may be
missed. A ring of 2 evicts at the third event. Symmetry is used only where the properties are
symmetric and no liveness is checked.

**Fairness.** `Process!FairSpec`: the scheduler runs every goroutine that can go on, and the
guard-rail lets the command through or refuses it (an operator who never answers is not
modelled there; `AnswerComes` is about what follows). Nothing is assumed of the command or its
descendants, which may run, or hold their pipes, for ever. `Relay!FairSpec`: the event loop
runs every coroutine that can go on: a send completes or fails, the handler of a lost socket
runs its `finally`, a queued item is taken, a kill proceeds unless it is cancelled. Nothing is
assumed of clients, and nothing of `Timeout`: `AbortedEnds` shows that wake-ups alone end the
commands of a dead connection. `ClientLoop!FairSpec`: goroutines run, a dial ends (`DialRelay`
has a timeout and the context), the interface serves its queue, where the goroutine of
`gui.go:80-83` puts the closing of the window at a signal (`SignalCloses`); the user need
never close it. Nothing is assumed of the relay, of the network or of the clock, nor that a
command ends by itself.

## 4. Findings

1. *A kill can stop half-way* (`broker.py:173`, `MCRelayHalfKill`). The audit append
   sits between the removal of the record and the wake-ups; when it raises, the
   commands keep running, the socket stays open, and a second kill finds no record.
2. *Reads over three quarters of the cap are refused* (`mcp_server.py:726`,
   `MCTransferCap`): the relay holds base64 text to the limit that the client and
   `docs/PROTOCOL.md` state for decoded bytes.
3. *Descendants survive a timeout* (`proc_linux.go:25`, `MCProcessTree`): the watcher of
   `exec.CommandContext` kills the process alone; once `Wait` has reaped it, or the
   select has seen its exit, the group is not killed.

Also seen while modelling, and given no run. The first eight are steps of the models, which the
properties of section 3 survive, or name as an exception:

* *A cancelled kill leaves the socket open* (`broker.py:190`, `KillCancelled`). The tool awaits
  the kill without a shield (`mcp_server.py:582`), and `except Exception` lets a
  `CancelledError` through: if the request is cancelled during the notification, the record
  is gone and the commands are woken, but the close is skipped, although
  `docs/SECURITY.md:361-363` counts it among what a kill does at once.
* *An edited audit file may verify* (`audit.py:171`, `Rehashed`, `Truncated`, `Forge`). The hash takes
  no key, and nothing outside the file remembers its end: who edits it can recompute the hashes from
  there on, add lines, or remove the last ones. `docs/SECURITY.md:348-351` and the docstring say that
  any modification or removal shows. What does show: see `KeptLinesVouch` and `RelayVouches`.
* *A console answer may serve another prompt* (`main.go:328`, `Read`). Prompts that are open at
  once share a `bufio.Reader` that is not safe for concurrent use; a line goes to whichever
  reads first, also to a prompt left over from a lost session, and a race inside the reader may
  give it to two. A command may so run on the approval of another, against
  `docs/PROTOCOL.md:148-150`. `OneAnswerEach` is about prompts that come one after the other; these
  are ordered by the mutex of the journal's sink, which each passes before it asks and after
  it was answered (`executor.go:518-520`).
* *A failed write may leave its temporary file* (`filetransfer.go:244`, `WriteFails`): the error of
  `os.Remove` is ignored; `docs/PROTOCOL.md:269-270` says that none is left.
* *A truncated read may be reported as whole* (`filetransfer.go:180`, `Probed`): the error of the
  probe is ignored, `truncated` stays false, and bytes are left (`docs/PROTOCOL.md:249-250`).
* *A panic outside the main goroutine skips the cleanup* (`lifecycle.go:13`, `PanicElsewhere`): the
  session's loop of the window, `heartbeatLoop`, the handlers of commands and their pumps are not
  under `RunGuarded`; token and directory are left, against `client/README.md:352-353`.
* *A kill does not stop a client with a window* (`gui.go:117`, `ReadTerminated`): its loop returns
  into a goroutine that logs the error, and main stays in `ShowAndRun`, with the token in memory,
  until the user closes the window; `docs/SECURITY.md:367-370` says that it stops, "idem pour la GUI".
* The heartbeat of a handler whose record is gone touches by code (`app.py:252`, `Touch`): it
  prolongs the session of whoever was given the code since.
* The quota and the rate are counted per code and never reset (`command_policy.py:155`),
  while codes are stable across sessions and the comment says "durée de vie de la session".
* After a write torn without a newline the next audit entry joins the torn line
  (`audit.py:132`): `record` returns an entry that cannot be read back
  (`LossIsDetected` holds: `verify_chain` notices). One torn inside a multi-byte
  character keeps the constructor from starting: `audit.py:94` raises
  `UnicodeDecodeError`, outside the `try` (`up = "refused"` in `AuditLog`).
* The memory of "toujours" ends with the connection (`main.go:338`), not with the client.
* `overwrite=false` is decided by a stat; a file that appears before the rename is
  replaced (`filetransfer.go:219`, `274`). The permissions to keep are read there too.
* `cmd.Wait` closes the pipes as soon as the process has exited (`executor.go:351`): the
  output that the pumps have not read by then is lost, silently. `OutputInPlace` says
  that what is lost is only ever the end. A character that a read cuts, and bytes that are no
  text, arrive as U+FFFD (`executor.go:376-378`). A process that ends by itself just before
  its deadline may be reported with `error:"timeout"` (`executor.go:284`).
* A `timeout` so large that its product with a second overflows `time.Duration`
  (`executor.go:262`) may come out negative, and the command ends at once with `timeout`,
  where `docs/PROTOCOL.md:203` caps it at 30 minutes.
* Without a timeout both sides wait for 300 s (`mcp_server.py:145`): whoever is first
  decides which error the harness sees. The time that an operator takes to approve
  counts for the relay and not for the client.
* The lines of the journal that are not made by `describeCommand` (approval requests, file
  paths, error texts) are not sanitised, nor are, in those that are, the tool's name and the
  request's id (`commanddetail.go:37-44`), contrary to `commanddetail.go:33`. `OneFaithfulLine` is
  about the text of the command.
* The panel may hold other events than the log after an eviction, and in another order
  (`PanelFollowsLog` bounds the difference), although `gui.go:381` says "bounded exactly like".
* At exit a command still running may keep the directory from being removed, and outlives
  the client (`Clean` allows `dir = "left"`: the error of the removal is ignored).
* The backoff doubles at every lost connection and is not reset by a session that worked
  (`main.go:286`); it is capped at 30 s.
* A one-use token is checked at the handshake and consumed at the register
  (`app.py:229`): two connections opened in between both get a session. A client whose token
  was consumed keeps retrying.
* `dispatch_command` ends with an audit append (`broker.py:340`); when it raises, the caller
  sees that error in place of the result. A kill of an expired session that is still in the
  table reports success (`session_store.py:222`).

## 5. Proofs

Each invariant is proved as `Init => Inv`, `Inv /\ [Next]_vars => Inv'`, with one step per
action, from the named assumption of its module, and for any value of the constants.

* `RelayProofs` (markers are not a connection and not a code; `MaxChunks` is natural).
  `TypeCorrect`: `TypeOK` is inductive by itself; its conjunct that a pending request has a
  target is what the later proofs need. `StoreAgrees` (`NoStaleRecord`) and `CodesAreKept`
  (`Routed`): neither is inductive alone; `StoreInv` has both and `NothingToLose`, that a
  handler that has not been given a code has not lost it. `WakeupsKept` (`NoLostWakeup`) and
  `KillWakesAll` (`KilledAreWoken`): both from `WakeInv`, that a pending request of a dead
  connection has the sentinel in its queue; it is inductive only with `NoStaleRecord`: a
  dispatch starts on a connection that is not dead *because* records belong to running handlers.
  In the same module, `ClosedIsSilent`; `OutputIsComplete` (`CompleteOutput`), from
  `OutputInv`, which counts what was sent, queued and yielded; and `ServiceIsImplemented`:
  `Relay` refines `CommandService`, step by step; a step of the relay that queues the first
  result, or the sentinel, is the step that fixes a verdict, whatever is taken later.
* `StoreProofs` (`Period < TTL`). `LeaseInv`: a record is that of a client that has neither
  left nor been killed, runs at least from that client's last heartbeat, and at most from the last
  of a handler that was given the code (`RecordsOwned`); a client that keeps its period has one
  (`Punctual`). From it `HeartbeatsKeepAlive`; `LeaseHasItsHeartbeat` (`HeartbeatsProlong`: nothing
  but a heartbeat prolongs a lease, which no run checks); `ExpiredStaysExpired` (`NoRevival`), an
  action property, and `DirectoryIsImplemented`: `SessionStore` refines the directory that `Relay`
  extends.
* `PolicyAuditProofs`. `RateInv`: the timestamps are the end of the history, what was dropped
  is out of the window, and of `RateLimit + 1` consecutive commands the last comes a window
  after the first (`Spaced`). From it `WindowsAreBounded`, for windows that no check ended,
  and `RefusalsAreJustified`. `QuotaIsExact` (`QuotaCountsAllowed`) is about a single `check` and
  has no run.
  The log: `UnbrokenByCrashes` (`ChainUnbroken`), `LossesShow` (`LossIsDetected`),
  `EarlierLinesKept` (`KeptLinesVouch`) and `NextRecordShows` (`RelayVouches`), for a log of any
  length. `Verify` is that every line is
  `Sound`, by itself and against the `Tip` of those before it, which turns each step into a
  statement about one line. `AuditInv` adds to the first two that the head in memory is the tip of
  a file that is whole, and, of an edited one, that the file before the edit was whole and that what
  a relay running then has recorded continues its tip. Two files that verify have a tip in
  common only if they are the same up to there, since a tip holds all that it was computed from
  (`TipsDiffer`). What a restart resumes from need not be the last line, and an entry may join a
  torn one: then some line is not sound, and no later step makes it so.
* `GuardProofs`. `DialogsAskFirst`, from an invariant that gives each step of a command the
  answer it has; `AnswersAreSingle`, by counting, for any finite set of commands: the
  commands let through at lone prompts, and the approvals typed and not yet read, are no more than
  the approvals given (`Budget`).
* `TransferProofs` (sizes are natural, labels distinct). `WholeTarget` and `FailedIsUnseen`, from
  `WriteInv`: only finished writes can be named (`Visible`), a finished one was synced before
  (`Kept`, the order of lines 253 and 274 of `filetransfer.go`), and no write goes into the
  original inode (`Untouched`). `OneVersionRead` and `CompleteRead`, from `ReadInv`: a file that is
  being read is one that the path has named and that no writer touches again, so it only grows,
  and what the hasher was given stays a piece of it (`Hashed`); a reader that stopped on a short
  read had reached the end of some version (`Ended`); as long as the connection lasts, what the
  aggregator has and what is under way are together, in order, what the hasher was given
  (`Sending`), and a loss only cuts their end (`InFlight`); so an answer is a piece of a version
  that stood under the path, with its hash, and marked truncated only where more of that version
  follows (`Answered`).
* `ProcessProofs`. `ResultComesLast`: once a result is sent, and before a process starts,
  no pump can send (`Silent`). `SuccessIsTruthful`: the caller reports once `Wait` is done;
  then the process has been reaped and its watcher disarmed, so neither its status nor
  `hit` changes after the success was read off them (`SuccessInv`).
  `OutputComesInOrder` (`OutputInPlace`), from `PrefixInv`: as long as the pump of a stream works,
  what was sent, what the pump holds and what is in the pipe follow one another and are all that was
  written; a message puts its bytes, or their replacements, in place and leaves what was sent
  before as it was (`Placed`).
  `DeadlinesFit`: arithmetic, one case per limit that may apply. `LinesAreFaithful`: after `i`
  characters of the text, the copy is the legible part of those, and its two pending marks say
  what stood in the gap since the last legible one (`Copying`); truncation comes after, in the
  code and in the property. `ArgumentsArrive`, for any list of words and of styles of quoting
  that can express them: `Run` gives the splitter's state after each character of a text, and
  `Occurs` says where in the text a part stands. A quoted character, wherever it occurs, is
  taken (`PieceIsTaken`); hence so is a word (`WordIsTaken`), a quoted word between two
  arguments is read as one (`QuoteIsRead`), and the whole line as the list (`LineIsRead`). Both
  are inductions over the text.
* `ClientProofs`. `KillFinal`; `ExitIsClean` (`CleanExit`, the safety part of `StopsClean`: it
  excepts, as that does, a process ended by a panic of another goroutine than main's);
  `StatusIsTruthful`: the last call queued is always the one due. `DeadlineTolerates`
  (`HeartbeatSuffices`) assumes `HeartbeatInterval * (Tolerated + 1) < ReadTimeout`, which the
  constants of `wsconn.go` satisfy for the two missed acknowledgements that it names (and for
  three, not for four).
  The journal: `RowsArePanel` (`PanelIsFiltered`), `OrderIsKept` (`OwnOrder`) and `PanelIsFresh`
  (`PanelFollowsLog`), for a finite set of goroutines and any capacity. `Lines`: in the log and in
  the panel with its queue, the events of a goroutine are in order, none is missing up to its last,
  and the backlog comes first; events of different goroutines may be in another order in each.
  `KeepsUp`: what was logged after an event of `g` is in the panel after the earlier
  events of `g`, or is owed to it by a goroutine that has logged it and not notified.
  `Evicted`: the event that leaves the log has, then, a full ring of events that follow, or
  will follow, in the panel, and these push the earlier ones of `g` out; as
  long as one event of the backlog is left, no other has gone (`Backlog`). With `Counted`, that
  the log is as long as the panel and what is due to it allow, nothing is left when all is quiet
  but the events that overtook one another, at most one of each other goroutine.
* `SequenceLemmas` has no assumptions. The library's induction theorems take an operator, which
  the provers cannot instantiate. `SetInduction` takes the *set* of the numbers for which a
  statement holds, and follows from the well-foundedness of `<`. From it, that the function that
  a recursion describes exists (`RecursionExists`), and what `FlattenSeq` yields on a sequence
  that is empty, appended to, or concatenated step by step (`FlattenByParts`).

Only model-checked: `AbortedEnds`, `KillCloses`, `AnswerComes`, `CommandsStop`, `KeepsTrying`
and `StopsClean`, since liveness is outside the prover's reach (the safety part of `StopsClean`
is `ExitIsClean`); and the three properties that the code violates.

## 6. What is left

In the order of what it would add: the one-use tokens between handshake and register,
composed with `Relay`; an approval that takes time, in the deadlines of both sides; the
descendants of a command on Windows (`proc_windows.go`); the dispatch's final audit append
as a step of its own.

## 7. Not modelled

JWT signing and checking, token command line, HMAC derivation of the code, system
information, GUI widgets besides the status, the panel and the dialogs, packaging: no state
that interleaves. The one-use tokens: three single steps on a dictionary under a lock; the
gap between two of them in `app.py` is stated above, and a model would restate it. The processes
of Windows (`proc_windows.go`). The tools' scopes and the aggregation of streams in `mcp_server.py`.
The removal of the client's binary (`cleanup_binary.go`), the length of the backoff and
file modes. Cryptography is assumed (no hash collisions, no guessed codes or tokens). Regular
expressions of the command policy and of `IsDestructive` are one bit each.
