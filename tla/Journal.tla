------------------------------- MODULE Journal -------------------------------
(***************************************************************************)
(* The activity journal (client/activitylog.go) and the panel of the window*)
(* that mirrors it (client/gui.go).  The goroutines of the commands append *)
(* to the log under its mutex, then notify its subscriber outside of it;   *)
(* the subscriber queues a call for the interface's goroutine, which alone *)
(* touches the panel.                                                      *)
(***************************************************************************)
EXTENDS Naturals, SequencesExt, FiniteSetsExt

CONSTANTS Goroutine,   \* those that emit events
          MaxEvents,   \* bound on the events of one
          MaxBacklog,  \* bound on the events logged before the window is built
          Capacity     \* activityLogCapacity

ASSUME JournalAssumption ==
  /\ {MaxEvents, Capacity} \subseteq Nat \ {0} /\ MaxBacklog \in Nat
  /\ IsFiniteSet(Goroutine) /\ Goroutine # {} /\ Goroutine \cap {"main", "nobody"} = {}

VARIABLES log,        \* ActivityLog.events
          built,      \* the window: "no", "seeded", "subscribed"
          emitted,    \* events so far of each goroutine
          due,        \* the event that a goroutine has logged and not notified
          queued,     \* calls of appendLogEvent queued with fyne.Do
          panel,      \* logEvents
          shown,      \* logShown
          commandsOnly

journalVars == <<log, built, emitted, due, queued, panel, shown, commandsOnly>>
view == <<panel, shown, commandsOnly>>

Kind == {"command", "result"}
Event(by, n, kind) == [by |-> by, n |-> n, kind |-> kind]
None == Event("nobody", 0, "none")

\* The oldest events beyond the capacity go.
Bounded(events) == IF Len(events) > Capacity
                   THEN SubSeq(events, Len(events) - Capacity + 1, Len(events)) ELSE events

\* NewActivityLog; there may be a backlog before the window is built.
JournalInit ==
  /\ \E n \in 0..MaxBacklog : log = Bounded([i \in 1..n |-> Event("main", i, "command")])
  /\ built = "no"
  /\ emitted = [g \in Goroutine |-> 0] /\ due = [g \in Goroutine |-> None]
  /\ queued = <<>> /\ panel = <<>> /\ shown = <<>> /\ commandsOnly = FALSE

Rows(e, only) == IF only /\ e.kind # "command" THEN <<>> ELSE <<e>>
Filtered(events, only) == FlattenSeq([i \in DOMAIN events |-> Rows(events[i], only)])

\* build: the panel is seeded from Events(), then subscribed.
Seed ==
  /\ built = "no" /\ built' = "seeded"
  /\ panel' = log /\ shown' = Filtered(log, commandsOnly)
  /\ UNCHANGED <<log, emitted, due, queued, commandsOnly>>

Subscribe ==
  /\ built = "seeded" /\ built' = "subscribed"
  /\ UNCHANGED <<log, emitted, due, queued, view>>

\* Faulty variant, which the properties must reject: the connection is started first.
EmitsAtOnce(g, kind) ==
  /\ due[g] = None /\ emitted[g] < MaxEvents
  /\ emitted' = [emitted EXCEPT ![g] = @ + 1]
  /\ due' = [due EXCEPT ![g] = Event(g, emitted'[g], kind)]
  /\ log' = Bounded(Append(log, due'[g]))
  /\ UNCHANGED <<built, queued, view>>

\* Append, under the mutex; runUI starts the goroutines once the window is built.
Emits(g, kind) ==
  /\ built = "subscribed" /\ due[g] = None /\ emitted[g] < MaxEvents
  /\ emitted' = [emitted EXCEPT ![g] = @ + 1]
  /\ due' = [due EXCEPT ![g] = Event(g, emitted'[g], kind)]
  /\ log' = Bounded(Append(log, due'[g]))
  /\ UNCHANGED <<built, queued, view>>

\* Faulty variant, which the properties must reject: each notification on its own.
NotifyLater(g) ==
  /\ due[g] # None /\ due' = [due EXCEPT ![g] = None]
  /\ \E i \in 1..(Len(queued) + 1) : queued' = InsertAt(queued, i, due[g])
  /\ UNCHANGED <<log, built, emitted, view>>

\* notify, on the goroutine that appended, outside the mutex
Notify(g) ==
  /\ due[g] # None /\ due' = [due EXCEPT ![g] = None]
  /\ queued' = IF built = "subscribed" THEN Append(queued, due[g]) ELSE queued
  /\ UNCHANGED <<log, built, emitted, view>>

\* Faulty variant, which the properties must reject: an eviction leaves the rows alone.
AppendLogEventOnly ==
  /\ queued # <<>> /\ queued' = Tail(queued)
  /\ panel' = Bounded(Append(panel, Head(queued)))
  /\ shown' = shown \o Rows(Head(queued), commandsOnly)
  /\ UNCHANGED <<log, built, emitted, due, commandsOnly>>

\* appendLogEvent; an eviction rebuilds the rows.
AppendLogEvent ==
  /\ queued # <<>> /\ queued' = Tail(queued)
  /\ LET events == Append(panel, Head(queued)) IN
     /\ panel' = Bounded(events)
     /\ shown' = IF Len(events) > Capacity THEN Filtered(panel', commandsOnly)
                 ELSE shown \o Rows(Head(queued), commandsOnly)
  /\ UNCHANGED <<log, built, emitted, due, commandsOnly>>

\* The box "Commandes du harnais uniquement"; rebuildLogLines
Toggle ==
  /\ built # "no" /\ commandsOnly' = ~commandsOnly
  /\ shown' = Filtered(panel, commandsOnly')
  /\ UNCHANGED <<log, built, emitted, due, queued, panel>>

JournalNext ==
  \/ Seed \/ Subscribe \/ AppendLogEvent \/ Toggle
  \/ \E g \in Goroutine : Notify(g) \/ \E kind \in Kind : Emits(g, kind)

JournalSpec == JournalInit /\ [][JournalNext]_journalVars

-----------------------------------------------------------------------------
(* Properties                                                              *)

\* gui.go:403: the rows are the panel's events that the filter lets through, in order,
\* however evictions, arrivals and the box alternate; a row opens the event it shows.
PanelIsFiltered == shown = Filtered(panel, commandsOnly)

Consecutive(g, events) ==
  \A i, j \in DOMAIN events :
    /\ i < j /\ events[i].by = g /\ events[j].by = g
    /\ \A k \in (i + 1)..(j - 1) : events[k].by # g
    => events[j].n = events[i].n + 1

\* activitylog.go:157: what one goroutine reports appears in its order and without a gap,
\* in the log and in the panel, although the others' notifications overtake it.
OwnOrder == \A g \in Goroutine : Consecutive(g, log) /\ Consecutive(g, panel \o queued)

\* gui.go:381: when all is quiet the panel holds as many events as the log, and of those
\* it holds at most one for each other goroutine has already left the log.
Stale == ToSet(panel) \ ToSet(log)
PanelFollowsLog ==
  built = "subscribed" /\ queued = <<>> /\ (\A g \in Goroutine : due[g] = None) =>
    Len(panel) = Len(log) /\ Cardinality(Stale) < Cardinality(Goroutine)
=============================================================================
