-------------------------- MODULE HistoricalImport --------------------------
(***************************************************************************)
(* historical_service.import_events over the Ymane source, as the periodic *)
(* task sync_ymane_events and POST /historical/import run it.              *)
(*                                                                         *)
(* An import is a session of its own: what it adds is inserted at the next *)
(* SELECT (autoflush) or at the commit.  An INSERT that PostgreSQL refuses *)
(* rolls the transaction back, and the session refuses everything until it *)
(* is closed.  An INSERT of a key that another transaction has inserted    *)
(* waits until that one is over (UNIQUE(source, source_event_id)).         *)
(*                                                                         *)
(* The events of Ymane are the positions of the sequence ymane, in the     *)
(* order of their exceptionid.                                             *)
(***************************************************************************)
EXTENDS Integers, Sequences, FiniteSets

CONSTANTS
  Children,     \* processes of the Celery worker
  Requests,     \* requests of the API that import
  Bodies,       \* sequences of events a manual import may hold
  LastDay,      \* bound of the clock
  MaxEvents,    \* bound of what Ymane holds
  PageSize,     \* _PAGE_SIZE
  MaxFailures,  \* HISTORICAL_YMANE_SYNC_MAX_CONSECUTIVE_FAILURES
  MaxFaults     \* bound of the number of faults

Faults == {"bad", "late", "refuse", "crash", "restart", "api"}

ASSUME Actors == Children \cap Requests = {}
ASSUME Bounds ==
  /\ LastDay \in Nat /\ MaxEvents \in Nat
  /\ PageSize \in Nat \ {0} /\ MaxFailures \in Nat \ {0}
  /\ Bodies \subseteq Seq(1..MaxEvents)
  /\ MaxFaults \in Nat

VARIABLES
  today,     \* the date
  ymane,     \* the exceptions Ymane holds
  rows,      \* how many committed rows each key has
  failures,  \* historical:ymane:consecutive_failures
  stuck,     \* children whose Redis client belongs to a closed event loop
  run,       \* the import of each child and request
  since,     \* the first day the first sync asked for
  faults     \* what has gone wrong

vars == <<today, ymane, rows, failures, stuck, run, since, faults>>

Runs == Children \union Requests
Ids == 1..MaxEvents
Days == 0..LastDay

\* What a record is to _map_raw_event_fields and to PostgreSQL: no startgps; a
\* startdatetime fromtimestamp refuses; coordinates without a grid cell; a
\* value no column takes; no exceptionid; none of these.
Kinds == {"no_gps", "bad_time", "unmatchable", "unstorable", "anonymous", "good"}
Exceptions == [kind : Kinds, day : Days]

\* (source, source_event_id): a record without exceptionid gets a hash that is
\* salted per interpreter.
Keys == [event : Ids, salt : {"none", "api", "worker"}]

Key(r, e) ==
  [event |-> e,
   salt |-> CASE ymane[e].kind # "anonymous" -> "none"
              [] r \in Children -> "worker"
              [] OTHER -> "api"]

Stored == {k \in Keys : rows[k] > 0}
StoredEvents == {k.event : k \in Stored}

Idle == [pc |-> "idle", from |-> 0, to |-> 0, last |-> 0, asked |-> {},
         events |-> <<>>, pending |-> {}, flushed |-> {}]

PCs == {"idle", "checkpoint", "login", "page", "retry", "refused", "import",
        "reset"}
Syncing == {"login", "page", "retry", "import"}

\* An import: the range it asks for; the cursor of the pages; what Ymane had
\* when it logged in; the events to go; what add() left for the next flush;
\* what the transaction inserted.
Imports == [pc : PCs, from : Int, to : Int, last : Nat, asked : SUBSET Ids,
            events : Seq(Ids), pending : SUBSET Keys, flushed : SUBSET Keys]

Step(r, w) == run' = [run EXCEPT ![r] = w]
GoTo(r, pc) == Step(r, [run[r] EXCEPT !.pc = pc])

\* Each fault at most once, and MaxFaults of them besides a restart.
Suffer(f) ==
  /\ f \notin faults /\ Cardinality((faults \union {f}) \ {"restart"}) <= MaxFaults
  /\ faults' = faults \union {f}

\* The coroutine of r ends.  In a child loop.close() follows, and the
\* module-wide Redis client keeps the connections of the closed loop.
Over(r) ==
  /\ Step(r, Idle)
  /\ stuck' = IF r \in Children THEN stuck \union {r} ELSE stuck

-----------------------------------------------------------------------------
(***************************************************************************)
(* sync_ymane_events up to import_events, and the route.                   *)
(***************************************************************************)
\* The circuit is open.  (In a stuck child redis_client.get raises: nothing
\* happens.)
SkipSync(c) ==
  /\ run[c].pc = "idle" /\ c \notin stuck
  /\ failures >= MaxFailures
  /\ Over(c)
  /\ UNCHANGED <<today, ymane, rows, failures, since, faults>>

StartSync(c) ==
  /\ run[c].pc = "idle" /\ c \notin stuck
  /\ failures < MaxFailures
  /\ GoTo(c, "checkpoint")
  /\ UNCHANGED <<today, ymane, rows, failures, stuck, since, faults>>

\* Mutant of LastSynced: a day that was synced is not asked for again.
LastSyncedNext(day) ==
  IF StoredEvents = {} THEN day = today - 1
  ELSE /\ \E e \in StoredEvents : ymane[e].day = day - 1
       /\ \A e \in StoredEvents : ymane[e].day < day

\* max(occurred_at), or 24 hours ago.
LastSynced(day) ==
  IF StoredEvents = {} THEN day = today - 1
  ELSE /\ \E e \in StoredEvents : ymane[e].day = day
       /\ \A e \in StoredEvents : ymane[e].day <= day

Checkpoint(c) ==
  /\ run[c].pc = "checkpoint"
  /\ \E from \in -1..LastDay :
       /\ LastSynced(from)
       /\ Step(c, [run[c] EXCEPT !.pc = "login", !.from = from, !.to = today])
  /\ UNCHANGED <<today, ymane, rows, failures, stuck, since, faults>>

\* POST /historical/import, source "ymane": any range, and no circuit breaker.
RequestYmane(q, from, to) ==
  /\ run[q].pc = "idle" /\ from <= to
  /\ Suffer("api")
  /\ Step(q, [Idle EXCEPT !.pc = "login", !.from = from, !.to = to])
  /\ UNCHANGED <<today, ymane, rows, failures, stuck, since>>

\* ... source "manual", of events whose own source is "ymane".
RequestManual(q, body) ==
  /\ run[q].pc = "idle"
  /\ \A i \in DOMAIN body : /\ body[i] \in DOMAIN ymane
                            /\ ymane[body[i]].kind \in {"good", "unstorable"}
  /\ Suffer("api")
  /\ Step(q, [Idle EXCEPT !.pc = "import", !.events = body])
  /\ UNCHANGED <<today, ymane, rows, failures, stuck, since>>

-----------------------------------------------------------------------------
(***************************************************************************)
(* YmaneEventSource.fetch.                                                 *)
(***************************************************************************)
InRange(r) == {e \in DOMAIN ymane : ymane[e].day \in run[r].from..run[r].to}

Login(r) ==
  /\ run[r].pc = "login"
  /\ Step(r, [run[r] EXCEPT
       !.pc = "page", !.asked = IF r \in Children THEN InRange(r) ELSE {}])
  /\ UNCHANGED <<today, ymane, rows, failures, stuck, since, faults>>

\* Ymane's answer: the next exceptions of the range by their id.
Rest(r) == {e \in InRange(r) : e > run[r].last}
Page(r) == {e \in Rest(r) : Cardinality({f \in Rest(r) : f < e}) < PageSize}
HasMore(r) == Page(r) # Rest(r)

\* What _map_raw_event_fields makes of a page.
Mapped(r) == {e \in Page(r) : ymane[e].kind # "no_gps"}
Readable(r) == \A e \in Page(r) : ymane[e].kind # "bad_time"

InOrder(S) == {s \in [1..Cardinality(S) -> S] :
                 \A i, j \in DOMAIN s : i < j => s[i] < s[j]}

\* Mutant of Cursor: the id after the last one.
CursorSkips(r, e) == e + 1

\* page[-1].exceptionid, or last_id + len(page).
Cursor(r, e) ==
  IF ymane[e].kind = "anonymous" THEN run[r].last + Cardinality(Page(r)) ELSE e

Asks(r) == run[r].pc \in {"page", "retry"} /\ Readable(r)

FetchPage(r) ==
  /\ Asks(r) /\ HasMore(r)
  /\ \E e \in Page(r), s \in InOrder(Mapped(r)) :
       /\ \A f \in Page(r) : f <= e
       /\ Step(r, [run[r] EXCEPT !.pc = "page", !.last = Cursor(r, e),
                                 !.events = @ \o s])
  /\ UNCHANGED <<today, ymane, rows, failures, stuck, since, faults>>

FetchLastPage(r) ==
  /\ Asks(r) /\ ~HasMore(r)
  /\ \E s \in InOrder(Mapped(r)) :
       Step(r, [run[r] EXCEPT !.pc = "import", !.last = 0, !.events = @ \o s])
  /\ UNCHANGED <<today, ymane, rows, failures, stuck, since, faults>>

\* datetime.fromtimestamp raises out of fetch, and nobody catches it.
FetchRaises(r) ==
  /\ run[r].pc \in {"page", "retry"} /\ ~Readable(r)
  /\ Over(r)
  /\ UNCHANGED <<today, ymane, rows, failures, since, faults>>

\* A page fails: one fresh login, one more try.
RetryPage(r) ==
  /\ run[r].pc = "page"
  /\ Suffer("refuse")
  /\ GoTo(r, "retry")
  /\ UNCHANGED <<today, ymane, rows, failures, stuck, since>>

\* A login or a second try fails: YmaneAuthError, YmaneRequestError.
Refuse(r) ==
  /\ run[r].pc \in {"login", "retry"}
  /\ Suffer("refuse")
  /\ Step(r, IF r \in Children THEN [Idle EXCEPT !.pc = "refused"] ELSE Idle)
  /\ UNCHANGED <<today, ymane, rows, failures, stuck, since>>

CountFailure(c) ==
  /\ run[c].pc = "refused"
  /\ failures' = failures + 1
  /\ Over(c)
  /\ UNCHANGED <<today, ymane, rows, since, faults>>

-----------------------------------------------------------------------------
(***************************************************************************)
(* import_events: one transaction.                                         *)
(***************************************************************************)
\* The INSERT of r would wait for the transaction of s.
WaitsFor(r, s) == s # r /\ run[r].pending \cap run[s].flushed # {}
Waits(r) == \E s \in Runs : WaitsFor(r, s)

\* Mutant of Rejected: a table without the unique constraint.
RejectedUnlessStorable(r) ==
  \E k \in run[r].pending : ymane[k.event].kind = "unstorable"

Rejected(r) ==
  \E k \in run[r].pending : k \in Stored \/ ymane[k.event].kind = "unstorable"

Importing(r) == run[r].pc = "import"

\* The SELECT or the commit inserts what is pending.
Flush(r) ==
  /\ Importing(r) /\ run[r].pending # {}
  /\ ~Waits(r) /\ ~Rejected(r)
  /\ Step(r, [run[r] EXCEPT !.flushed = @ \union run[r].pending,
                            !.pending = {}])
  /\ UNCHANGED <<today, ymane, rows, failures, stuck, since, faults>>

\* PostgreSQL refuses the row, or ends a deadlock: the transaction is rolled
\* back, each further SELECT raises into the errors, and the commit raises.
Deadlocked(r) ==
  \E S \in SUBSET Runs : r \in S /\ \A s \in S : \E t \in S : WaitsFor(s, t)

LoseBatch(r) ==
  /\ Importing(r) /\ run[r].pending # {}
  /\ (Rejected(r) /\ ~Waits(r)) \/ Deadlocked(r)
  /\ Over(r)
  /\ UNCHANGED <<today, ymane, rows, failures, since, faults>>

\* The SELECT finds the key, or match_event raises, or the row is added.
ImportEvent(r) ==
  /\ Importing(r) /\ run[r].pending = {} /\ run[r].events # <<>>
  /\ LET e == Head(run[r].events)
         k == Key(r, e)
         new == k \notin Stored \union run[r].flushed
     IN Step(r, [run[r] EXCEPT
          !.events = Tail(@),
          !.pending = IF new /\ ymane[e].kind # "unmatchable" THEN {k} ELSE {}])
  /\ UNCHANGED <<today, ymane, rows, failures, stuck, since, faults>>

Commit(r) ==
  /\ Importing(r) /\ run[r].pending = {} /\ run[r].events = <<>>
  /\ rows' = [k \in Keys |-> IF k \in run[r].flushed THEN rows[k] + 1 ELSE rows[k]]
  /\ since' = IF Stored = {} /\ run[r].flushed # {} THEN run[r].from ELSE since
  /\ IF r \in Children THEN Step(r, [Idle EXCEPT !.pc = "reset",
                                                 !.asked = run[r].asked])
                       ELSE Step(r, Idle)
  /\ UNCHANGED <<today, ymane, failures, stuck, faults>>

\* redis_client.delete.
ResetCounter(c) ==
  /\ run[c].pc = "reset"
  /\ failures' = 0
  /\ Over(c)
  /\ UNCHANGED <<today, ymane, rows, since, faults>>

-----------------------------------------------------------------------------
(***************************************************************************)
(* The world.                                                              *)
(***************************************************************************)
\* A command to Redis or PostgreSQL raises, or the process dies.
Crash(r) ==
  /\ run[r].pc # "idle"
  /\ Suffer("crash")
  /\ Step(r, Idle)
  /\ stuck' \in IF r \in Children THEN {stuck \union {r}, stuck} ELSE {stuck}
  /\ UNCHANGED <<today, ymane, rows, failures, since>>

\* The worker container starts again: no child has a Redis client yet.
Restart ==
  /\ stuck # {} /\ \A c \in Children : run[c].pc = "idle"
  /\ Suffer("restart")
  /\ stuck' = {}
  /\ UNCHANGED <<today, ymane, rows, failures, run, since>>

\* DEL of the key, by hand.
CloseCircuit ==
  /\ failures >= MaxFailures
  /\ failures' = 0
  /\ UNCHANGED <<today, ymane, rows, stuck, run, since, faults>>

\* A vehicle reports an exception on its day; late ones and odd ones are
\* bounded.
Post(kind, day) ==
  /\ Len(ymane) < MaxEvents
  /\ ymane' = Append(ymane, [kind |-> kind, day |-> day])
  /\ CASE day < today /\ kind = "good" -> Suffer("late")
       [] day = today /\ kind # "good" -> Suffer("bad")
       [] day = today /\ kind = "good" -> UNCHANGED faults
       [] OTHER -> FALSE
  /\ UNCHANGED <<today, rows, failures, stuck, run, since>>

\* A sync that began before a midnight is over before the next one.
Midnight ==
  /\ today < LastDay
  /\ \A c \in Children : run[c].pc \in Syncing => run[c].to = today
  /\ today' = today + 1
  /\ UNCHANGED <<ymane, rows, failures, stuck, run, since, faults>>

-----------------------------------------------------------------------------
Init ==
  /\ today = 0
  /\ ymane = <<>>
  /\ rows = [k \in Keys |-> 0]
  /\ failures = 0
  /\ stuck = {}
  /\ run = [r \in Runs |-> Idle]
  /\ since = LastDay
  /\ faults = {}

Proceed(r) ==
  \/ Login(r) \/ FetchPage(r) \/ FetchLastPage(r) \/ FetchRaises(r)
  \/ Flush(r) \/ LoseBatch(r) \/ ImportEvent(r) \/ Commit(r)

ProceedSync(c) == Checkpoint(c) \/ CountFailure(c) \/ ResetCounter(c)

Next ==
  \/ \E c \in Children : SkipSync(c) \/ StartSync(c) \/ ProceedSync(c)
  \/ \E r \in Runs : Proceed(r) \/ RetryPage(r) \/ Refuse(r) \/ Crash(r)
  \/ \E q \in Requests, from, to \in Days : RequestYmane(q, from, to)
  \/ \E q \in Requests, body \in Bodies : RequestManual(q, body)
  \/ \E kind \in Kinds, day \in Days : Post(kind, day)
  \/ Restart
  \/ CloseCircuit
  \/ Midnight

Spec == Init /\ [][Next]_vars

-----------------------------------------------------------------------------
(***************************************************************************)
(* Properties.                                                             *)
(***************************************************************************)
TypeOK ==
  /\ today \in Days
  /\ ymane \in Seq(Exceptions) /\ Len(ymane) <= MaxEvents
  /\ rows \in [Keys -> Nat]
  /\ failures \in Nat
  /\ stuck \subseteq Children
  /\ run \in [Runs -> Imports]
  /\ since \in Int
  /\ faults \subseteq Faults

\* No event is stored twice under its key, whatever imports overlap, crash and
\* start again: the SELECT and the unique constraint cover for each other.
NothingTwice == \A k \in Keys : rows[k] <= 1

\* When a sync reaches the point where it forgets the failures, everything
\* that Ymane had for its range when it logged in is stored, page by page,
\* except what has no place to be stored at.
Locatable(e) == ymane[e].kind \notin {"no_gps", "unmatchable"}

SyncedIsStored ==
  \A c \in Children : run[c].pc = "reset" =>
    \A e \in run[c].asked : Locatable(e) => e \in StoredEvents

\* The checkpoint hides nothing: since the first sync there is no event before
\* the latest stored one, which the syncs start from, that they have not
\* stored and will never ask for again.  Nothing but the syncs stored events,
\* and none came late.
Undisturbed == faults \intersect {"late", "api"} = {}

NoGaps ==
  Undisturbed =>
    \A e \in DOMAIN ymane :
      /\ Locatable(e)
      /\ ymane[e].day >= since
      /\ \E f \in StoredEvents : ymane[f].day > ymane[e].day
      => e \in StoredEvents
==============================================================================
