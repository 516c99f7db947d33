--------------------------- MODULE SettingsTables ---------------------------
(***************************************************************************)
(* The two tables the API itself fills: cluster_config, a single row made  *)
(* by its first reader, and rejection_reasons, seeded when the API starts  *)
(* and added to by POST.  Both look for a row, await, and insert it if     *)
(* there was none; only the first has a key that refuses a second row.     *)
(***************************************************************************)
EXTENDS Integers, FiniteSets, Sequences

CONSTANTS
  Clients,     \* requests that may be served at once
  MaxSettings, \* how many there are in a behaviour
  MaxStarts,   \* how often the API starts in one
  Radii,       \* the radii that are put
  Default,     \* the radius of a new row
  Seeds,       \* SEED_REASONS: codes, each of one detection type
  Custom       \* codes a client may think of

Codes == Seeds \union Custom
NoRow == -1

ASSUME SettingsAssumption ==
  /\ Default \in Nat /\ Radii \subseteq Nat
  /\ Seeds \cap Custom = {}
  /\ IsFiniteSet(Clients) /\ Clients # {}
  /\ MaxSettings \in Nat /\ MaxStarts \in Nat

VARIABLES
  up,         \* the API has started
  radius,     \* cluster_config.radius_m, NoRow if there is no row
  reasons,    \* reasons[c]: rows of rejection_reasons with this code
  racers,     \* racers[c]: POSTs of c past the check when its first row went in
  client,     \* what each request is doing
  put,        \* put[n]: the radius of the n-th PUT
  answered,   \* PUTs that are answered
  superseded, \* PUTs that were answered before another one of these started
  quota       \* requests and starts left

settingsVars == <<up, radius, reasons, racers, client, put, answered, superseded, quota>>

\* A request for the radius knows the radius its session holds, and a PUT its
\* number, 0 otherwise, and the PUTs answered before it.
Waiting == [pc |-> "waiting"]
ConfigRequest == [pc : {"create", "refresh", "write"}, held : Radii \union {Default, NoRow},
                  n : Nat, before : SUBSET Nat]
ReasonRequest == [pc : {"insert"}, code : Codes]

SettingsTypeOK ==
  /\ up \in BOOLEAN
  /\ radius \in Radii \union {Default, NoRow}
  /\ reasons \in [Codes -> Nat] /\ racers \in [Codes -> Nat]
  /\ client \in [Clients -> ConfigRequest \union ReasonRequest \union {Waiting}]
  /\ put \in Seq(Radii)
  /\ answered \subseteq DOMAIN put /\ superseded \subseteq answered
  /\ quota \in [{"requests", "starts"} -> Nat]

Spend(kind) == quota[kind] > 0 /\ quota' = [quota EXCEPT ![kind] = @ - 1]
GoOn(q, work) == client' = [client EXCEPT ![q] = work]

-----------------------------------------------------------------------------
\* lifespan and _seed_rejection_reasons, one transaction before any request is
\* served: scalar_one_or_none raises if a code is there twice.
Start ==
  /\ ~up /\ Spend("starts")
  /\ \A c \in Seeds : reasons[c] <= 1
  /\ up' = TRUE
  /\ reasons' = [c \in Codes |-> IF c \in Seeds THEN 1 ELSE reasons[c]]
  /\ UNCHANGED <<radius, racers, client, put, answered, superseded>>

\* The process ends, and its requests with it.
Stop ==
  /\ up /\ quota["starts"] > 0
  /\ up' = FALSE
  /\ client' = [q \in Clients |-> Waiting]
  /\ UNCHANGED <<radius, reasons, racers, put, answered, superseded, quota>>

-----------------------------------------------------------------------------
Ready(q) == up /\ client[q] = Waiting /\ Spend("requests")

\* _get_or_create finds the row or not; a GET that finds it only reads.
Ask(q, n) ==
  GoOn(q, [pc |-> IF radius = NoRow THEN "create" ELSE "write",
           held |-> radius, n |-> n, before |-> answered])

GetRadius(q) ==
  /\ Ready(q) /\ radius = NoRow
  /\ Ask(q, 0)
  /\ UNCHANGED <<up, radius, reasons, racers, put, answered, superseded>>

PutRadius(q, v) ==
  /\ Ready(q)
  /\ put' = Append(put, v)
  /\ Ask(q, Len(put) + 1)
  /\ UNCHANGED <<up, radius, reasons, racers, answered, superseded>>

\* Mutant of CreateRow: the new row replaces one that is there.
CreateOrReplaceRow(q) ==
  /\ client[q].pc = "create"
  /\ radius' = Default
  /\ GoOn(q, [client[q] EXCEPT !.pc = "refresh"])
  /\ UNCHANGED <<up, reasons, racers, put, answered, superseded, quota>>

\* The INSERT of the default; the primary key refuses a second row.
CreateRow(q) ==
  /\ client[q].pc = "create" /\ radius = NoRow
  /\ radius' = Default
  /\ GoOn(q, [client[q] EXCEPT !.pc = "refresh"])
  /\ UNCHANGED <<up, reasons, racers, put, answered, superseded, quota>>

Refresh(q) ==
  /\ client[q].pc = "refresh"
  /\ GoOn(q, IF client[q].n = 0 THEN Waiting
             ELSE [client[q] EXCEPT !.pc = "write", !.held = radius])
  /\ UNCHANGED <<up, radius, reasons, racers, put, answered, superseded, quota>>

\* set_cluster_config: no UPDATE if the session holds this radius.
WriteRadius(q) ==
  LET c == client[q]
  IN  /\ c.pc = "write"
      /\ radius' = IF put[c.n] = c.held THEN radius ELSE put[c.n]
      /\ answered' = answered \union {c.n}
      /\ superseded' = superseded \union c.before
      /\ GoOn(q, Waiting)
      /\ UNCHANGED <<up, reasons, racers, put, quota>>

-----------------------------------------------------------------------------
\* Mutants of PostReason: no check; a check of the custom reasons.
PostReasonUnchecked(q, c) ==
  /\ Ready(q)
  /\ GoOn(q, [pc |-> "insert", code |-> c])
  /\ UNCHANGED <<up, radius, reasons, racers, put, answered, superseded>>
PostReasonIfNotCustom(q, c) ==
  /\ Ready(q) /\ (c \in Custom => reasons[c] = 0)
  /\ GoOn(q, [pc |-> "insert", code |-> c])
  /\ UNCHANGED <<up, radius, reasons, racers, put, answered, superseded>>

\* create_reason, if the code is new: one row is a 409, two raise.
PostReason(q, c) ==
  /\ Ready(q) /\ reasons[c] = 0
  /\ GoOn(q, [pc |-> "insert", code |-> c])
  /\ UNCHANGED <<up, radius, reasons, racers, put, answered, superseded>>

\* Who is past the check of a code and has yet to insert it.
Inserting(c) == {q \in Clients : client[q].pc = "insert" /\ client[q].code = c}

InsertReason(q) ==
  LET c == client[q].code
  IN  /\ client[q].pc = "insert"
      /\ reasons' = [reasons EXCEPT ![c] = @ + 1]
      /\ racers' = [racers EXCEPT ![c] = IF reasons[c] = 0 THEN Cardinality(Inserting(c)) ELSE @]
  /\ GoOn(q, Waiting)
  /\ UNCHANGED <<up, radius, put, answered, superseded, quota>>

\* The row is there by now, or the database fails.
FailSetting(q) ==
  /\ client[q] # Waiting
  /\ GoOn(q, Waiting)
  /\ UNCHANGED <<up, radius, reasons, racers, put, answered, superseded, quota>>

-----------------------------------------------------------------------------
\* The migration may have made the row.
SettingsInit ==
  /\ up = FALSE
  /\ radius \in {NoRow, Default}
  /\ reasons = [c \in Codes |-> 0] /\ racers = [c \in Codes |-> 0]
  /\ client = [q \in Clients |-> Waiting]
  /\ put = << >>
  /\ answered = {} /\ superseded = {}
  /\ quota = [k \in {"requests", "starts"} |->
                IF k = "starts" THEN MaxStarts ELSE MaxSettings]

SettingsNext ==
  \/ Start \/ Stop
  \/ \E q \in Clients :
       \/ GetRadius(q) \/ CreateRow(q) \/ Refresh(q) \/ WriteRadius(q)
       \/ InsertReason(q) \/ FailSetting(q)
       \/ \E v \in Radii : PutRadius(q, v)
       \/ \E c \in Codes : PostReason(q, c)

SettingsSpec == SettingsInit /\ [][SettingsNext]_settingsVars

-----------------------------------------------------------------------------
\* set_cluster_config: the radius is that of a PUT no later PUT has answered
\* for; the default of a reader that found no row never takes its place, and a
\* PUT that had nothing to write gives way only to one that overlapped it.
LastPutStands ==
  radius \in {put[n] : n \in DOMAIN put \ superseded}
             \union (IF answered = {} THEN {NoRow, Default} ELSE {})

\* create_reason means to "prevent duplicate codes per type" (rejection_reasons.py:56),
\* which no key does for it.  A code is there twice only if requests overlapped: each
\* row is of one that had found none when the first row went in, or is that row; one
\* that comes later never repeats it.
OverlapBoundsDuplicates == \A c \in Custom : reasons[c] <= racers[c]

\* The API can always start again: a code it looks for there is never twice.
SeedsAreUnique == \A c \in Seeds : reasons[c] <= 1
-----------------------------------------------------------------------------
(***************************************************************************)
(* Why they hold: the inductive invariant the proofs use.                  *)
(***************************************************************************)
Configuring(q) == client[q].pc \in {"create", "refresh", "write"}
Putting(q) == Configuring(q) /\ client[q].n # 0

\* A PUT is answered once, after the ones it knows of; one that has read the
\* row found a row, and one that has not knows of none.
PutsInOrder ==
  /\ up \/ \A q \in Clients : client[q] = Waiting
  /\ \A q \in Clients : client[q].pc = "write" => client[q].n # 0
  /\ \A q \in Clients : Configuring(q) =>
       /\ client[q].before \subseteq answered
       /\ client[q].pc \in {"create", "refresh"} => client[q].before = {}
       /\ client[q].pc \in {"refresh", "write"} => radius # NoRow
  /\ \A q \in Clients : Putting(q) => client[q].n \in DOMAIN put \ answered
  /\ \A p, q \in Clients : Putting(p) /\ Putting(q) /\ p # q => client[p].n # client[q].n

\* The radius was put by w, and whoever started later has read it; or nothing
\* was put yet.
WrittenBy(w) ==
  /\ w \in answered \ superseded /\ radius = put[w]
  /\ \A q \in Clients :
       client[q].pc = "write" /\ w \in client[q].before => client[q].held = radius

NothingPut ==
  /\ answered = {} /\ radius \in {NoRow, Default}
  /\ \A q \in Clients : client[q].pc = "write" => client[q].held = radius

RadiusHasAuthor == NothingPut \/ \E w \in DOMAIN put : WrittenBy(w)

\* While the API is up the seeds are there, and nobody is about to add one.
SeedsInPlace ==
  \A c \in Seeds :
    /\ up => reasons[c] = 1
    /\ Inserting(c) = {}

\* Whoever is about to repeat a code is one of those the first insert met.
DuplicatesToCome ==
  \A c \in Custom : reasons[c] = 0 \/ reasons[c] + Cardinality(Inserting(c)) <= racers[c]

SettingsInv ==
  /\ SettingsTypeOK /\ PutsInOrder /\ RadiusHasAuthor
  /\ SeedsAreUnique /\ SeedsInPlace /\ DuplicatesToCome
=============================================================================
