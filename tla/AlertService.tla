---------------------------- MODULE AlertService ----------------------------
(***************************************************************************)
(* alert_service.process_vehicle, run by the background chain of every     *)
(* ping and by /alerts/{id}/refresh.  A chain reads the conflict report of *)
(* its vehicle, takes each conflict through the engine against the alert   *)
(* stored for the pair, resolves the pairs that were active and are not    *)
(* reported any more, and rewrites the vehicle's set of active pairs.      *)
(*                                                                         *)
(* Every Redis command is an await: chains interleave between any two, and *)
(* nothing keeps two chains of one vehicle apart.  Both vehicles of a pair *)
(* work on the one record of the pair.                                     *)
(***************************************************************************)
EXTENDS AlertEngine, FiniteSets

CONSTANTS
  Vehicles,
  Chains,      \* the background tasks and requests that may run at once
  Assessments, \* the conflicts the collision detector may find
  Budgets      \* a behaviour has no more events of each kind than one of these

Events == {"assess", "forget", "expire", "fail"}

\* pair_key: the canonical key of a pair is the pair itself.
Pairs == {{v, w} : v, w \in Vehicles} \ {{v} : v \in Vehicles}
PairsOf(v) == {p \in Pairs : v \in p}

\* A conflict report keeps no conflict of risk NONE: that stands for "not in
\* the report".
NotFound == [risk |-> "NONE", ttc |-> NoTtc]
Empty == [p \in Pairs |-> NotFound]
Reports == [Pairs -> Assessments \union {NotFound}]
ReportsOf(v) == {r \in Reports : \A p \in Pairs \ PairsOf(v) : r[p] = NotFound}
Listed(r) == {p \in Pairs : r[p] # NotFound}

ASSUME AlertAssumption ==
  /\ Assessments \subseteq {c \in Conflict : c.risk # "NONE"}
  /\ Budgets \subseteq [Events -> Nat]

VARIABLES
  cached,   \* the vehicles whose conflict report is cached, collision:{v}
  report,   \* the cached report of each vehicle, Empty if there is none
  alert,    \* alert:{pair}
  active,   \* alert:active_pairs:{v}
  lasting,  \* the vehicles whose set of active pairs has no expiry
  chain,    \* what each chain is doing
  ids,      \* conflict ids made so far
  said,     \* the last notification about each pair
  happened  \* events so far

vars == <<cached, report, alert, active, lasting, chain, ids, said, happened>>

-----------------------------------------------------------------------------
Idle == [pc |-> "idle"]
Busy == {"conflicts", "gone", "store", "notify", "add", "expire"}
NoPair == {}

\* A running chain: vehicle, report read, conflicts and formerly active pairs
\* still to do, and the pair in hand with its new alert.
Work == [pc : Busy, v : Vehicles, found : Reports, todo : SUBSET Pairs,
         gone : SUBSET Pairs, pair : Pairs \union {NoPair},
         alert : Alert \union {NoAlert}]

TypeOK ==
  /\ cached \in SUBSET Vehicles
  /\ report \in [Vehicles -> Reports]
  /\ alert \in [Pairs -> Alert \union {NoAlert}]
  /\ active \in [Vehicles -> SUBSET Pairs]
  /\ lasting \in SUBSET Vehicles
  /\ chain \in [Chains -> Work \union {Idle}]
  /\ ids \in Nat
  /\ said \in [Pairs -> Alert \union {NoAlert}]
  /\ happened \in [Events -> Nat]

Happens(event) ==
  /\ happened' = [happened EXCEPT ![event] = @ + 1]
  /\ \E b \in Budgets : \A e \in Events : happened'[e] <= b[e]

Running(c) == chain[c].pc # "idle"
Step(c, r) == chain' = [chain EXCEPT ![c] = r]
Found(c) == Listed(chain[c].found)

-----------------------------------------------------------------------------
\* collision_service.compute_and_store, by this vehicle's pipeline or by a
\* request: any set of conflicts with the vehicles nearby.
Assess(v) ==
  /\ Happens("assess")
  /\ \E r \in ReportsOf(v) : report' = [report EXCEPT ![v] = r]
  /\ cached' = cached \union {v}
  /\ UNCHANGED <<alert, active, lasting, chain, ids, said>>

\* The report is older than COLLISION_TTL_S.
ForgetReport(v) ==
  /\ v \in cached
  /\ Happens("forget")
  /\ cached' = cached \ {v}
  /\ report' = [report EXCEPT ![v] = Empty]
  /\ UNCHANGED <<alert, active, lasting, chain, ids, said>>

\* Mutant of Begin: only the pairs not yet active are evaluated.
BeginWithNewPairs(c, v) ==
  /\ ~Running(c)
  /\ \E r \in ReportsOf(v) :
       /\ v \in cached => r = report[v]
       /\ report' = [report EXCEPT ![v] = r]
       /\ Step(c, [pc |-> "conflicts", v |-> v, found |-> r,
                   todo |-> Listed(r) \ active[v],
                   gone |-> {}, pair |-> NoPair, alert |-> NoAlert])
  /\ cached' = cached \union {v}
  /\ UNCHANGED <<alert, active, lasting, ids, said, happened>>

\* get_conflicts: the cached report, or a new one.
Begin(c, v) ==
  /\ ~Running(c)
  /\ \E r \in ReportsOf(v) :
       /\ v \in cached => r = report[v]
       /\ report' = [report EXCEPT ![v] = r]
       /\ Step(c, [pc |-> "conflicts", v |-> v, found |-> r, todo |-> Listed(r),
                   gone |-> {}, pair |-> NoPair, alert |-> NoAlert])
  /\ cached' = cached \union {v}
  /\ UNCHANGED <<alert, active, lasting, ids, said, happened>>

\* Mutant of LoadAlert: one new id for all conflicts of a call.
LoadAlertOneId(c) ==
  LET new == IF chain[c].todo = Found(c) THEN ids + 1 ELSE ids
  IN  /\ chain[c].pc = "conflicts"
      /\ \E p \in chain[c].todo :
           /\ Step(c, [chain[c] EXCEPT
                !.pc = "store", !.todo = @ \ {p}, !.pair = p,
                !.alert = Evaluate(chain[c].found[p], alert[p], new)])
           /\ ids' = IF WasActive(alert[p]) THEN ids ELSE new
      /\ UNCHANGED <<cached, report, alert, active, lasting, said, happened>>

\* _load_alert and evaluate, for one conflict of the report.
LoadAlert(c) ==
  /\ chain[c].pc = "conflicts"
  /\ \E p \in chain[c].todo :
       /\ Step(c, [chain[c] EXCEPT
            !.pc = "store", !.todo = @ \ {p}, !.pair = p,
            !.alert = Evaluate(chain[c].found[p], alert[p], ids + 1)])
       /\ ids' = IF WasActive(alert[p]) THEN ids ELSE ids + 1
  /\ UNCHANGED <<cached, report, alert, active, lasting, said, happened>>

\* Mutant of ReadActive: a chain without conflicts has nothing to do.
ReadActiveOfConflicts(c) ==
  /\ chain[c].pc = "conflicts" /\ chain[c].todo = {}
  /\ Step(c, IF Found(c) = {} THEN Idle
             ELSE [chain[c] EXCEPT !.pc = "gone",
                                   !.gone = active[chain[c].v] \ Found(c)])
  /\ UNCHANGED <<cached, report, alert, active, lasting, ids, said, happened>>

\* smembers, after the last conflict.
ReadActive(c) ==
  /\ chain[c].pc = "conflicts" /\ chain[c].todo = {}
  /\ Step(c, [chain[c] EXCEPT !.pc = "gone",
                              !.gone = active[chain[c].v] \ Found(c)])
  /\ UNCHANGED <<cached, report, alert, active, lasting, ids, said, happened>>

\* _load_alert and resolve, for a pair that is not reported any more.
LoadGone(c) ==
  /\ chain[c].pc = "gone"
  /\ \E p \in chain[c].gone :
       Step(c, IF WasActive(alert[p])
               THEN [chain[c] EXCEPT !.pc = "store", !.gone = @ \ {p},
                                     !.pair = p, !.alert = Resolve(alert[p])]
               ELSE [chain[c] EXCEPT !.gone = @ \ {p}])
  /\ UNCHANGED <<cached, report, alert, active, lasting, ids, said, happened>>

StoreAlert(c) ==
  /\ chain[c].pc = "store"
  /\ alert' = [alert EXCEPT ![chain[c].pair] = chain[c].alert]
  /\ Step(c, [chain[c] EXCEPT !.pc = "notify"])
  /\ UNCHANGED <<cached, report, active, lasting, ids, said, happened>>

\* Mutant of Notify: only what gets worse is told.
NotifyWorse(c) ==
  LET p == chain[c].pair
      a == chain[c].alert
  IN  /\ chain[c].pc = "notify"
      /\ said' = IF a.transition \in {"NEW", "ESCALATED"}
                 THEN [said EXCEPT ![p] = a] ELSE said
      /\ Step(c, [chain[c] EXCEPT
                    !.pc = IF p \in Found(c) THEN "conflicts" ELSE "gone",
                    !.pair = NoPair, !.alert = NoAlert])
      /\ UNCHANGED <<cached, report, alert, active, lasting, ids, happened>>

\* _notify_if_changed: an unchanged alert is not told.
Notify(c) ==
  LET p == chain[c].pair
      a == chain[c].alert
  IN  /\ chain[c].pc = "notify"
      /\ said' = IF a.transition = "UNCHANGED" THEN said
                 ELSE [said EXCEPT ![p] = a]
      /\ Step(c, [chain[c] EXCEPT
                    !.pc = IF p \in Found(c) THEN "conflicts" ELSE "gone",
                    !.pair = NoPair, !.alert = NoAlert])
      /\ UNCHANGED <<cached, report, alert, active, lasting, ids, happened>>

\* r.delete(active_key) ...
ClearActive(c) ==
  /\ chain[c].pc = "gone" /\ chain[c].gone = {}
  /\ active' = [active EXCEPT ![chain[c].v] = {}]
  /\ lasting' = lasting \ {chain[c].v}
  /\ Step(c, IF Found(c) = {} THEN Idle ELSE [chain[c] EXCEPT !.pc = "add"])
  /\ UNCHANGED <<cached, report, alert, ids, said, happened>>

\* Mutant of AddActive: r.expire comes first, when the key is not there.
AddActiveLast(c) ==
  LET v == chain[c].v
  IN  /\ chain[c].pc = "add"
      /\ active' = [active EXCEPT ![v] = @ \union Found(c)]
      /\ lasting' = IF active[v] = {} THEN lasting \union {v} ELSE lasting
      /\ Step(c, Idle)
      /\ UNCHANGED <<cached, report, alert, ids, said, happened>>

\* ... r.sadd of the pairs of this report; a key that is there keeps its expiry
AddActive(c) ==
  LET v == chain[c].v
  IN  /\ chain[c].pc = "add"
      /\ active' = [active EXCEPT ![v] = @ \union Found(c)]
      /\ lasting' = IF active[v] = {} THEN lasting \union {v} ELSE lasting
      /\ Step(c, [chain[c] EXCEPT !.pc = "expire"])
      /\ UNCHANGED <<cached, report, alert, ids, said, happened>>

\* ... and r.expire, in commands of their own.
LetExpire(c) ==
  /\ chain[c].pc = "expire"
  /\ lasting' = lasting \ {chain[c].v}
  /\ Step(c, Idle)
  /\ UNCHANGED <<cached, report, alert, active, ids, said, happened>>

\* A Redis command raises, or the API process stops: the chain is over.
FailChain(c) ==
  /\ Running(c)
  /\ Happens("fail")
  /\ Step(c, Idle)
  /\ UNCHANGED <<cached, report, alert, active, lasting, ids, said>>

\* Mutant of ExpireAlert: only the record of a resolved alert gets an expiry.
ExpireResolved(p) ==
  /\ alert[p].status = "RESOLVED"
  /\ Happens("expire")
  /\ alert' = [alert EXCEPT ![p] = NoAlert]
  /\ UNCHANGED <<cached, report, active, lasting, chain, ids, said>>

\* ALERT_TTL_S and ALERT_ACTIVE_PAIRS_TTL_S.
ExpireAlert(p) ==
  /\ alert[p] # NoAlert
  /\ Happens("expire")
  /\ alert' = [alert EXCEPT ![p] = NoAlert]
  /\ UNCHANGED <<cached, report, active, lasting, chain, ids, said>>

ExpireActive(v) ==
  /\ active[v] # {} /\ v \notin lasting
  /\ Happens("expire")
  /\ active' = [active EXCEPT ![v] = {}]
  /\ UNCHANGED <<cached, report, alert, lasting, chain, ids, said>>

-----------------------------------------------------------------------------
Init ==
  /\ cached = {}
  /\ report = [v \in Vehicles |-> Empty]
  /\ alert = [p \in Pairs |-> NoAlert]
  /\ active = [v \in Vehicles |-> {}]
  /\ lasting = {}
  /\ chain = [c \in Chains |-> Idle]
  /\ ids = 0
  /\ said = [p \in Pairs |-> NoAlert]
  /\ happened = [e \in Events |-> 0]

Proceed(c) ==
  \/ LoadAlert(c) \/ ReadActive(c) \/ LoadGone(c) \/ StoreAlert(c)
  \/ Notify(c) \/ ClearActive(c) \/ AddActive(c) \/ LetExpire(c)

Next ==
  \/ \E v \in Vehicles : Assess(v) \/ ForgetReport(v) \/ ExpireActive(v)
  \/ \E p \in Pairs : ExpireAlert(p)
  \/ \E c \in Chains : Proceed(c) \/ FailChain(c)
  \/ \E c \in Chains : \E v \in Vehicles : Begin(c, v)

Spec == Init /\ [][Next]_vars

\* A chain that started goes on, every vehicle keeps pinging, and a record that
\* is not written any more expires.
Written(p) == \E c \in Chains : StoreAlert(c) /\ chain[c].pair = p

Fairness ==
  /\ \A c \in Chains : WF_vars(Proceed(c))
  /\ \A v \in Vehicles : SF_vars(\E c \in Chains : Begin(c, v))
  /\ \A p \in Pairs : WF_vars(ExpireAlert(p) \/ Written(p))

FairSpec == Spec /\ Fairness

-----------------------------------------------------------------------------
(***************************************************************************)
(* One chain at a time: the lifecycle of alerts/models.py.                 *)
(***************************************************************************)
Pending(p) ==
  {c \in Chains : /\ chain[c].pc = "notify" /\ chain[c].pair = p
                  /\ chain[c].alert.transition # "UNCHANGED"}

Heard(p) ==
  IF Pending(p) = {} THEN said[p]
  ELSE chain[CHOOSE c \in Pending(p) : TRUE].alert

Unstored ==
  {c \in Chains : chain[c].pc = "store" /\ chain[c].alert.transition = "NEW"}

Lifecycle == INSTANCE AlertLifecycle WITH
  conflict <- [p \in Pairs |->
                 IF WasActive(alert[p])
                 THEN [id |-> alert[p].id, level |-> alert[p].level]
                 ELSE [id |-> 0, level |-> "SAFE"]],
  told <- [p \in Pairs |-> [id |-> Heard(p).id, level |-> Heard(p).level,
                            transition |-> Heard(p).transition]],
  ids <- ids - Cardinality(Unstored)

\* As long as chains run one after the other and nothing expires, the service
\* does what AlertLifecycle says: each conflict of a pair has one id, appears
\* once, is told when its level changes and only then, and ends once.  Chains that
\* overlap may announce one conflict twice, or bring a resolved one back.
LifecycleSpec == Lifecycle!Spec

\* The alert a fleet view shows for an id is the last thing told about it, so
\* a driver's device and the dashboard agree when no chain is running.
ViewsAgree ==
  (\A c \in Chains : ~Running(c)) =>
    \A p \in Pairs : WasActive(alert[p]) =>
      said[p].id = alert[p].id /\ said[p].level = alert[p].level

(***************************************************************************)
(* Any chains at once, of one vehicle or of several.                       *)
(***************************************************************************)
\* The fleet view shows one alert for each conflict id: it leaves no active
\* alert out, and no message about a pair names the conflict of another one,
\* since no id is ever shared by two pairs, however their chains interleave.
NamesOf(p) == {alert[p].id, said[p].id} \ {NoAlert.id}

OneConflictPerId ==
  \A p, q \in Pairs : p # q => NamesOf(p) \cap NamesOf(q) = {}

\* A set of active pairs that would stay for ever is about to get its expiry, or
\* a chain has failed between sadd and expire.
SetsExpire ==
  happened["fail"] = 0 =>
    \A v \in lasting : \E c \in Chains : chain[c].pc = "expire" /\ chain[c].v = v

\* "either way the alert shouldn't linger forever": once no vehicle of a pair
\* reports it any more its alert ends, also when overlapping chains have left it
\* in no active set; unless the behaviour has no expiry left.
Reporting(v, p) == p \in Listed(report[v])
Unreported(p) == \A v \in p : v \in cached /\ ~Reporting(v, p)

MayExpire ==
  \E b \in Budgets :
    \A e \in Events : happened[e] + (IF e = "expire" THEN 1 ELSE 0) <= b[e]

AlertsEnd ==
  \A p \in Pairs :
    <>[]Unreported(p) => <>[](MayExpire => ~WasActive(alert[p]))

\* The chains end it themselves, without any expiry, as long as none of them
\* fails and no two of one vehicle overlap; those of different vehicles may.
OnePerVehicle ==
  \A c, d \in Chains : Running(c) /\ Running(d) /\ chain[c].v = chain[d].v => c = d

Undisturbed == happened["fail"] = 0 /\ happened["expire"] = 0

ChainsEndAlerts ==
  [](Undisturbed /\ OnePerVehicle) =>
    \A p \in Pairs : <>[]Unreported(p) => <>[]~WasActive(alert[p])

\* Both vehicles report the pair for good: its alert is active for good, with
\* a level one of the reports gives, whatever overlapped, failed or expired.
AlertFollows ==
  \A p \in Pairs :
    <>[](\A v \in p : Reporting(v, p)) =>
      <>[](/\ WasActive(alert[p])
           /\ \E v \in p : alert[p].level = ClassifyLevel(report[v][p]))
==============================================================================
