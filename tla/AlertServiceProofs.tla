------------------------- MODULE AlertServiceProofs -------------------------
(***************************************************************************)
(* Proofs about AlertService, for any vehicles, chains and assessments.    *)
(***************************************************************************)
EXTENDS AlertService, FiniteSetTheorems, TLAPS

(***************************************************************************)
(* The engine.                                                             *)
(***************************************************************************)
LEMMA WorstIsWorse ==
  ASSUME NEW l \in Levels, NEW m \in Levels
  PROVE  /\ Worst(l, m) \in Levels
         /\ Severity[Worst(l, m)] >= Severity[l]
         /\ Severity[Worst(l, m)] >= Severity[m]
BY DEF Worst, Levels, Severity

LEMMA LevelsAreLevels ==
  ASSUME NEW c \in Conflict
  PROVE  /\ ClassifyLevel(c) \in Levels
         /\ RiskFloor[c.risk] \in Levels
         /\ TtcLevel(c.ttc) \in Levels
<1>1. RiskFloor[c.risk] \in Levels
  BY DEF Conflict, Risks, RiskFloor, Levels
<1>2. TtcLevel(c.ttc) \in Levels
  BY DEF TtcLevel, Levels
<1> QED
  BY <1>1, <1>2, WorstIsWorse DEF ClassifyLevel

\* engine.classify_level: the band of the time to closest approach never lowers
\* what the risk level calls for.
THEOREM NeverBelowTheFloor ==
  ASSUME NEW c \in Conflict
  PROVE  Severity[ClassifyLevel(c)] >= Severity[RiskFloor[c.risk]]
<1>1. Severity[RiskFloor[c.risk]] \in Int
  BY LevelsAreLevels DEF Levels, Severity
<1> QED
  BY <1>1, LevelsAreLevels, WorstIsWorse DEF ClassifyLevel

\* engine.classify_level: of two conflicts of one risk the one that is closer
\* in time has no lower level, across all bands.
THEOREM CloserIsNoBetter ==
  ASSUME TtcAssumption,
         NEW c \in Conflict, NEW d \in Conflict,
         c.risk = d.risk, d.ttc # NoTtc, c.ttc # NoTtc, d.ttc <= c.ttc
  PROVE  Severity[ClassifyLevel(d)] >= Severity[ClassifyLevel(c)]
<1>1. Severity[TtcLevel(d.ttc)] >= Severity[TtcLevel(c.ttc)]
  BY DEF TtcAssumption, Conflict, TtcLevel, Severity, NoTtc
<1>2. PICK l \in Levels : l = TtcLevel(c.ttc)
  BY LevelsAreLevels
<1>3. PICK k \in Levels : k = TtcLevel(d.ttc)
  BY LevelsAreLevels
<1>4. PICK f \in Levels : f = RiskFloor[c.risk]
  BY LevelsAreLevels
<1>5. Severity[Worst(k, f)] >= Severity[Worst(l, f)]
  BY <1>1, <1>2, <1>3 DEF Worst, Levels, Severity
<1>6. Severity[f] >= Severity[f]
  BY DEF Levels, Severity
<1> QED
  BY <1>2, <1>3, <1>4, <1>5, <1>6 DEF ClassifyLevel

LEMMA EvaluateType ==
  ASSUME NEW c \in Conflict, NEW previous \in Alert \union {NoAlert},
         NEW fresh \in Nat
  PROVE  Evaluate(c, previous, fresh) \in Alert
<1>1. ClassifyLevel(c) \in Levels
  BY LevelsAreLevels
<1>2. previous.id \in Nat
  BY DEF Alert, NoAlert
<1>3. Change(previous.level, ClassifyLevel(c)) \in Transitions
  BY DEF Change, Transitions
<1>4. c.ttc \in Nat \union {NoTtc}
  BY DEF Conflict
<1> QED
  BY <1>1, <1>2, <1>3, <1>4 DEF Evaluate, Alert, Transitions

LEMMA ResolveType ==
  ASSUME NEW previous \in Alert
  PROVE  /\ Resolve(previous) \in Alert
         /\ Resolve(previous).status = "RESOLVED"
BY DEF Resolve, Alert, Levels, Transitions

LEMMA ActiveIsAlert ==
  ASSUME NEW a \in Alert \union {NoAlert}, WasActive(a)
  PROVE  a \in Alert
BY DEF WasActive, NoAlert

(***************************************************************************)
(* Types.                                                                  *)
(***************************************************************************)
LEMMA ReportTypes ==
  ASSUME AlertAssumption, NEW v \in Vehicles, NEW r \in ReportsOf(v)
  PROVE  /\ r \in Reports
         /\ Listed(r) \subseteq Pairs
         /\ Listed(r) \subseteq PairsOf(v)
BY DEF ReportsOf, Listed, PairsOf

LEMMA ConflictType ==
  ASSUME AlertAssumption, NEW r \in Reports, NEW p \in Pairs
  PROVE  r[p] \in Conflict
BY DEF AlertAssumption, Reports, NotFound, Conflict, Risks

LEMMA HappensType ==
  ASSUME happened \in [Events -> Nat], NEW e \in Events, Happens(e)
  PROVE  happened' \in [Events -> Nat]
BY DEF Happens

LEMMA StepType ==
  ASSUME chain \in [Chains -> Work \union {Idle}], NEW c \in Chains,
         NEW r \in Work \union {Idle}, Step(c, r)
  PROVE  chain' \in [Chains -> Work \union {Idle}]
BY DEF Step

LEMMA BusyType ==
  ASSUME chain \in [Chains -> Work \union {Idle}], NEW c \in Chains,
         chain[c].pc \in Busy
  PROVE  chain[c] \in Work
BY DEF Work, Idle, Busy

LEMMA TypeInit ==
  ASSUME AlertAssumption, Init
  PROVE  TypeOK
<1>1. Empty \in Reports
  BY DEF Empty, Reports
<1> QED
  BY <1>1 DEF Init, TypeOK, AlertAssumption

LEMMA TypeStep ==
  ASSUME AlertAssumption, TypeOK, Next
  PROVE  TypeOK'
<1> USE DEF TypeOK
<1>1. ASSUME NEW v \in Vehicles, Assess(v) PROVE TypeOK'
  <2>1. happened' \in [Events -> Nat]
    BY <1>1, HappensType DEF Assess, Events
  <2>2. PICK r \in ReportsOf(v) : report' = [report EXCEPT ![v] = r]
    BY <1>1 DEF Assess
  <2> QED
    BY <1>1, <2>1, <2>2, ReportTypes DEF Assess
<1>2. ASSUME NEW v \in Vehicles, ForgetReport(v) PROVE TypeOK'
  <2>1. happened' \in [Events -> Nat]
    BY <1>2, HappensType DEF ForgetReport, Events
  <2>2. Empty \in Reports
    BY DEF Empty, Reports
  <2> QED
    BY <1>2, <2>1, <2>2 DEF ForgetReport
<1>3. ASSUME NEW v \in Vehicles, ExpireActive(v) PROVE TypeOK'
  <2>1. happened' \in [Events -> Nat]
    BY <1>3, HappensType DEF ExpireActive, Events
  <2> QED
    BY <1>3, <2>1 DEF ExpireActive
<1>4. ASSUME NEW p \in Pairs, ExpireAlert(p) PROVE TypeOK'
  <2>1. happened' \in [Events -> Nat]
    BY <1>4, HappensType DEF ExpireAlert, Events
  <2> QED
    BY <1>4, <2>1 DEF ExpireAlert
<1>5. ASSUME NEW c \in Chains, NEW v \in Vehicles, Begin(c, v) PROVE TypeOK'
  <2>1. PICK r \in ReportsOf(v) :
          /\ report' = [report EXCEPT ![v] = r]
          /\ Step(c, [pc |-> "conflicts", v |-> v, found |-> r, todo |-> Listed(r),
                      gone |-> {}, pair |-> NoPair, alert |-> NoAlert])
    BY <1>5 DEF Begin
  <2>2. [pc |-> "conflicts", v |-> v, found |-> r, todo |-> Listed(r),
         gone |-> {}, pair |-> NoPair, alert |-> NoAlert] \in Work
    BY ReportTypes DEF Work, Busy
  <2>3. chain' \in [Chains -> Work \union {Idle}]
    BY <2>1, <2>2, StepType
  <2> QED
    BY <1>5, <2>1, <2>3, ReportTypes DEF Begin
<1>6. ASSUME NEW c \in Chains, LoadAlert(c) PROVE TypeOK'
  <2>1. chain[c] \in Work
    BY <1>6, BusyType DEF LoadAlert, Busy
  <2>2. PICK p \in chain[c].todo :
          /\ Step(c, [chain[c] EXCEPT
               !.pc = "store", !.todo = @ \ {p}, !.pair = p,
               !.alert = Evaluate(chain[c].found[p], alert[p], ids + 1)])
          /\ ids' = IF WasActive(alert[p]) THEN ids ELSE ids + 1
    BY <1>6 DEF LoadAlert
  <2>3. p \in Pairs /\ chain[c].found[p] \in Conflict
    BY <2>1, ConflictType DEF Work
  <2> DEFINE new == Evaluate(chain[c].found[p], alert[p], ids + 1)
  <2>4. new \in Alert
    <3>1. alert[p] \in Alert \union {NoAlert} /\ ids + 1 \in Nat
      BY <2>3
    <3> QED
      BY <2>3, <3>1, EvaluateType
  <2> HIDE DEF new
  <2>5. [chain[c] EXCEPT !.pc = "store", !.todo = @ \ {p}, !.pair = p,
                         !.alert = new] \in Work
    BY <2>1, <2>3, <2>4 DEF Work, Busy
  <2>6. chain' \in [Chains -> Work \union {Idle}]
    BY <2>2, <2>5, StepType DEF new
  <2> QED
    BY <1>6, <2>2, <2>6 DEF LoadAlert
<1>7. ASSUME NEW c \in Chains, ReadActive(c) PROVE TypeOK'
  <2>1. chain[c] \in Work
    BY <1>7, BusyType DEF ReadActive, Busy
  <2>2. [chain[c] EXCEPT !.pc = "gone",
                         !.gone = active[chain[c].v] \ Found(c)] \in Work
    BY <2>1 DEF Work, Busy
  <2>3. chain' \in [Chains -> Work \union {Idle}]
    BY <1>7, <2>2, StepType DEF ReadActive
  <2> QED
    BY <1>7, <2>3 DEF ReadActive
<1>8. ASSUME NEW c \in Chains, LoadGone(c) PROVE TypeOK'
  <2>1. chain[c] \in Work
    BY <1>8, BusyType DEF LoadGone, Busy
  <2>2. PICK p \in chain[c].gone :
          Step(c, IF WasActive(alert[p])
                  THEN [chain[c] EXCEPT !.pc = "store", !.gone = @ \ {p},
                                        !.pair = p, !.alert = Resolve(alert[p])]
                  ELSE [chain[c] EXCEPT !.gone = @ \ {p}])
    BY <1>8 DEF LoadGone
  <2>3. p \in Pairs
    BY <2>1 DEF Work
  <2>4. WasActive(alert[p]) => Resolve(alert[p]) \in Alert
    BY <2>3, ResolveType, ActiveIsAlert
  <2>5. (IF WasActive(alert[p])
         THEN [chain[c] EXCEPT !.pc = "store", !.gone = @ \ {p},
                               !.pair = p, !.alert = Resolve(alert[p])]
         ELSE [chain[c] EXCEPT !.gone = @ \ {p}]) \in Work
    BY <2>1, <2>3, <2>4 DEF Work, Busy
  <2>6. chain' \in [Chains -> Work \union {Idle}]
    BY <2>2, <2>5, StepType
  <2> QED
    BY <1>8, <2>6 DEF LoadGone
<1>9. ASSUME NEW c \in Chains, StoreAlert(c) PROVE TypeOK'
  <2>1. chain[c] \in Work
    BY <1>9, BusyType DEF StoreAlert, Busy
  <2>2. [chain[c] EXCEPT !.pc = "notify"] \in Work
    BY <2>1 DEF Work, Busy
  <2>3. chain' \in [Chains -> Work \union {Idle}]
    BY <1>9, <2>2, StepType DEF StoreAlert
  <2>4. chain[c].alert \in Alert \union {NoAlert}
    BY <2>1 DEF Work
  <2> QED
    BY <1>9, <2>3, <2>4 DEF StoreAlert
<1>10. ASSUME NEW c \in Chains, Notify(c) PROVE TypeOK'
  <2>1. chain[c] \in Work
    BY <1>10, BusyType DEF Notify, Busy
  <2>2. [chain[c] EXCEPT
           !.pc = IF chain[c].pair \in Found(c) THEN "conflicts" ELSE "gone",
           !.pair = NoPair, !.alert = NoAlert] \in Work
    BY <2>1 DEF Work, Busy
  <2>3. chain' \in [Chains -> Work \union {Idle}]
    BY <1>10, <2>2, StepType DEF Notify
  <2>4. chain[c].alert \in Alert \union {NoAlert}
    BY <2>1 DEF Work
  <2>5. said' \in [Pairs -> Alert \union {NoAlert}]
    BY <1>10, <2>4 DEF Notify
  <2> QED
    BY <1>10, <2>3, <2>5 DEF Notify
<1>11. ASSUME NEW c \in Chains, ClearActive(c) PROVE TypeOK'
  <2>1. chain[c] \in Work
    BY <1>11, BusyType DEF ClearActive, Busy
  <2>2. [chain[c] EXCEPT !.pc = "add"] \in Work
    BY <2>1 DEF Work, Busy
  <2>3. chain' \in [Chains -> Work \union {Idle}]
    BY <1>11, <2>2, StepType DEF ClearActive
  <2> QED
    BY <1>11, <2>3 DEF ClearActive
<1>12. ASSUME NEW c \in Chains, AddActive(c) PROVE TypeOK'
  <2>1. chain[c] \in Work
    BY <1>12, BusyType DEF AddActive, Busy
  <2>2. [chain[c] EXCEPT !.pc = "expire"] \in Work
    BY <2>1 DEF Work, Busy
  <2>3. chain' \in [Chains -> Work \union {Idle}]
    BY <1>12, <2>2, StepType DEF AddActive
  <2>4. Found(c) \subseteq Pairs /\ chain[c].v \in Vehicles
    BY <2>1 DEF Found, Listed, Work
  <2> QED
    BY <1>12, <2>3, <2>4 DEF AddActive
<1>14. ASSUME NEW c \in Chains, LetExpire(c) PROVE TypeOK'
  <2>1. chain' \in [Chains -> Work \union {Idle}]
    BY <1>14, StepType DEF LetExpire
  <2> QED
    BY <1>14, <2>1 DEF LetExpire
<1>13. ASSUME NEW c \in Chains, FailChain(c) PROVE TypeOK'
  <2>1. chain' \in [Chains -> Work \union {Idle}]
    BY <1>13, StepType DEF FailChain
  <2>2. happened' \in [Events -> Nat]
    BY <1>13, HappensType DEF FailChain, Events
  <2> QED
    BY <1>13, <2>1, <2>2 DEF FailChain
<1> QED
  BY <1>1, <1>2, <1>3, <1>4, <1>5, <1>6, <1>7, <1>8, <1>9, <1>10, <1>11,
     <1>12, <1>13, <1>14 DEF Next, Proceed

\* Every variable keeps its type, in any fleet.
THEOREM TypeCorrect ==
  ASSUME AlertAssumption
  PROVE  Spec => []TypeOK
<1>1. Init => TypeOK
  BY TypeInit
<1>2. TypeOK /\ [Next]_vars => TypeOK'
  BY TypeStep DEF vars, TypeOK
<1> QED
  BY <1>1, <1>2, PTL DEF Spec

(***************************************************************************)
(* The sets of active pairs.                                               *)
(***************************************************************************)
SetInv == TypeOK /\ SetsExpire

LEMMA SetStep ==
  ASSUME AlertAssumption, SetInv, Next
  PROVE  SetsExpire'
<1> USE DEF SetInv
<1> SUFFICES ASSUME happened'["fail"] = 0, NEW v \in lasting'
             PROVE  \E c \in Chains : chain'[c].pc = "expire" /\ chain'[c].v = v
  BY DEF SetsExpire
<1> DEFINE About(c) == chain[c].pc = "expire" /\ chain[c].v = v
<1>1. ASSUME NEW e \in Events, Happens(e)
      PROVE  e # "fail" /\ happened["fail"] = 0
  BY <1>1 DEF Happens, TypeOK, Events
<1>2. happened["fail"] = 0
  BY <1>1 DEF Next, Proceed, Assess, ForgetReport, Begin, LoadAlert, ReadActive,
     LoadGone, StoreAlert, Notify, ClearActive, AddActive, LetExpire, FailChain,
     ExpireAlert, ExpireActive, Events
<1>3. v \in lasting => \E c \in Chains : About(c)
  BY <1>2 DEF SetsExpire
<1>4. ASSUME NEW d \in Chains, NEW r, Step(d, r)
      PROVE  /\ chain'[d] = r
             /\ \A c \in Chains : c # d => chain'[c] = chain[c]
  BY <1>4 DEF Step, TypeOK
\* A step of a chain that is not about to expire the set.
<1>5. ASSUME NEW d \in Chains, NEW r, Step(d, r), lasting' \subseteq lasting,
             chain[d].pc # "expire"
      PROVE  \E c \in Chains : chain'[c].pc = "expire" /\ chain'[c].v = v
  BY <1>3, <1>4, <1>5
<1>6. CASE UNCHANGED <<chain, lasting>>
  BY <1>3, <1>6
<1>7. ASSUME NEW d \in Chains,
             (\E u \in Vehicles : Begin(d, u)) \/ LoadAlert(d) \/ ReadActive(d)
               \/ LoadGone(d) \/ StoreAlert(d) \/ Notify(d)
      PROVE  \E c \in Chains : chain'[c].pc = "expire" /\ chain'[c].v = v
  BY <1>5, <1>7 DEF Begin, Running, LoadAlert, ReadActive, LoadGone, StoreAlert, Notify
<1>8. ASSUME NEW d \in Chains, ClearActive(d)
      PROVE  \E c \in Chains : chain'[c].pc = "expire" /\ chain'[c].v = v
  BY <1>5, <1>8 DEF ClearActive
<1>9. ASSUME NEW d \in Chains, AddActive(d)
      PROVE  \E c \in Chains : chain'[c].pc = "expire" /\ chain'[c].v = v
  <2>1. chain[d] \in Work
    BY <1>9, BusyType DEF AddActive, Busy, TypeOK
  <2>2. /\ chain'[d] = [chain[d] EXCEPT !.pc = "expire"]
        /\ \A c \in Chains : c # d => chain'[c] = chain[c]
    BY <1>4, <1>9 DEF AddActive
  <2>3. chain'[d].pc = "expire" /\ chain'[d].v = chain[d].v
    BY <2>1, <2>2 DEF Work
  <2>4. v \in lasting \/ v = chain[d].v
    BY <1>9 DEF AddActive
  <2>5. CASE v = chain[d].v
    BY <2>3, <2>5
  <2>6. CASE v \in lasting
    BY <1>3, <1>9, <2>2, <2>6 DEF AddActive
  <2> QED
    BY <2>4, <2>5, <2>6
<1>10. ASSUME NEW d \in Chains, LetExpire(d)
       PROVE  \E c \in Chains : chain'[c].pc = "expire" /\ chain'[c].v = v
  <2>1. v \in lasting /\ v # chain[d].v
    BY <1>10 DEF LetExpire
  <2>2. \A c \in Chains : c # d => chain'[c] = chain[c]
    BY <1>4, <1>10 DEF LetExpire
  <2> QED
    BY <1>3, <2>1, <2>2
<1>11. ASSUME NEW d \in Chains, FailChain(d)
       PROVE  FALSE
  BY <1>1, <1>11 DEF FailChain, Events
<1> QED
  BY <1>6, <1>7, <1>8, <1>9, <1>10, <1>11 DEF Next, Proceed, Assess,
     ForgetReport, ExpireActive, ExpireAlert

\* alert_service.py:110-113: however the delete, sadd and expire of overlapping
\* chains interleave, a set of active pairs without an expiry has a chain that is
\* about to give it one, as long as no chain has failed.
THEOREM ActiveSetsExpire ==
  ASSUME AlertAssumption
  PROVE  Spec => []SetsExpire
<1>1. Init => SetInv
  BY TypeInit DEF Init, SetInv, SetsExpire
<1>2. SetInv /\ [Next]_vars => SetInv'
  BY SetStep, TypeStep DEF vars, TypeOK, SetInv, SetsExpire
<1> QED
  BY <1>1, <1>2, PTL DEF Spec, SetInv

(***************************************************************************)
(* The ids of conflicts.                                                   *)
(***************************************************************************)
\* The ids stored, told and in the hands of a chain for one pair.
Uses(p) ==
  {alert[p].id, said[p].id}
    \union {chain[c].alert.id : c \in {d \in Chains : Running(d) /\ chain[d].pair = p}}

\* No id has been made that is not counted, and none is used for two pairs.
IdInv ==
  /\ \A p \in Pairs : \A i \in Uses(p) : i \in 0 .. ids
  /\ \A p, q \in Pairs : p # q => Uses(p) \cap Uses(q) \subseteq {0}

ConflictInv == TypeOK /\ IdInv

\* A step that uses no id for a pair that was not used for it, or a new one for a
\* single pair, keeps them apart.
LEMMA NothingNew ==
  ASSUME ConflictInv, ids' = ids, \A p \in Pairs : Uses(p)' \subseteq Uses(p) \union {0}
  PROVE  IdInv'
<1>1. ids \in Nat
  BY DEF ConflictInv, TypeOK
<1> QED
  BY <1>1 DEF ConflictInv, IdInv

LEMMA OneIsNew ==
  ASSUME ConflictInv, ids' = ids + 1, NEW p \in Pairs,
         Uses(p)' \subseteq Uses(p) \union {0, ids + 1},
         \A q \in Pairs : q # p => Uses(q)' \subseteq Uses(q) \union {0}
  PROVE  IdInv'
<1>1. ids \in Nat
  BY DEF ConflictInv, TypeOK
<1>2. \A q \in Pairs : \A i \in Uses(q) : i \in 0 .. ids
  BY DEF ConflictInv, IdInv
<1>3. \A q \in Pairs : \A i \in Uses(q)' : i \in 0 .. (ids + 1)
  BY <1>1, <1>2
<1>4. \A q \in Pairs : ids + 1 \notin Uses(q)
  BY <1>1, <1>2
<1>5. ASSUME NEW q \in Pairs, NEW r \in Pairs, q # r
      PROVE  Uses(q)' \cap Uses(r)' \subseteq {0}
  <2>1. Uses(q) \cap Uses(r) \subseteq {0}
    BY <1>5 DEF ConflictInv, IdInv
  <2>2. CASE q = p
    BY <1>4, <1>5, <2>1, <2>2
  <2>3. CASE r = p
    BY <1>4, <1>5, <2>1, <2>3
  <2>4. CASE q # p /\ r # p
    BY <2>1, <2>4
  <2> QED
    BY <2>2, <2>3, <2>4
<1> QED
  BY <1>3, <1>5 DEF IdInv

\* What the step of one chain does to the ids in use.
LEMMA UsesOfStep ==
  ASSUME ConflictInv, NEW c \in Chains, NEW r, Step(c, r), NEW p \in Pairs,
         NEW new,
         r.pc # "idle" /\ r.pair = p => r.alert.id \in Uses(p) \union new,
         alert'[p].id \in Uses(p), said'[p].id \in Uses(p)
  PROVE  Uses(p)' \subseteq Uses(p) \union {0} \union new
<1>1. chain'[c] = r /\ \A d \in Chains : d # c => chain'[d] = chain[d]
  BY DEF Step, ConflictInv, TypeOK
<1>2. ASSUME NEW d \in Chains, chain'[d].pc # "idle", chain'[d].pair = p
      PROVE  chain'[d].alert.id \in Uses(p) \union new
  <2>1. CASE d = c
    BY <1>1, <1>2, <2>1
  <2>2. CASE d # c
    <3>1. Running(d) /\ chain[d].pair = p /\ chain'[d].alert.id = chain[d].alert.id
      BY <1>1, <1>2, <2>2 DEF Running
    <3> QED
      BY <3>1 DEF Uses
  <2> QED
    BY <2>1, <2>2
<1> QED
  BY <1>2 DEF Uses, Running

LEMMA InUse ==
  ASSUME NEW p \in Pairs
  PROVE  /\ alert[p].id \in Uses(p) /\ said[p].id \in Uses(p)
         /\ \A c \in Chains : Running(c) /\ chain[c].pair = p => chain[c].alert.id \in Uses(p)
BY DEF Uses

LEMMA NoPairIsNone ==
  NoPair \notin Pairs
BY DEF NoPair, Pairs

LEMMA IdsAreKept ==
  ASSUME AlertAssumption, ConflictInv, Next
  PROVE  IdInv'
<1>0. TypeOK
  BY DEF ConflictInv
<1>1. CASE UNCHANGED <<alert, chain, ids, said>>
  BY <1>1, NothingNew DEF Uses, Running
<1>2. ASSUME NEW p \in Pairs, ExpireAlert(p) PROVE IdInv'
  <2>1. alert' = [alert EXCEPT ![p] = NoAlert] /\ UNCHANGED <<chain, ids, said>>
    BY <1>2 DEF ExpireAlert
  <2>2. \A q \in Pairs : alert'[q].id \in {alert[q].id, 0}
    BY <1>0, <2>1 DEF TypeOK, NoAlert
  <2> QED
    BY <2>1, <2>2, NothingNew DEF Uses, Running
\* The step of a chain that goes on with the pair and alert it has, or with none.
<1>3. ASSUME NEW c \in Chains, NEW r, Step(c, r), ids' = ids,
             r.pc # "idle" =>
               r.pair = NoPair \/ (Running(c) /\ r.pair = chain[c].pair
                                              /\ r.alert = chain[c].alert),
             \A p \in Pairs : alert'[p].id \in Uses(p) /\ said'[p].id \in Uses(p)
      PROVE  IdInv'
  <2>1. ASSUME NEW p \in Pairs PROVE Uses(p)' \subseteq Uses(p) \union {0}
    <3>1. r.pc # "idle" /\ r.pair = p => r.alert.id \in Uses(p) \union {}
      BY <1>3, InUse, NoPairIsNone
    <3> QED
      BY <1>3, <3>1, UsesOfStep
  <2> QED
    BY <1>3, <2>1, NothingNew
<1>4. ASSUME NEW c \in Chains, NEW v \in Vehicles, Begin(c, v) PROVE IdInv'
  <2>1. PICK r \in ReportsOf(v) :
          Step(c, [pc |-> "conflicts", v |-> v, found |-> r, todo |-> Listed(r),
                   gone |-> {}, pair |-> NoPair, alert |-> NoAlert])
    BY <1>4 DEF Begin
  <2>2. UNCHANGED <<alert, said, ids>>
    BY <1>4 DEF Begin
  <2> QED
    BY <1>3, <2>1, <2>2, InUse
<1>5. ASSUME NEW c \in Chains,
             ReadActive(c) \/ ClearActive(c) \/ AddActive(c) \/ LetExpire(c) \/ FailChain(c)
      PROVE  IdInv'
  <2>1. Running(c) /\ UNCHANGED <<alert, said, ids>>
    BY <1>5 DEF Running, ReadActive, ClearActive, AddActive, LetExpire, FailChain
  <2>2. chain[c] \in Work
    BY <1>0, <2>1 DEF Running, TypeOK, Idle
  <2>3. PICK pc, gone : \/ Step(c, [chain[c] EXCEPT !.pc = pc, !.gone = gone])
                        \/ Step(c, [chain[c] EXCEPT !.pc = pc])
                        \/ Step(c, Idle)
    BY <1>5 DEF ReadActive, ClearActive, AddActive, LetExpire, FailChain
  <2>4. CASE Step(c, [chain[c] EXCEPT !.pc = pc, !.gone = gone])
    <3>1. /\ [chain[c] EXCEPT !.pc = pc, !.gone = gone].pair = chain[c].pair
          /\ [chain[c] EXCEPT !.pc = pc, !.gone = gone].alert = chain[c].alert
      BY <2>2 DEF Work
    <3> QED
      BY <1>3, <2>1, <2>4, <3>1, InUse
  <2>5. CASE Step(c, [chain[c] EXCEPT !.pc = pc])
    <3>1. /\ [chain[c] EXCEPT !.pc = pc].pair = chain[c].pair
          /\ [chain[c] EXCEPT !.pc = pc].alert = chain[c].alert
      BY <2>2 DEF Work
    <3> QED
      BY <1>3, <2>1, <2>5, <3>1, InUse
  <2>6. CASE Step(c, Idle)
    <3>1. Idle.pc = "idle"
      BY DEF Idle
    <3> QED
      BY <1>3, <2>1, <2>6, <3>1, InUse
  <2> QED
    BY <2>3, <2>4, <2>5, <2>6
<1>6. ASSUME NEW c \in Chains, LoadAlert(c) PROVE IdInv'
  <2>1. chain[c] \in Work
    BY <1>0, <1>6, BusyType DEF LoadAlert, Busy, TypeOK
  <2>2. PICK p \in chain[c].todo :
          /\ Step(c, [chain[c] EXCEPT
               !.pc = "store", !.todo = @ \ {p}, !.pair = p,
               !.alert = Evaluate(chain[c].found[p], alert[p], ids + 1)])
          /\ ids' = IF WasActive(alert[p]) THEN ids ELSE ids + 1
    BY <1>6 DEF LoadAlert
  <2> DEFINE new == Evaluate(chain[c].found[p], alert[p], ids + 1)
             r == [chain[c] EXCEPT !.pc = "store", !.todo = @ \ {p}, !.pair = p,
                                   !.alert = new]
  <2>3. p \in Pairs
    BY <2>1 DEF Work
  <2>4. new.id = IF WasActive(alert[p]) THEN alert[p].id ELSE ids + 1
    BY DEF Evaluate
  <2>5. UNCHANGED <<alert, said>>
    BY <1>6 DEF LoadAlert
  <2> HIDE DEF new
  <2>6. r.pair = p /\ r.alert = new
    BY <2>1 DEF Work
  <2>7. Step(c, r)
    BY <2>2 DEF new
  <2> HIDE DEF r
  <2>8. ASSUME NEW q \in Pairs, q # p PROVE Uses(q)' \subseteq Uses(q) \union {0}
    <3>1. r.pc # "idle" /\ r.pair = q => r.alert.id \in Uses(q) \union {}
      BY <2>6, <2>8
    <3> QED
      BY <2>5, <2>7, <3>1, InUse, UsesOfStep
  <2>9. CASE WasActive(alert[p])
    <3>1. r.pc # "idle" /\ r.pair = p => r.alert.id \in Uses(p) \union {}
      BY <2>3, <2>4, <2>6, <2>9, InUse
    <3>2. Uses(p)' \subseteq Uses(p) \union {0}
      BY <2>3, <2>5, <2>7, <3>1, InUse, UsesOfStep
    <3> QED
      BY <2>2, <2>8, <2>9, <3>2, NothingNew
  <2>10. CASE ~WasActive(alert[p])
    <3>1. r.pc # "idle" /\ r.pair = p => r.alert.id \in Uses(p) \union {ids + 1}
      BY <2>4, <2>6, <2>10
    <3>2. Uses(p)' \subseteq Uses(p) \union {0} \union {ids + 1}
      BY <2>3, <2>5, <2>7, <3>1, InUse, UsesOfStep
    <3>3. Uses(p)' \subseteq Uses(p) \union {0, ids + 1}
      BY <3>2
    <3> QED
      BY <2>2, <2>3, <2>8, <2>10, <3>3, OneIsNew
  <2> QED
    BY <2>9, <2>10
<1>7. ASSUME NEW c \in Chains, LoadGone(c) PROVE IdInv'
  <2>1. chain[c] \in Work /\ Running(c)
    BY <1>0, <1>7, BusyType DEF LoadGone, Busy, TypeOK, Running
  <2>2. PICK p \in chain[c].gone :
          Step(c, IF WasActive(alert[p])
                  THEN [chain[c] EXCEPT !.pc = "store", !.gone = @ \ {p},
                                        !.pair = p, !.alert = Resolve(alert[p])]
                  ELSE [chain[c] EXCEPT !.gone = @ \ {p}])
    BY <1>7 DEF LoadGone
  <2>3. p \in Pairs /\ UNCHANGED <<alert, said, ids>>
    BY <1>7, <2>1 DEF Work, LoadGone
  <2>4. CASE ~WasActive(alert[p])
    <3> DEFINE r == [chain[c] EXCEPT !.gone = @ \ {p}]
    <3>1. r.pair = chain[c].pair /\ r.alert = chain[c].alert
      BY <2>1 DEF Work
    <3>2. Step(c, r)
      BY <2>2, <2>4
    <3> HIDE DEF r
    <3> QED
      BY <1>3, <2>1, <2>3, <3>1, <3>2, InUse
  <2>5. CASE WasActive(alert[p])
    <3> DEFINE r == [chain[c] EXCEPT !.pc = "store", !.gone = @ \ {p},
                                     !.pair = p, !.alert = Resolve(alert[p])]
    <3>1. alert[p] \in Alert
      BY <1>0, <2>3, <2>5, ActiveIsAlert DEF TypeOK
    <3>2. Resolve(alert[p]).id = alert[p].id
      BY <3>1 DEF Resolve, Alert
    <3>3. r.pair = p /\ r.alert = Resolve(alert[p])
      BY <2>1 DEF Work
    <3>4. Step(c, r)
      BY <2>2, <2>5
    <3> HIDE DEF r
    <3>5. ASSUME NEW q \in Pairs PROVE Uses(q)' \subseteq Uses(q) \union {0}
      <4>1. r.pc # "idle" /\ r.pair = q => r.alert.id \in Uses(q) \union {}
        BY <3>2, <3>3, InUse
      <4> QED
        BY <2>3, <3>4, <4>1, InUse, UsesOfStep
    <3> QED
      BY <2>3, <3>5, NothingNew
  <2> QED
    BY <2>4, <2>5
<1>8. ASSUME NEW c \in Chains, StoreAlert(c) PROVE IdInv'
  <2>1. chain[c] \in Work /\ Running(c)
    BY <1>0, <1>8, BusyType DEF StoreAlert, Busy, TypeOK, Running
  <2> DEFINE r == [chain[c] EXCEPT !.pc = "notify"]
  <2>2. /\ Step(c, r) /\ UNCHANGED <<said, ids>>
        /\ alert' = [alert EXCEPT ![chain[c].pair] = chain[c].alert]
    BY <1>8 DEF StoreAlert
  <2>3. r.pair = chain[c].pair /\ r.alert = chain[c].alert
    BY <2>1 DEF Work
  <2>4. ASSUME NEW q \in Pairs PROVE alert'[q].id \in Uses(q) /\ said'[q].id \in Uses(q)
    <3>1. alert'[q] = IF q = chain[c].pair THEN chain[c].alert ELSE alert[q]
      BY <1>0, <2>2 DEF TypeOK
    <3> QED
      BY <2>1, <2>2, <3>1, InUse
  <2> HIDE DEF r
  <2> QED
    BY <1>3, <2>1, <2>2, <2>3, <2>4
<1>9. ASSUME NEW c \in Chains, Notify(c) PROVE IdInv'
  <2>1. chain[c] \in Work /\ Running(c)
    BY <1>0, <1>9, BusyType DEF Notify, Busy, TypeOK, Running
  <2> DEFINE r == [chain[c] EXCEPT
                     !.pc = IF chain[c].pair \in Found(c) THEN "conflicts" ELSE "gone",
                     !.pair = NoPair, !.alert = NoAlert]
  <2>2. /\ Step(c, r) /\ UNCHANGED <<alert, ids>>
        /\ said' \in {said, [said EXCEPT ![chain[c].pair] = chain[c].alert]}
    BY <1>9 DEF Notify
  <2>3. r.pair = NoPair
    BY <2>1 DEF Work
  <2>4. ASSUME NEW q \in Pairs PROVE alert'[q].id \in Uses(q) /\ said'[q].id \in Uses(q)
    <3>1. said'[q] = said[q] \/ (q = chain[c].pair /\ said'[q] = chain[c].alert)
      <4>1. CASE said' = said
        BY <4>1
      <4>2. CASE said' = [said EXCEPT ![chain[c].pair] = chain[c].alert]
        BY <1>0, <4>2 DEF TypeOK
      <4> QED
        BY <2>2, <4>1, <4>2
    <3> QED
      BY <2>1, <2>2, <3>1, InUse
  <2> HIDE DEF r
  <2> QED
    BY <1>3, <2>2, <2>3, <2>4
<1> QED
  BY <1>1, <1>2, <1>4, <1>5, <1>6, <1>7, <1>8, <1>9 DEF Next, Proceed, Assess,
     ForgetReport, ExpireActive

\* alert_service.py:150: alerts are told apart by their conflict id, so the fleet
\* view leaves none out and no message is taken for one about another pair, for
\* any chains at once, failing anywhere, and any keys expiring.
THEOREM IdsTellPairsApart ==
  ASSUME AlertAssumption
  PROVE  Spec => []OneConflictPerId
<1>1. Init => ConflictInv
  <2> SUFFICES ASSUME Init PROVE ConflictInv
    OBVIOUS
  <2>1. \A p \in Pairs : Uses(p) = {0} /\ ids = 0
    BY DEF Init, Uses, Running, Idle, NoAlert
  <2>2. IdInv
    BY <2>1 DEF IdInv
  <2> QED
    BY <2>2, TypeInit DEF ConflictInv
<1>2. ConflictInv /\ [Next]_vars => ConflictInv'
  <2> SUFFICES ASSUME ConflictInv, [Next]_vars PROVE ConflictInv'
    OBVIOUS
  <2>1. CASE Next
    BY <2>1, IdsAreKept, TypeStep DEF ConflictInv
  <2>2. CASE UNCHANGED vars
    <3>0. TypeOK'
      BY <2>2 DEF vars, ConflictInv, TypeOK
    <3>1. UNCHANGED <<alert, chain, ids, said>>
      BY <2>2 DEF vars
    <3>2. ids' = ids /\ \A p \in Pairs : Uses(p)' \subseteq Uses(p) \union {0}
      BY <3>1 DEF Uses, Running
    <3> QED
      BY <3>0, <3>2, NothingNew DEF ConflictInv
  <2> QED
    BY <2>1, <2>2
<1>3. ConflictInv => OneConflictPerId
  BY InUse DEF ConflictInv, IdInv, OneConflictPerId, NamesOf, NoAlert
<1> QED
  BY <1>1, <1>2, <1>3, PTL DEF Spec
==============================================================================
