------------------------ MODULE HistoricalImportProofs ------------------------
(***************************************************************************)
(* Proofs about HistoricalImport.                                          *)
(***************************************************************************)
EXTENDS HistoricalImport, FiniteSetTheorems, SequenceTheorems, TLAPS

USE DEF Faults

-----------------------------------------------------------------------------
(***************************************************************************)
(* Lemmas about single imports and about pages.                            *)
(***************************************************************************)
LEMMA IdleIsAnImport == Idle \in Imports
  <1>1. <<>> \in Seq(Ids)
    BY EmptySeq
  <1> QED
    BY <1>1 DEF Idle, Imports, PCs

\* A step of one import leaves the others alone.
LEMMA StepEffect ==
  ASSUME run \in [Runs -> Imports], NEW r \in Runs, NEW w \in Imports,
         Step(r, w)
  PROVE  /\ run' \in [Runs -> Imports]
         /\ run'[r] = w
         /\ \A s \in Runs : s # r => run'[s] = run[s]
  BY DEF Step

LEMMA IdsOfYmane ==
  ASSUME TypeOK
  PROVE  DOMAIN ymane \subseteq Ids /\ IsFiniteSet(DOMAIN ymane)
  <1>1. DOMAIN ymane = 1..Len(ymane) /\ Len(ymane) \in Nat
    BY LenProperties DEF TypeOK
  <1>2. IsFiniteSet(1..Len(ymane))
    BY <1>1, FS_Interval
  <1> QED
    BY <1>1, <1>2, Bounds DEF TypeOK, Ids

\* The sequences of a set in ascending order are sequences of its members, and
\* hold each of them.
LEMMA OrderedSequences ==
  ASSUME NEW S, IsFiniteSet(S), S \subseteq Ids, NEW s \in InOrder(S)
  PROVE  s \in Seq(Ids) /\ {s[i] : i \in DOMAIN s} = S
  <1> DEFINE n == Cardinality(S)
  <1>1. n \in Nat
    BY FS_CardinalityType
  <1>2. s \in [1..n -> S] /\ \A i, j \in 1..n : i < j => s[i] < s[j]
    BY DEF InOrder
  <1>3. s \in Seq(Ids)
    BY <1>1, <1>2, IsASeq
  <1>4. S \subseteq Int
    BY DEF Ids
  <1>5. \A i, j \in 1..n : s[i] = s[j] => i = j
    <2> SUFFICES ASSUME NEW i \in 1..n, NEW j \in 1..n, s[i] = s[j], i # j
                 PROVE  FALSE
      OBVIOUS
    <2>1. s[i] \in Int
      BY <1>2, <1>4
    <2>2. i < j \/ j < i
      BY <1>1
    <2> QED
      BY <1>2, <2>1, <2>2
  <1>6. s \in Injection(1..n, S)
    BY <1>2, <1>5 DEF Injection, IsInjective
  <1>7. IsFiniteSet(1..n) /\ Cardinality(1..n) = n
    BY <1>1, FS_Interval
  <1>8. s \in Surjection(1..n, S)
    BY <1>6, <1>7, FS_SurjSameCardinalityImpliesInj, FS_Injection
  <1> QED
    BY <1>2, <1>3, <1>8 DEF Surjection

LEMMA PagesAreFinite ==
  ASSUME TypeOK, NEW r \in Runs
  PROVE  /\ Page(r) \subseteq Rest(r)
         /\ Rest(r) \subseteq DOMAIN ymane
         /\ IsFiniteSet(Rest(r)) /\ IsFiniteSet(Page(r))
         /\ Mapped(r) \subseteq Ids /\ IsFiniteSet(Mapped(r))
  <1>1. Mapped(r) \subseteq Page(r) /\ Page(r) \subseteq Rest(r)
    BY DEF Mapped, Page
  <1>2. Rest(r) \subseteq DOMAIN ymane
    BY DEF Rest, InRange
  <1>3. DOMAIN ymane \subseteq Ids /\ IsFiniteSet(DOMAIN ymane)
    BY IdsOfYmane
  <1> QED
    BY <1>1, <1>2, <1>3, FS_Subset

LEMMA SizeBetween ==
  ASSUME NEW a \in Nat, NEW b \in Nat, a < b
  PROVE  IsFiniteSet((a + 1)..b) /\ Cardinality((a + 1)..b) = b - a
  <1> DEFINE c == a + 1
  <1>1. c \in Int /\ b \in Int /\ ~(c > b) /\ b - c + 1 = b - a
    OBVIOUS
  <1>2. IsFiniteSet(c..b) /\ Cardinality(c..b) = IF c > b THEN 0 ELSE b - c + 1
    <2> HIDE DEF c
    <2> QED
      BY <1>1, FS_Interval
  <1> QED
    BY <1>1, <1>2

\* The cursor passes nothing over: what a page leaves behind comes after it.
LEMMA CursorLeavesTheRest ==
  ASSUME TypeOK, NEW r \in Runs, NEW e \in Page(r), \A f \in Page(r) : f <= e
  PROVE  /\ Cursor(r, e) \in Nat
         /\ \A g \in Rest(r) \ Page(r) : g > Cursor(r, e)
  <1> DEFINE last == run[r].last
  <1>1. last \in Nat
    BY DEF TypeOK, Imports
  <1>2. Rest(r) \subseteq Ids /\ IsFiniteSet(Rest(r)) /\ IsFiniteSet(Page(r))
        /\ Page(r) \subseteq Rest(r)
    BY PagesAreFinite, IdsOfYmane
  <1>3. e \in Nat /\ e > last
    BY <1>2 DEF Rest, Ids
  <1>4. Cardinality(Page(r)) \in Nat /\ Cardinality(Page(r)) <= e - last
    <2>1. Page(r) \subseteq (last + 1)..e
      BY <1>1, <1>2, <1>3 DEF Rest, Ids
    <2>2. IsFiniteSet((last + 1)..e) /\ Cardinality((last + 1)..e) = e - last
      BY <1>1, <1>3, SizeBetween
    <2> QED
      BY <2>1, <2>2, <1>2, FS_Subset, FS_CardinalityType
  <1>5. Cursor(r, e) \in Nat /\ Cursor(r, e) <= e
    BY <1>1, <1>3, <1>4 DEF Cursor
  <1>6. ASSUME NEW g \in Rest(r) \ Page(r)
        PROVE  g > e
    <2> DEFINE Before(x) == {f \in Rest(r) : f < x}
    <2>1. SUFFICES ASSUME g <= e PROVE FALSE
      BY <1>2, <1>3 DEF Ids
    <2>2. Before(g) \subseteq Before(e)
      BY <2>1, <1>2, <1>3 DEF Ids
    <2>3. IsFiniteSet(Before(e)) /\ IsFiniteSet(Before(g))
      BY <1>2, FS_Subset
    <2>4. Cardinality(Before(g)) <= Cardinality(Before(e))
      BY <2>2, <2>3, FS_Subset
    <2>5. Cardinality(Before(e)) < PageSize
      BY DEF Page
    <2>6. ~(Cardinality(Before(g)) < PageSize)
      BY DEF Page
    <2>7. Cardinality(Before(g)) \in Nat /\ Cardinality(Before(e)) \in Nat
      BY <2>3, FS_CardinalityType
    <2> QED
      BY <2>4, <2>5, <2>6, <2>7, Bounds
  <1> QED
    BY <1>2, <1>3, <1>5, <1>6 DEF Ids

-----------------------------------------------------------------------------
(***************************************************************************)
(* Types.                                                                  *)
(***************************************************************************)
LEMMA GoToIsTyped ==
  ASSUME TypeOK, NEW r \in Runs, NEW pc \in PCs, GoTo(r, pc)
  PROVE  run' \in [Runs -> Imports]
  <1>1. [run[r] EXCEPT !.pc = pc] \in Imports
    BY DEF TypeOK, Imports
  <1> QED
    BY <1>1, StepEffect DEF GoTo, TypeOK

LEMMA OverIsTyped ==
  ASSUME TypeOK, NEW r \in Runs, Over(r)
  PROVE  run' \in [Runs -> Imports] /\ stuck' \subseteq Children
  BY IdleIsAnImport, StepEffect DEF Over, TypeOK

LEMMA FetchIsTyped ==
  ASSUME TypeOK, NEW r \in Runs, FetchPage(r) \/ FetchLastPage(r)
  PROVE  run' \in [Runs -> Imports]
  <1>1. \A s \in InOrder(Mapped(r)) : run[r].events \o s \in Seq(Ids)
    <2> TAKE s \in InOrder(Mapped(r))
    <2>1. s \in Seq(Ids)
      BY PagesAreFinite, OrderedSequences
    <2> QED
      BY <2>1, ConcatProperties DEF TypeOK, Imports
  <1>2. CASE FetchPage(r)
    <2>1. PICK e \in Page(r), s \in InOrder(Mapped(r)) :
            /\ \A f \in Page(r) : f <= e
            /\ Step(r, [run[r] EXCEPT !.pc = "page", !.last = Cursor(r, e),
                                      !.events = @ \o s])
      BY <1>2 DEF FetchPage
    <2>2. Cursor(r, e) \in Nat
      BY <2>1, CursorLeavesTheRest
    <2>3. [run[r] EXCEPT !.pc = "page", !.last = Cursor(r, e),
                         !.events = @ \o s] \in Imports
      BY <1>1, <2>2 DEF TypeOK, Imports, PCs
    <2> QED
      BY <2>1, <2>3, StepEffect DEF TypeOK
  <1>3. CASE FetchLastPage(r)
    <2>1. PICK s \in InOrder(Mapped(r)) :
            Step(r, [run[r] EXCEPT !.pc = "import", !.last = 0,
                                   !.events = @ \o s])
      BY <1>3 DEF FetchLastPage
    <2>2. [run[r] EXCEPT !.pc = "import", !.last = 0, !.events = @ \o s]
             \in Imports
      BY <1>1 DEF TypeOK, Imports, PCs
    <2> QED
      BY <2>1, <2>2, StepEffect DEF TypeOK
  <1> QED
    BY <1>2, <1>3

LEMMA KeysAreKeys ==
  ASSUME NEW r \in Runs, NEW e \in Ids
  PROVE  Key(r, e) \in Keys /\ Key(r, e).event = e
  BY DEF Key, Keys

LEMMA ImportIsTyped ==
  ASSUME TypeOK, NEW r \in Runs, ImportEvent(r)
  PROVE  run' \in [Runs -> Imports]
  <1> DEFINE e == Head(run[r].events)
             keys == IF /\ Key(r, e) \notin Stored \union run[r].flushed
                        /\ ymane[e].kind # "unmatchable"
                     THEN {Key(r, e)} ELSE {}
             w == [run[r] EXCEPT !.events = Tail(@), !.pending = keys]
  <1>1. run[r] \in Imports /\ run[r].events \in Seq(Ids) /\ run[r].events # <<>>
    BY DEF TypeOK, Imports, ImportEvent
  <1>2. e \in Ids /\ Tail(run[r].events) \in Seq(Ids)
    BY <1>1, HeadTailProperties
  <1>3. keys \subseteq Keys
    BY <1>2, KeysAreKeys
  <1>4. Step(r, w)
    BY DEF ImportEvent
  <1> HIDE DEF keys
  <1>5. w \in Imports
    BY <1>1, <1>2, <1>3 DEF Imports
  <1> QED
    BY <1>4, <1>5, StepEffect DEF TypeOK

LEMMA StartIsTyped ==
  ASSUME TypeOK, NEW r \in Runs
  PROVE  /\ r \in Children /\ Checkpoint(r) => run' \in [Runs -> Imports]
         /\ \A from, to \in Days : RequestYmane(r, from, to) => run' \in [Runs -> Imports]
         /\ \A body \in Bodies : RequestManual(r, body) => run' \in [Runs -> Imports]
         /\ Login(r) => run' \in [Runs -> Imports]
         /\ Refuse(r) => run' \in [Runs -> Imports]
         /\ Flush(r) => run' \in [Runs -> Imports]
         /\ Commit(r) => run' \in [Runs -> Imports]
  <1>1. run[r] \in Imports /\ run \in [Runs -> Imports] /\ today \in Int
    BY DEF TypeOK, Days
  <1>2. ASSUME Checkpoint(r) PROVE run' \in [Runs -> Imports]
    <2>1. PICK from \in -1..LastDay :
            Step(r, [run[r] EXCEPT !.pc = "login", !.from = from, !.to = today])
      BY <1>2 DEF Checkpoint
    <2>a. from \in Int
      BY Bounds
    <2>2. [run[r] EXCEPT !.pc = "login", !.from = from, !.to = today] \in Imports
      BY <1>1, <2>a DEF Imports, PCs
    <2> QED
      BY <1>1, <2>1, <2>2, StepEffect
  <1>3. ASSUME NEW from \in Days, NEW to \in Days, RequestYmane(r, from, to)
        PROVE  run' \in [Runs -> Imports]
    <2>a. from \in Int /\ to \in Int
      BY DEF Days
    <2>1. [Idle EXCEPT !.pc = "login", !.from = from, !.to = to] \in Imports
      BY IdleIsAnImport, <2>a DEF Imports, PCs
    <2> QED
      BY <1>1, <1>3, <2>1, StepEffect DEF RequestYmane
  <1>4. ASSUME NEW body \in Bodies, RequestManual(r, body)
        PROVE  run' \in [Runs -> Imports]
    <2>1. body \in Seq(Ids)
      BY Bounds DEF Ids
    <2>2. [Idle EXCEPT !.pc = "import", !.events = body] \in Imports
      BY <2>1, IdleIsAnImport DEF Imports, PCs
    <2> QED
      BY <1>1, <1>4, <2>2, StepEffect DEF RequestManual
  <1>5. ASSUME Login(r) PROVE run' \in [Runs -> Imports]
    <2> DEFINE asked == IF r \in Children THEN InRange(r) ELSE {}
    <2>1. asked \subseteq Ids
      BY IdsOfYmane DEF InRange
    <2>2. Step(r, [run[r] EXCEPT !.pc = "page", !.asked = asked])
      BY <1>5 DEF Login
    <2> HIDE DEF asked
    <2>3. [run[r] EXCEPT !.pc = "page", !.asked = asked] \in Imports
      BY <1>1, <2>1 DEF Imports, PCs
    <2> QED
      BY <1>1, <2>2, <2>3, StepEffect
  <1>6. ASSUME Refuse(r) PROVE run' \in [Runs -> Imports]
    <2>1. [Idle EXCEPT !.pc = "refused"] \in Imports
      BY IdleIsAnImport DEF Imports, PCs
    <2> QED
      BY <1>1, <1>6, <2>1, IdleIsAnImport, StepEffect DEF Refuse
  <1>7. ASSUME Flush(r) PROVE run' \in [Runs -> Imports]
    <2>1. [run[r] EXCEPT !.flushed = @ \union run[r].pending, !.pending = {}]
            \in Imports
      BY <1>1 DEF Imports
    <2> QED
      BY <1>1, <1>7, <2>1, StepEffect DEF Flush
  <1>8. ASSUME Commit(r) PROVE run' \in [Runs -> Imports]
    <2>1. [Idle EXCEPT !.pc = "reset", !.asked = run[r].asked] \in Imports
      BY <1>1, IdleIsAnImport DEF Imports, PCs
    <2> QED
      BY <1>1, <1>8, <2>1, IdleIsAnImport, StepEffect DEF Commit
  <1> QED
    BY <1>2, <1>3, <1>4, <1>5, <1>6, <1>7, <1>8

\* The types are preserved: what is left beside the imports.
LEMMA TypesKept ==
  ASSUME TypeOK, [Next]_vars
  PROVE  TypeOK'
  <1>1. CASE UNCHANGED vars
    BY <1>1 DEF vars, TypeOK
  <1>2. ASSUME NEW c \in Children,
               SkipSync(c) \/ StartSync(c) \/ ProceedSync(c)
        PROVE  TypeOK'
    <2>1. c \in Runs
      BY DEF Runs
    <2>2. CASE SkipSync(c)
      BY <2>1, <2>2, OverIsTyped DEF SkipSync, TypeOK
    <2>3. CASE StartSync(c)
      BY <2>1, <2>3, GoToIsTyped DEF StartSync, TypeOK, PCs
    <2>4. CASE Checkpoint(c)
      BY <2>1, <2>4, StartIsTyped DEF Checkpoint, TypeOK
    <2>5. CASE CountFailure(c)
      BY <2>1, <2>5, OverIsTyped DEF CountFailure, TypeOK
    <2>6. CASE ResetCounter(c)
      BY <2>1, <2>6, OverIsTyped DEF ResetCounter, TypeOK
    <2> QED
      BY <1>2, <2>2, <2>3, <2>4, <2>5, <2>6 DEF ProceedSync
  <1>3. ASSUME NEW r \in Runs, Proceed(r) PROVE TypeOK'
    <2>1. CASE Login(r)
      BY <2>1, StartIsTyped DEF Login, TypeOK
    <2>2. CASE FetchPage(r)
      BY <2>2, FetchIsTyped DEF FetchPage, TypeOK
    <2>3. CASE FetchLastPage(r)
      BY <2>3, FetchIsTyped DEF FetchLastPage, TypeOK
    <2>4. CASE FetchRaises(r)
      BY <2>4, OverIsTyped DEF FetchRaises, TypeOK
    <2>5. CASE Flush(r)
      BY <2>5, StartIsTyped DEF Flush, TypeOK
    <2>6. CASE LoseBatch(r)
      BY <2>6, OverIsTyped DEF LoseBatch, TypeOK
    <2>7. CASE ImportEvent(r)
      BY <2>7, ImportIsTyped DEF ImportEvent, TypeOK
    <2>8. CASE Commit(r)
      <3>1. run' \in [Runs -> Imports]
        BY <2>8, StartIsTyped
      <3>2. rows' \in [Keys -> Nat]
        BY <2>8 DEF Commit, TypeOK
      <3>3. since' \in Int
        BY <2>8 DEF Commit, TypeOK, Imports
      <3> QED
        BY <2>8, <3>1, <3>2, <3>3 DEF Commit, TypeOK
    <2> QED
      BY <1>3, <2>1, <2>2, <2>3, <2>4, <2>5, <2>6, <2>7, <2>8 DEF Proceed
  <1>4. ASSUME NEW r \in Runs, RetryPage(r) \/ Refuse(r) \/ Crash(r)
        PROVE  TypeOK'
    <2>1. CASE RetryPage(r)
      BY <2>1, GoToIsTyped DEF RetryPage, Suffer, TypeOK, PCs
    <2>2. CASE Refuse(r)
      BY <2>2, StartIsTyped DEF Refuse, Suffer, TypeOK
    <2>3. CASE Crash(r)
      <3>1. run' \in [Runs -> Imports]
        BY <2>3, IdleIsAnImport, StepEffect DEF Crash, TypeOK
      <3>2. stuck' \subseteq Children
        BY <2>3 DEF Crash, TypeOK
      <3> QED
        BY <2>3, <3>1, <3>2 DEF Crash, Suffer, TypeOK
    <2> QED
      BY <1>4, <2>1, <2>2, <2>3
  <1>5. ASSUME NEW q \in Requests, NEW from \in Days, NEW to \in Days,
               RequestYmane(q, from, to)
        PROVE  TypeOK'
    <2>1. q \in Runs
      BY DEF Runs
    <2> QED
      BY <1>5, <2>1, StartIsTyped DEF RequestYmane, Suffer, TypeOK
  <1>6. ASSUME NEW q \in Requests, NEW body \in Bodies, RequestManual(q, body)
        PROVE  TypeOK'
    <2>1. q \in Runs
      BY DEF Runs
    <2> QED
      BY <1>6, <2>1, StartIsTyped DEF RequestManual, Suffer, TypeOK
  <1>7. ASSUME NEW kind \in Kinds, NEW day \in Days, Post(kind, day)
        PROVE  TypeOK'
    <2>1. [kind |-> kind, day |-> day] \in Exceptions
      BY DEF Exceptions
    <2>2. ymane' \in Seq(Exceptions) /\ Len(ymane') <= MaxEvents
      BY <1>7, <2>1, AppendProperties, LenProperties, Bounds DEF Post, TypeOK
    <2>3. faults' \subseteq Faults
      BY <1>7 DEF Post, Suffer, TypeOK
    <2> QED
      BY <1>7, <2>2, <2>3 DEF Post, TypeOK
  <1>8. CASE CloseCircuit
    BY <1>8 DEF CloseCircuit, TypeOK
  <1>9. CASE Midnight
    BY <1>9, Bounds DEF Midnight, TypeOK, Days
  <1>10. CASE Restart
    BY <1>10 DEF Restart, Suffer, TypeOK
  <1> QED
    BY <1>1, <1>2, <1>3, <1>4, <1>5, <1>6, <1>7, <1>8, <1>9, <1>10 DEF Next

LEMMA InitIsTyped == Init => TypeOK
  <1> SUFFICES ASSUME Init PROVE TypeOK
    OBVIOUS
  <1>1. ymane \in Seq(Exceptions) /\ Len(ymane) <= MaxEvents
    BY EmptySeq, Bounds DEF Init
  <1>2. run \in [Runs -> Imports]
    BY IdleIsAnImport DEF Init
  <1> QED
    BY <1>1, <1>2, Bounds DEF Init, TypeOK, Days

\* Every variable keeps its type, for any number of processes, requests and
\* events.
THEOREM TypeCorrect == Spec => []TypeOK
  BY InitIsTyped, TypesKept, PTL DEF Spec

-----------------------------------------------------------------------------
(***************************************************************************)
(* NothingTwice: what a transaction has inserted is neither stored nor     *)
(* inserted by another one.                                                *)
(***************************************************************************)
Separate ==
  /\ \A r \in Runs : \A k \in run[r].flushed : rows[k] = 0
  /\ \A r, s \in Runs : r # s => run[r].flushed \cap run[s].flushed = {}

\* A step that stores nothing, and after which each import holds no more than
\* before.
LEMMA NothingInserted ==
  ASSUME NothingTwice, Separate, UNCHANGED rows,
         \A r \in Runs : run'[r].flushed \subseteq run[r].flushed
  PROVE  NothingTwice' /\ Separate'
  BY DEF NothingTwice, Separate

\* ... which is so when the import that moves keeps what it holds, or is over.
LEMMA HoldsNoMore ==
  ASSUME TypeOK, NothingTwice, Separate, UNCHANGED rows,
         NEW r \in Runs, NEW w, Step(r, w), w.flushed \in {run[r].flushed, {}}
  PROVE  NothingTwice' /\ Separate'
  <1>1. \A s \in Runs : run'[s] = IF s = r THEN w ELSE run[s]
    BY DEF Step, TypeOK
  <1>2. \A s \in Runs : run'[s].flushed \subseteq run[s].flushed
    BY <1>1
  <1> QED
    BY <1>2, NothingInserted

LEMMA SeparateKept ==
  ASSUME TypeOK, NothingTwice, Separate, [Next]_vars
  PROVE  NothingTwice' /\ Separate'
  <1> USE DEF TypeOK
  <1>i. Idle.flushed = {}
    BY DEF Idle
  <1>r. Children \subseteq Runs /\ Requests \subseteq Runs
    BY DEF Runs
  <1>f. \A r \in Runs : run[r] \in Imports
    OBVIOUS
  <1>o. ASSUME NEW r \in Runs, Over(r), UNCHANGED rows
        PROVE  NothingTwice' /\ Separate'
    BY <1>i, <1>o, HoldsNoMore DEF Over
  <1>g. ASSUME NEW r \in Runs, NEW pc, GoTo(r, pc), UNCHANGED rows
        PROVE  NothingTwice' /\ Separate'
    <2>1. [run[r] EXCEPT !.pc = pc].flushed = run[r].flushed
      BY <1>f DEF Imports
    <2> QED
      BY <1>g, <2>1, HoldsNoMore DEF GoTo
  <1>1. CASE UNCHANGED vars
    BY <1>1, NothingInserted DEF vars
  <1>2. ASSUME NEW c \in Children,
               SkipSync(c) \/ StartSync(c) \/ ProceedSync(c)
        PROVE  NothingTwice' /\ Separate'
    <2>1. CASE SkipSync(c)
      BY <2>1, <1>o, <1>r DEF SkipSync
    <2>2. CASE StartSync(c)
      BY <2>2, <1>g, <1>r DEF StartSync
    <2>3. CASE Checkpoint(c)
      <3>1. PICK from \in -1..LastDay :
              Step(c, [run[c] EXCEPT !.pc = "login", !.from = from, !.to = today])
        BY <2>3 DEF Checkpoint
      <3>2. [run[c] EXCEPT !.pc = "login", !.from = from, !.to = today].flushed
              = run[c].flushed
        BY <1>f, <1>r DEF Imports
      <3> QED
        BY <2>3, <3>1, <3>2, <1>r, HoldsNoMore DEF Checkpoint
    <2>4. CASE CountFailure(c)
      BY <2>4, <1>o, <1>r DEF CountFailure
    <2>5. CASE ResetCounter(c)
      BY <2>5, <1>o, <1>r DEF ResetCounter
    <2> QED
      BY <1>2, <2>1, <2>2, <2>3, <2>4, <2>5 DEF ProceedSync
  <1>3. ASSUME NEW r \in Runs, Proceed(r) PROVE NothingTwice' /\ Separate'
    <2>1. CASE Login(r)
      <3> DEFINE asked == IF r \in Children THEN InRange(r) ELSE {}
      <3>1. [run[r] EXCEPT !.pc = "page", !.asked = asked].flushed = run[r].flushed
        BY <1>f DEF Imports
      <3> QED
        BY <2>1, <3>1, HoldsNoMore DEF Login
    <2>2. CASE FetchPage(r)
      <3>1. PICK e \in Page(r), s \in InOrder(Mapped(r)) :
              Step(r, [run[r] EXCEPT !.pc = "page", !.last = Cursor(r, e),
                                     !.events = @ \o s])
        BY <2>2 DEF FetchPage
      <3>2. [run[r] EXCEPT !.pc = "page", !.last = Cursor(r, e),
                           !.events = @ \o s].flushed = run[r].flushed
        BY <1>f DEF Imports
      <3> QED
        BY <2>2, <3>1, <3>2, HoldsNoMore DEF FetchPage
    <2>3. CASE FetchLastPage(r)
      <3>1. PICK s \in InOrder(Mapped(r)) :
              Step(r, [run[r] EXCEPT !.pc = "import", !.last = 0,
                                     !.events = @ \o s])
        BY <2>3 DEF FetchLastPage
      <3>2. [run[r] EXCEPT !.pc = "import", !.last = 0,
                           !.events = @ \o s].flushed = run[r].flushed
        BY <1>f DEF Imports
      <3> QED
        BY <2>3, <3>1, <3>2, HoldsNoMore DEF FetchLastPage
    <2>4. CASE FetchRaises(r)
      BY <2>4, <1>o DEF FetchRaises
    <2>5. CASE Flush(r)
      <3>1. /\ run'[r].flushed = run[r].flushed \union run[r].pending
            /\ \A s \in Runs : s # r => run'[s] = run[s]
        BY <2>5, <1>f DEF Flush, Step, Imports
      <3>2. \A k \in run[r].pending : k \in Keys /\ rows[k] = 0
        BY <2>5, <1>f DEF Flush, Rejected, Stored, Imports
      <3>3. \A s \in Runs : s # r => run[r].pending \cap run[s].flushed = {}
        BY <2>5 DEF Flush, Waits, WaitsFor
      <3>4. UNCHANGED rows
        BY <2>5 DEF Flush
      <3> QED
        BY <3>1, <3>2, <3>3, <3>4 DEF NothingTwice, Separate
    <2>6. CASE LoseBatch(r)
      BY <2>6, <1>o DEF LoseBatch
    <2>7. CASE ImportEvent(r)
      <3> DEFINE w(keys) == [run[r] EXCEPT !.events = Tail(@), !.pending = keys]
      <3>1. \A keys : w(keys).flushed = run[r].flushed
        BY <1>f DEF Imports
      <3>2. \E keys : Step(r, w(keys))
        BY <2>7 DEF ImportEvent
      <3> QED
        BY <2>7, <3>1, <3>2, HoldsNoMore DEF ImportEvent
    <2>8. CASE Commit(r)
      <3>1. /\ run'[r].flushed = {}
            /\ \A s \in Runs : s # r => run'[s] = run[s]
        BY <2>8, <1>i DEF Commit, Step, Idle
      <3>2. \A k \in Keys :
              rows'[k] = IF k \in run[r].flushed THEN rows[k] + 1 ELSE rows[k]
        BY <2>8 DEF Commit
      <3>3. NothingTwice'
        BY <3>2 DEF NothingTwice, Separate
      <3>4. \A s \in Runs : run[s].flushed \subseteq Keys
        BY <1>f DEF Imports
      <3>5. \A s \in Runs : \A k \in run'[s].flushed : rows'[k] = 0
        BY <3>1, <3>2, <3>4 DEF Separate
      <3>6. \A s, t \in Runs : s # t => run'[s].flushed \cap run'[t].flushed = {}
        BY <3>1 DEF Separate
      <3> QED
        BY <3>3, <3>5, <3>6 DEF Separate
    <2> QED
      BY <1>3, <2>1, <2>2, <2>3, <2>4, <2>5, <2>6, <2>7, <2>8 DEF Proceed
  <1>4. ASSUME NEW r \in Runs, RetryPage(r) \/ Refuse(r) \/ Crash(r)
        PROVE  NothingTwice' /\ Separate'
    <2>1. CASE RetryPage(r)
      BY <2>1, <1>g DEF RetryPage
    <2>2. CASE Refuse(r)
      <3>1. [Idle EXCEPT !.pc = "refused"].flushed = {}
        BY DEF Idle
      <3> QED
        BY <2>2, <3>1, <1>i, HoldsNoMore DEF Refuse
    <2>3. CASE Crash(r)
      BY <2>3, <1>i, HoldsNoMore DEF Crash
    <2> QED
      BY <1>4, <2>1, <2>2, <2>3
  <1>5. ASSUME NEW q \in Requests, NEW from \in Days, NEW to \in Days,
               RequestYmane(q, from, to)
        PROVE  NothingTwice' /\ Separate'
    <2>1. [Idle EXCEPT !.pc = "login", !.from = from, !.to = to].flushed = {}
      BY DEF Idle
    <2> QED
      BY <1>5, <2>1, <1>r, HoldsNoMore DEF RequestYmane
  <1>6. ASSUME NEW q \in Requests, NEW body \in Bodies, RequestManual(q, body)
        PROVE  NothingTwice' /\ Separate'
    <2>1. [Idle EXCEPT !.pc = "import", !.events = body].flushed = {}
      BY DEF Idle
    <2> QED
      BY <1>6, <2>1, <1>r, HoldsNoMore DEF RequestManual
  <1>7. ASSUME UNCHANGED <<rows, run>>
        PROVE  NothingTwice' /\ Separate'
    BY <1>7, NothingInserted
  <1> QED
    BY <1>1, <1>2, <1>3, <1>4, <1>5, <1>6, <1>7
       DEF Next, Post, CloseCircuit, Midnight, Restart

LEMMA InitIsSeparate == Init => NothingTwice /\ Separate
  BY DEF Init, Idle, NothingTwice, Separate

\* No event is stored twice under its key, however many processes and requests
\* import at once, whatever fails.
THEOREM EventsAreStoredOnce == Spec => []NothingTwice
  <1>1. Spec => [](TypeOK /\ NothingTwice /\ Separate)
    BY InitIsTyped, TypesKept, InitIsSeparate, SeparateKept, PTL DEF Spec
  <1> QED
    BY <1>1, PTL

-----------------------------------------------------------------------------
(***************************************************************************)
(* SyncedIsStored: where an event is, between the login that asked for it  *)
(* and the commit.                                                         *)
(***************************************************************************)
Listed(s) == {s[i] : i \in DOMAIN s}

LEMMA ListedTogether ==
  ASSUME NEW s \in Seq(Ids), NEW t \in Seq(Ids)
  PROVE  Listed(s) \union Listed(t) \subseteq Listed(s \o t)
  <1>1. /\ DOMAIN s = 1..Len(s) /\ DOMAIN t = 1..Len(t)
        /\ Len(s) \in Nat /\ Len(t) \in Nat
    BY LenProperties
  <1>2. /\ s \o t \in Seq(Ids) /\ Len(s \o t) = Len(s) + Len(t)
        /\ \A i \in 1..Len(s) + Len(t) :
             (s \o t)[i] = IF i <= Len(s) THEN s[i] ELSE t[i - Len(s)]
    BY ConcatProperties
  <1>3. DOMAIN (s \o t) = 1..Len(s) + Len(t)
    BY <1>2, LenProperties
  <1>4. \A i \in DOMAIN s : i \in DOMAIN (s \o t) /\ (s \o t)[i] = s[i]
    BY <1>1, <1>2, <1>3
  <1>5. \A i \in DOMAIN t : /\ i + Len(s) \in DOMAIN (s \o t)
                           /\ (s \o t)[i + Len(s)] = t[i]
    BY <1>1, <1>2, <1>3
  <1> QED
    BY <1>4, <1>5 DEF Listed

LEMMA ListedFirst ==
  ASSUME NEW s \in Seq(Ids), s # <<>>
  PROVE  Listed(s) \subseteq {Head(s)} \union Listed(Tail(s))
  <1>1. DOMAIN s = 1..Len(s) /\ Len(s) \in Nat
    BY LenProperties
  <1>2. /\ Head(s) = s[1]
        /\ Tail(s) \in Seq(Ids) /\ Len(Tail(s)) = Len(s) - 1
        /\ \A i \in 1..Len(s) - 1 : Tail(s)[i] = s[i + 1]
    BY HeadTailProperties
  <1>3. DOMAIN Tail(s) = 1..Len(s) - 1
    BY <1>2, LenProperties
  <1>4. \A i \in DOMAIN s : i = 1 \/ (i - 1 \in DOMAIN Tail(s) /\ Tail(s)[i - 1] = s[i])
    BY <1>1, <1>2, <1>3
  <1> QED
    BY <1>2, <1>4 DEF Listed

Held(c) == {k.event : k \in run[c].pending \union run[c].flushed}

\* An event a sync asked for is still to come from Ymane, or it is fetched, or
\* the transaction holds it, or it is stored.
Accounted(c) ==
  /\ run[c].asked \subseteq DOMAIN ymane
  /\ run[c].pc \in {"idle", "checkpoint", "login"} => run[c].last = 0
  /\ \A e \in run[c].asked : Locatable(e) =>
       /\ run[c].pc \in {"page", "retry"} =>
            e \in Rest(c) \union Listed(run[c].events)
       /\ run[c].pc = "import" =>
            e \in Listed(run[c].events) \union Held(c) \union StoredEvents
       /\ run[c].pc = "reset" => e \in StoredEvents

AllAccounted == \A c \in Children : Accounted(c)

\* Ymane forgets nothing, and no row is ever deleted.
Grows ==
  /\ DOMAIN ymane \subseteq DOMAIN ymane'
  /\ \A e \in DOMAIN ymane : ymane'[e] = ymane[e]
  /\ StoredEvents \subseteq StoredEvents'

LEMMA NothingIsForgotten ==
  ASSUME TypeOK, [Next]_vars
  PROVE  Grows
  <1>1. CASE UNCHANGED <<ymane, rows>>
    BY <1>1 DEF Grows, StoredEvents, Stored
  <1>2. ASSUME NEW kind \in Kinds, NEW day \in Days, Post(kind, day)
        PROVE  Grows
    <2>1. [kind |-> kind, day |-> day] \in Exceptions
      BY DEF Exceptions
    <2>2. /\ Len(ymane) \in Nat /\ DOMAIN ymane = 1..Len(ymane)
          /\ ymane' \in Seq(Exceptions) /\ Len(ymane') = Len(ymane) + 1
          /\ \A i \in 1..Len(ymane) : ymane'[i] = ymane[i]
      BY <1>2, <2>1, AppendProperties, LenProperties DEF Post, TypeOK
    <2>3. DOMAIN ymane' = 1..Len(ymane')
      BY <2>2, LenProperties
    <2> QED
      BY <1>2, <2>2, <2>3 DEF Post, Grows, StoredEvents, Stored
  <1>3. ASSUME NEW r \in Runs, Commit(r) PROVE Grows
    <2>1. \A k \in Keys : rows[k] > 0 => rows'[k] > 0
      BY <1>3 DEF Commit, TypeOK
    <2> QED
      BY <1>3, <2>1 DEF Commit, Grows, StoredEvents, Stored
  <1> QED
    BY <1>1, <1>2, <1>3
       DEF Next, vars, SkipSync, StartSync, ProceedSync, Checkpoint,
           CountFailure, ResetCounter, Proceed, Login, FetchPage,
           FetchLastPage, FetchRaises, Flush, LoseBatch, ImportEvent,
           RetryPage, Refuse, Crash, RequestYmane, RequestManual,
           CloseCircuit, Midnight, Restart

LEMMA StillThere ==
  ASSUME TypeOK, Grows, NEW e \in DOMAIN ymane
  PROVE  e \in DOMAIN ymane' /\ (Locatable(e)' <=> Locatable(e))
  BY DEF Grows, Locatable

\* An import that does not move stays accounted for.
LEMMA StaysAccounted ==
  ASSUME TypeOK, Grows, NEW c \in Children, Accounted(c), run'[c] = run[c]
  PROVE  Accounted(c)'
  <1>1. Rest(c) \subseteq Rest(c)'
    BY DEF Grows, Rest, InRange
  <1>2. Held(c)' = Held(c)
    BY DEF Held
  <1>3. \A e \in run[c].asked : e \in DOMAIN ymane' /\ (Locatable(e)' <=> Locatable(e))
    BY StillThere DEF Accounted
  <1> QED
    BY <1>1, <1>2, <1>3 DEF Accounted, Grows

\* One that asks for nothing any more owes nothing.
LEMMA OwesNothing ==
  ASSUME TypeOK, Grows, NEW c \in Children, Accounted(c), NEW w \in Imports,
         Step(c, w), w.asked \subseteq run[c].asked,
         w.pc \in {"idle", "checkpoint", "login", "refused"},
         w.pc # "refused" => w.last = 0
  PROVE  Accounted(c)'
  <1>1. run'[c] = w
    BY DEF Step, TypeOK, Runs
  <1>2. w.asked \subseteq DOMAIN ymane'
    BY DEF Accounted, Grows
  <1> QED
    BY <1>1, <1>2 DEF Accounted

\* The steps of a sync itself.
LEMMA FetchAccounts ==
  ASSUME TypeOK, Grows, NEW c \in Children, Accounted(c),
         Login(c) \/ FetchPage(c) \/ FetchLastPage(c) \/ RetryPage(c)
  PROVE  Accounted(c)'
  <1>r. c \in Runs /\ run[c] \in Imports /\ UNCHANGED ymane
    BY DEF Runs, TypeOK, Login, FetchPage, FetchLastPage, RetryPage
  <1>s. \A e \in DOMAIN ymane : Locatable(e)' <=> Locatable(e)
    BY StillThere
  <1>1. CASE Login(c)
    <2> DEFINE asked == IF c \in Children THEN InRange(c) ELSE {}
    <2>1. run'[c] = [run[c] EXCEPT !.pc = "page", !.asked = asked]
      BY <1>1, <1>r DEF Login, Step, TypeOK
    <2> HIDE DEF asked
    <2>2. /\ run'[c].pc = "page" /\ run'[c].asked = asked
          /\ run'[c].from = run[c].from /\ run'[c].to = run[c].to
          /\ run'[c].last = run[c].last
      BY <2>1, <1>r DEF Imports
    <2>3. asked = InRange(c) /\ asked \subseteq DOMAIN ymane /\ asked \subseteq Ids
      BY IdsOfYmane DEF asked, InRange
    <2>4. InRange(c)' = InRange(c)
      BY <2>2, <1>r DEF InRange
    <2>5. run[c].last = 0
      BY <1>1 DEF Login, Accounted
    <2>6. asked \subseteq Rest(c)'
      BY <2>2, <2>3, <2>4, <2>5 DEF Rest, Ids
    <2> QED
      BY <1>r, <2>2, <2>3, <2>6 DEF Accounted
  <1>2. CASE FetchPage(c)
    <2>1. PICK e \in Page(c), s \in InOrder(Mapped(c)) :
            /\ \A f \in Page(c) : f <= e
            /\ run'[c] = [run[c] EXCEPT !.pc = "page", !.last = Cursor(c, e),
                                        !.events = @ \o s]
      BY <1>2, <1>r DEF FetchPage, Step, TypeOK
    <2>2. /\ run'[c].pc = "page" /\ run'[c].asked = run[c].asked
          /\ run'[c].from = run[c].from /\ run'[c].to = run[c].to
          /\ run'[c].last = Cursor(c, e) /\ run'[c].events = run[c].events \o s
      BY <2>1, <1>r DEF Imports
    <2>3. InRange(c)' = InRange(c)
      BY <2>2, <1>r DEF InRange
    <2>4. \A g \in Rest(c) \ Page(c) : g \in Rest(c)'
      BY <2>1, <2>2, <2>3, <1>r, CursorLeavesTheRest DEF Rest
    <2>5. s \in Seq(Ids) /\ Listed(s) = Mapped(c)
      BY <1>r, PagesAreFinite, OrderedSequences DEF Listed
    <2>6. Mapped(c) \union Listed(run[c].events) \subseteq Listed(run'[c].events)
      BY <1>r, <2>2, <2>5, ListedTogether DEF Imports
    <2>7. \A g \in Page(c) : Locatable(g) => g \in Mapped(c)
      BY DEF Mapped, Locatable
    <2>8. run[c].pc \in {"page", "retry"}
      BY <1>2 DEF FetchPage, Asks
    <2> QED
      BY <1>r, <1>s, <2>2, <2>4, <2>6, <2>7, <2>8 DEF Accounted
  <1>3. CASE FetchLastPage(c)
    <2>1. PICK s \in InOrder(Mapped(c)) :
            run'[c] = [run[c] EXCEPT !.pc = "import", !.last = 0, !.events = @ \o s]
      BY <1>3, <1>r DEF FetchLastPage, Step, TypeOK
    <2>2. /\ run'[c].pc = "import" /\ run'[c].asked = run[c].asked
          /\ run'[c].events = run[c].events \o s
      BY <2>1, <1>r DEF Imports
    <2>5. s \in Seq(Ids) /\ Listed(s) = Mapped(c)
      BY <1>r, PagesAreFinite, OrderedSequences DEF Listed
    <2>6. Mapped(c) \union Listed(run[c].events) \subseteq Listed(run'[c].events)
      BY <1>r, <2>2, <2>5, ListedTogether DEF Imports
    <2>7. \A g \in Rest(c) : Locatable(g) => g \in Mapped(c)
      BY <1>3 DEF FetchLastPage, HasMore, Mapped, Locatable
    <2>8. run[c].pc \in {"page", "retry"}
      BY <1>3 DEF FetchLastPage, Asks
    <2> QED
      BY <1>r, <1>s, <2>2, <2>6, <2>7, <2>8 DEF Accounted
  <1>4. CASE RetryPage(c)
    <2>1. run'[c] = [run[c] EXCEPT !.pc = "retry"] /\ run[c].pc = "page"
      BY <1>4, <1>r DEF RetryPage, GoTo, Step, TypeOK
    <2>2. /\ run'[c].pc = "retry" /\ run'[c].asked = run[c].asked
          /\ run'[c].from = run[c].from /\ run'[c].to = run[c].to
          /\ run'[c].last = run[c].last /\ run'[c].events = run[c].events
      BY <2>1, <1>r DEF Imports
    <2>3. Rest(c)' = Rest(c)
      BY <2>2, <1>r DEF Rest, InRange
    <2> QED
      BY <1>r, <1>s, <2>1, <2>2, <2>3 DEF Accounted
  <1> QED
    BY <1>1, <1>2, <1>3, <1>4

LEMMA ImportAccounts ==
  ASSUME TypeOK, Grows, NEW c \in Children, Accounted(c),
         ImportEvent(c) \/ Flush(c) \/ Commit(c)
  PROVE  Accounted(c)'
  <1>r. /\ c \in Runs /\ run[c] \in Imports /\ UNCHANGED ymane
        /\ run[c].pc = "import"
    BY DEF Runs, TypeOK, ImportEvent, Flush, Commit, Importing
  <1>s. \A e \in DOMAIN ymane : Locatable(e)' <=> Locatable(e)
    BY StillThere
  <1>a. \A e \in run[c].asked : Locatable(e) =>
          e \in Listed(run[c].events) \union Held(c) \union StoredEvents
    BY <1>r DEF Accounted
  <1>1. CASE ImportEvent(c)
    <2> DEFINE e == Head(run[c].events)
               keys == IF /\ Key(c, e) \notin Stored \union run[c].flushed
                          /\ ymane[e].kind # "unmatchable"
                       THEN {Key(c, e)} ELSE {}
    <2>1. run'[c] = [run[c] EXCEPT !.events = Tail(@), !.pending = keys]
      BY <1>1, <1>r DEF ImportEvent, Step, TypeOK
    <2>2. e \in Ids /\ Key(c, e) \in Keys /\ Key(c, e).event = e
      <3>1. run[c].events \in Seq(Ids) /\ run[c].events # <<>>
        BY <1>1, <1>r DEF ImportEvent, Imports
      <3> QED
        BY <3>1, <1>r, HeadTailProperties, KeysAreKeys
    <2>3. Locatable(e) => e \in {k.event : k \in keys \union run[c].flushed} \union StoredEvents
      BY <2>2 DEF Locatable, StoredEvents
    <2>4. Listed(run[c].events) \subseteq {e} \union Listed(Tail(run[c].events))
      BY <1>1, <1>r, ListedFirst DEF ImportEvent, Imports
    <2> HIDE DEF keys, e
    <2>5. /\ run'[c].pc = "import" /\ run'[c].asked = run[c].asked
          /\ run'[c].events = Tail(run[c].events)
          /\ run'[c].pending = keys /\ run'[c].flushed = run[c].flushed
      BY <2>1, <1>r DEF Imports
    <2>6. run[c].pending = {} /\ UNCHANGED rows
      BY <1>1 DEF ImportEvent
    <2>7. Held(c) \subseteq Held(c)' /\ StoredEvents' = StoredEvents
      BY <2>5, <2>6 DEF Held, StoredEvents, Stored
    <2>8. Held(c)' = {k.event : k \in keys \union run[c].flushed}
      BY <2>5 DEF Held
    <2> QED
      BY <1>r, <1>s, <1>a, <2>3, <2>4, <2>5, <2>7, <2>8 DEF Accounted
  <1>2. CASE Flush(c)
    <2>1. run'[c] = [run[c] EXCEPT !.flushed = @ \union run[c].pending, !.pending = {}]
      BY <1>2, <1>r DEF Flush, Step, TypeOK
    <2>2. /\ run'[c].pc = "import" /\ run'[c].asked = run[c].asked
          /\ run'[c].events = run[c].events
          /\ run'[c].pending \union run'[c].flushed
               = run[c].pending \union run[c].flushed
      BY <2>1, <1>r DEF Imports
    <2>3. Held(c)' = Held(c) /\ StoredEvents' = StoredEvents
      BY <1>2, <2>2 DEF Held, StoredEvents, Stored, Flush
    <2> QED
      BY <1>r, <1>s, <1>a, <2>2, <2>3 DEF Accounted
  <1>3. CASE Commit(c)
    <2>1. run'[c] = [Idle EXCEPT !.pc = "reset", !.asked = run[c].asked]
      BY <1>3, <1>r DEF Commit, Step, TypeOK
    <2>2. run'[c].pc = "reset" /\ run'[c].asked = run[c].asked
      BY <2>1 DEF Idle
    <2>3. Listed(run[c].events) = {} /\ run[c].pending = {}
      BY <1>3 DEF Commit, Listed
    <2>4. \A k \in run[c].flushed : k \in Keys /\ rows'[k] > 0
      BY <1>3, <1>r DEF Commit, TypeOK, Imports
    <2>5. Held(c) \subseteq StoredEvents'
      BY <2>3, <2>4 DEF Held, StoredEvents, Stored
    <2> QED
      BY <1>r, <1>s, <1>a, <2>2, <2>3, <2>5 DEF Accounted, Grows
  <1> QED
    BY <1>1, <1>2, <1>3

\* A step of another import, or of the world.
LEMMA OthersStayAccounted ==
  ASSUME TypeOK, Grows, AllAccounted, NEW r \in Runs,
         \A s \in Runs : s # r => run'[s] = run[s],
         r \in Children => Accounted(r)'
  PROVE  AllAccounted'
  <1> SUFFICES ASSUME NEW c \in Children PROVE Accounted(c)'
    BY DEF AllAccounted
  <1>1. CASE c = r
    BY <1>1
  <1>2. CASE c # r
    BY <1>2, StaysAccounted DEF AllAccounted, Runs
  <1> QED
    BY <1>1, <1>2

LEMMA AccountsKept ==
  ASSUME TypeOK, AllAccounted, [Next]_vars
  PROVE  AllAccounted'
  <1>g. Grows
    BY NothingIsForgotten
  <1>r. Children \subseteq Runs /\ Requests \subseteq Runs
        /\ \A q \in Requests : q \notin Children
    BY Actors DEF Runs
  <1>f. run \in [Runs -> Imports]
    BY DEF TypeOK
  <1>s. ASSUME NEW r \in Runs, NEW w, Step(r, w)
        PROVE  \A s \in Runs : s # r => run'[s] = run[s]
    BY <1>s, <1>f DEF Step
  <1>q. ASSUME NEW q \in Requests, NEW w, Step(q, w)
        PROVE  AllAccounted'
    BY <1>q, <1>g, <1>r, <1>s, OthersStayAccounted
  <1>w. ASSUME NEW r \in Runs, NEW w \in Imports, Step(r, w), w.asked = {},
               w.pc \in {"idle", "checkpoint", "login", "refused"},
               w.pc # "refused" => w.last = 0
        PROVE  AllAccounted'
    <2>1. r \in Children => Accounted(r)'
      BY <1>w, <1>g, OwesNothing DEF AllAccounted
    <2> QED
      BY <2>1, <1>w, <1>g, <1>s, OthersStayAccounted
  <1>i. ASSUME NEW r \in Runs, Step(r, Idle)
        PROVE  AllAccounted'
    BY <1>i, <1>w, IdleIsAnImport DEF Idle
  <1>1. ASSUME UNCHANGED run
        PROVE  AllAccounted'
    BY <1>1, <1>g, <1>r, StaysAccounted DEF AllAccounted
  <1>2. ASSUME NEW c \in Children,
               SkipSync(c) \/ StartSync(c) \/ ProceedSync(c)
        PROVE  AllAccounted'
    <2>1. CASE SkipSync(c)
      BY <2>1, <1>i, <1>r DEF SkipSync, Over
    <2>2. CASE StartSync(c)
      <3> DEFINE w == [run[c] EXCEPT !.pc = "checkpoint"]
      <3>1. /\ w \in Imports /\ w.pc = "checkpoint" /\ w.asked = run[c].asked
            /\ w.last = run[c].last
        BY <1>r, <1>f DEF Imports, PCs
      <3>2. Step(c, w) /\ w.last = 0
        BY <2>2, <3>1 DEF StartSync, GoTo, AllAccounted, Accounted
      <3> HIDE DEF w
      <3>3. Accounted(c)'
        BY <1>g, <3>1, <3>2, OwesNothing DEF AllAccounted
      <3> QED
        BY <1>g, <1>r, <1>s, <3>2, <3>3, OthersStayAccounted
    <2>3. CASE Checkpoint(c)
      <3>1. PICK from \in -1..LastDay :
              Step(c, [run[c] EXCEPT !.pc = "login", !.from = from, !.to = today])
        BY <2>3 DEF Checkpoint
      <3> DEFINE w == [run[c] EXCEPT !.pc = "login", !.from = from, !.to = today]
      <3>2. from \in Int /\ today \in Int
        BY Bounds DEF TypeOK, Days
      <3>3. /\ w \in Imports /\ w.pc = "login" /\ w.asked = run[c].asked
            /\ w.last = run[c].last
        BY <3>2, <1>r, <1>f DEF Imports, PCs
      <3>4. Step(c, w) /\ w.last = 0
        BY <2>3, <3>1, <3>3 DEF Checkpoint, AllAccounted, Accounted
      <3> HIDE DEF w
      <3>5. Accounted(c)'
        BY <1>g, <3>3, <3>4, OwesNothing DEF AllAccounted
      <3> QED
        BY <1>g, <1>r, <1>s, <3>4, <3>5, OthersStayAccounted
    <2>4. CASE CountFailure(c)
      BY <2>4, <1>i, <1>r DEF CountFailure, Over
    <2>5. CASE ResetCounter(c)
      BY <2>5, <1>i, <1>r DEF ResetCounter, Over
    <2> QED
      BY <1>2, <2>1, <2>2, <2>3, <2>4, <2>5 DEF ProceedSync
  <1>3. ASSUME NEW r \in Runs, Proceed(r) PROVE AllAccounted'
    <2>1. CASE FetchRaises(r) \/ LoseBatch(r)
      BY <2>1, <1>i DEF FetchRaises, LoseBatch, Over
    <2>2. CASE Login(r) \/ FetchPage(r) \/ FetchLastPage(r)
      <3>1. \E w : Step(r, w)
        BY <2>2 DEF Login, FetchPage, FetchLastPage
      <3>2. r \in Children => Accounted(r)'
        BY <2>2, <1>g, FetchAccounts DEF AllAccounted
      <3> QED
        BY <3>1, <3>2, <1>g, <1>s, OthersStayAccounted
    <2>3. CASE Flush(r) \/ ImportEvent(r) \/ Commit(r)
      <3>1. \E w : Step(r, w)
        BY <2>3 DEF Flush, ImportEvent, Commit
      <3>2. r \in Children => Accounted(r)'
        BY <2>3, <1>g, ImportAccounts DEF AllAccounted
      <3> QED
        BY <3>1, <3>2, <1>g, <1>s, OthersStayAccounted
    <2> QED
      BY <1>3, <2>1, <2>2, <2>3 DEF Proceed
  <1>4. ASSUME NEW r \in Runs, RetryPage(r) \/ Refuse(r) \/ Crash(r)
        PROVE  AllAccounted'
    <2>1. CASE RetryPage(r)
      <3>1. r \in Children => Accounted(r)'
        BY <2>1, <1>g, FetchAccounts DEF AllAccounted
      <3> QED
        BY <2>1, <3>1, <1>g, <1>s, OthersStayAccounted DEF RetryPage, GoTo
    <2>2. CASE Refuse(r)
      <3>1. /\ [Idle EXCEPT !.pc = "refused"] \in Imports
            /\ [Idle EXCEPT !.pc = "refused"].asked = {}
            /\ [Idle EXCEPT !.pc = "refused"].pc = "refused"
        BY IdleIsAnImport DEF Imports, PCs, Idle
      <3> QED
        BY <2>2, <3>1, <1>i, <1>w DEF Refuse
    <2>3. CASE Crash(r)
      BY <2>3, <1>i DEF Crash
    <2> QED
      BY <1>4, <2>1, <2>2, <2>3
  <1>5. ASSUME NEW q \in Requests, NEW from \in Days, NEW to \in Days,
               RequestYmane(q, from, to)
        PROVE  AllAccounted'
    BY <1>5, <1>q DEF RequestYmane
  <1>6. ASSUME NEW q \in Requests, NEW body \in Bodies, RequestManual(q, body)
        PROVE  AllAccounted'
    BY <1>6, <1>q DEF RequestManual
  <1> QED
    BY <1>1, <1>2, <1>3, <1>4, <1>5, <1>6
       DEF Next, vars, Post, CloseCircuit, Midnight, Restart

LEMMA InitIsAccounted == Init => AllAccounted
  BY DEF Init, Idle, AllAccounted, Accounted, Runs

\* When a sync forgets the failures, all that Ymane had for it is stored:
\* whatever the size of a page, however the pages were retried, and whichever
\* events were already there.
THEOREM SyncMissesNothing == Spec => []SyncedIsStored
  <1>1. Spec => [](TypeOK /\ AllAccounted)
    BY InitIsTyped, TypesKept, InitIsAccounted, AccountsKept, PTL DEF Spec
  <1>2. AllAccounted => SyncedIsStored
    BY DEF AllAccounted, Accounted, SyncedIsStored
  <1> QED
    BY <1>1, <1>2, PTL

-----------------------------------------------------------------------------
(***************************************************************************)
(* NoGaps: what a sync asks for begins where nothing is missing before.    *)
(***************************************************************************)
Fetching == {"page", "retry", "import"}

Owned(c) == Listed(run[c].events) \union Held(c)

StartsEmpty(c) == run[c].pc \in {"idle", "checkpoint", "login"} => Owned(c) = {}

\* At most one midnight has passed since the checkpoint was read.
KeepsToItsRange(c) ==
  run[c].pc \in Syncing =>
    /\ run[c].from <= run[c].to /\ run[c].to <= today /\ today <= run[c].to + 1
    /\ \A e \in Owned(c) : e \in DOMAIN ymane /\ ymane[e].day <= run[c].to

\* The days before the last one of the range were over at the login.
AsksForAll(c) ==
  run[c].pc \in Fetching =>
    \A e \in DOMAIN ymane :
      run[c].from <= ymane[e].day /\ ymane[e].day < run[c].to => e \in run[c].asked

SkipsNothing(c) ==
  run[c].pc \in Syncing =>
    /\ StoredEvents = {} => run[c].from = run[c].to - 1
    /\ StoredEvents # {} =>
         \A e \in DOMAIN ymane :
           Locatable(e) /\ since <= ymane[e].day /\ ymane[e].day < run[c].from
             => e \in StoredEvents

Follows(c) ==
  StartsEmpty(c) /\ KeepsToItsRange(c) /\ AsksForAll(c) /\ SkipsNothing(c)

Continuous ==
  Undisturbed =>
    /\ \A e \in DOMAIN ymane : ymane[e].day <= today
    /\ StoredEvents \subseteq DOMAIN ymane
    /\ \A q \in Requests : run[q].pc = "idle"
    /\ \A c \in Children : Follows(c)
    /\ NoGaps

LEMMA DaysAreNumbers ==
  ASSUME TypeOK
  PROVE  /\ today \in Int /\ since \in Int
         /\ \A e \in DOMAIN ymane : ymane[e].day \in Int
         /\ \A r \in Runs : /\ run[r] \in Imports
                            /\ run[r].from \in Int /\ run[r].to \in Int
  <1>1. DOMAIN ymane = 1..Len(ymane) /\ \A i \in 1..Len(ymane) : ymane[i] \in Exceptions
    BY ElementOfSeq, LenProperties DEF TypeOK
  <1> QED
    BY <1>1 DEF TypeOK, Days, Exceptions, Imports

\* A disturbance lasts.
LEMMA NothingHeals ==
  ASSUME [Next]_vars, Undisturbed'
  PROVE  Undisturbed
  <1>1. faults \subseteq faults'
    BY DEF Next, vars, SkipSync, StartSync, ProceedSync, Checkpoint,
           CountFailure, ResetCounter, Proceed, Login, FetchPage,
           FetchLastPage, FetchRaises, Flush, LoseBatch, ImportEvent, Commit,
           RetryPage, Refuse, Crash, RequestYmane, RequestManual, Post, Suffer,
           CloseCircuit, Midnight, Restart
  <1> QED
    BY <1>1 DEF Undisturbed

\* Most steps move one import and nothing the others follow.
Elsewhere == UNCHANGED <<today, ymane, rows, since>>

LEMMA OneMoves ==
  ASSUME TypeOK, Continuous, Undisturbed, Elsewhere,
         NEW c \in Children, NEW w, Step(c, w), Follows(c)'
  PROVE  Continuous'
  <1>1. \A r \in Runs : r # c => run'[r] = run[r]
    BY DEF Step, TypeOK
  <1>2. \A q \in Requests : q # c /\ q \in Runs
    BY Actors DEF Runs
  <1>3. /\ \A e \in DOMAIN ymane' : ymane'[e].day <= today'
        /\ StoredEvents' \subseteq DOMAIN ymane'
        /\ NoGaps'
    BY DEF Continuous, Elsewhere, NoGaps, Undisturbed, StoredEvents, Stored, Locatable
  <1>4. ASSUME NEW d \in Children PROVE Follows(d)'
    <2>1. CASE d = c
      BY <2>1
    <2>2. CASE d # c
      <3>1. run'[d] = run[d]
        BY <1>1, <2>2 DEF Runs
      <3>2. Follows(d)
        BY DEF Continuous
      <3>3. StoredEvents' = StoredEvents
        BY DEF Elsewhere, StoredEvents, Stored
      <3> QED
        BY <3>1, <3>2, <3>3 DEF Elsewhere, Follows, StartsEmpty, KeepsToItsRange,
             AsksForAll, SkipsNothing, Owned, Held, Locatable
    <2> QED
      BY <2>1, <2>2
  <1> QED
    BY <1>1, <1>2, <1>3, <1>4 DEF Continuous

\* An import that is over, or has not begun, follows from nothing.
LEMMA OneRests ==
  ASSUME TypeOK, Continuous, Undisturbed, Elsewhere,
         NEW c \in Children, NEW w \in Imports, Step(c, w),
         w.pc \in {"idle", "checkpoint", "refused"},
         w.events = <<>>, w.pending = {}, w.flushed = {}
  PROVE  Continuous'
  <1>1. run'[c] = w
    BY DEF Step, TypeOK, Runs
  <1>2. Owned(c)' = {}
    BY <1>1 DEF Owned, Listed, Held
  <1>3. Follows(c)'
    BY <1>1, <1>2 DEF Follows, StartsEmpty, KeepsToItsRange, AsksForAll, SkipsNothing,
         Syncing, Fetching
  <1> QED
    BY <1>3, OneMoves

LEMMA OneIsOver ==
  ASSUME TypeOK, Continuous, Undisturbed, Elsewhere,
         NEW c \in Children, Step(c, Idle)
  PROVE  Continuous'
  BY IdleIsAnImport, OneRests DEF Idle

LEMMA ListedApart ==
  ASSUME NEW s \in Seq(Ids), NEW t \in Seq(Ids)
  PROVE  Listed(s \o t) \subseteq Listed(s) \union Listed(t)
  <1>1. /\ DOMAIN s = 1..Len(s) /\ DOMAIN t = 1..Len(t)
        /\ Len(s) \in Nat /\ Len(t) \in Nat
    BY LenProperties
  <1>2. /\ s \o t \in Seq(Ids) /\ Len(s \o t) = Len(s) + Len(t)
        /\ \A i \in 1..Len(s) + Len(t) :
             (s \o t)[i] = IF i <= Len(s) THEN s[i] ELSE t[i - Len(s)]
    BY ConcatProperties
  <1>3. DOMAIN (s \o t) = 1..Len(s) + Len(t)
    BY <1>2, LenProperties
  <1>4. \A i \in DOMAIN (s \o t) :
          \/ i \in DOMAIN s /\ (s \o t)[i] = s[i]
          \/ i - Len(s) \in DOMAIN t /\ (s \o t)[i] = t[i - Len(s)]
    BY <1>1, <1>2, <1>3
  <1> QED
    BY <1>4 DEF Listed

LEMMA ListedLater ==
  ASSUME NEW s \in Seq(Ids), s # <<>>
  PROVE  Listed(Tail(s)) \subseteq Listed(s) /\ Head(s) \in Listed(s)
  <1>1. DOMAIN s = 1..Len(s) /\ Len(s) \in Nat /\ Len(s) # 0
    BY LenProperties, EmptySeq
  <1>2. /\ Head(s) = s[1]
        /\ Tail(s) \in Seq(Ids) /\ Len(Tail(s)) = Len(s) - 1
        /\ \A i \in 1..Len(s) - 1 : Tail(s)[i] = s[i + 1]
    BY HeadTailProperties
  <1>3. DOMAIN Tail(s) = 1..Len(s) - 1
    BY <1>2, LenProperties
  <1>4. \A i \in DOMAIN Tail(s) : i + 1 \in DOMAIN s /\ Tail(s)[i] = s[i + 1]
    BY <1>1, <1>2, <1>3
  <1> QED
    BY <1>1, <1>2, <1>4 DEF Listed

\* The day of the checkpoint is the latest of what is stored: nothing before it
\* is missing.
LEMMA CheckpointFollows ==
  ASSUME TypeOK, Continuous, Undisturbed, NEW c \in Children, Checkpoint(c)
  PROVE  Continuous'
  <1>1. PICK from \in -1..LastDay :
          /\ LastSynced(from)
          /\ Step(c, [run[c] EXCEPT !.pc = "login", !.from = from, !.to = today])
    BY DEF Checkpoint
  <1>2. /\ Elsewhere /\ from \in Int /\ c \in Runs /\ run[c] \in Imports
        /\ run[c].pc = "checkpoint"
    BY Bounds DEF Checkpoint, Elsewhere, Runs, TypeOK
  <1>3. run'[c] = [run[c] EXCEPT !.pc = "login", !.from = from, !.to = today]
    BY <1>1, <1>2 DEF Step, TypeOK
  <1>4. /\ run'[c].pc = "login" /\ run'[c].from = from /\ run'[c].to = today
        /\ run'[c].events = run[c].events /\ run'[c].pending = run[c].pending
        /\ run'[c].flushed = run[c].flushed
    BY <1>2, <1>3 DEF Imports
  <1>5. Owned(c)' = {}
    BY <1>2, <1>4 DEF Continuous, Follows, StartsEmpty, Owned, Held
  <1>6. StoredEvents' = StoredEvents /\ today' = today /\ ymane' = ymane /\ since' = since
    BY <1>2 DEF Elsewhere, StoredEvents, Stored
  <1>7. \A e \in StoredEvents : e \in DOMAIN ymane /\ ymane[e].day <= today
    BY DEF Continuous
  <1>8. from <= today
    BY <1>1, <1>2, <1>7, DaysAreNumbers DEF LastSynced
  <1>9. KeepsToItsRange(c)'
    BY <1>4, <1>5, <1>6, <1>8, DaysAreNumbers DEF KeepsToItsRange
  <1>10. StoredEvents = {} => from = today - 1
    BY <1>1 DEF LastSynced
  <1>11. ASSUME StoredEvents # {}, NEW e \in DOMAIN ymane, Locatable(e),
                since <= ymane[e].day, ymane[e].day < from
         PROVE  e \in StoredEvents
    <2>1. PICK f \in StoredEvents : ymane[f].day = from
      BY <1>1, <1>11 DEF LastSynced
    <2> QED
      BY <1>11, <2>1, DaysAreNumbers DEF Continuous, NoGaps
  <1>12. SkipsNothing(c)'
    BY <1>4, <1>6, <1>10, <1>11 DEF SkipsNothing, Locatable
  <1>13. Follows(c)'
    BY <1>4, <1>5, <1>9, <1>12 DEF Follows, StartsEmpty, AsksForAll, Fetching
  <1> QED
    BY <1>1, <1>2, <1>13, OneMoves

\* The steps from the login to the commit keep to the range.
LEMMA RangeIsKept ==
  ASSUME TypeOK, Continuous, Undisturbed, Elsewhere,
         NEW c \in Children, NEW w \in Imports, Step(c, w),
         run[c].pc \in Syncing, w.pc \in Fetching,
         w.from = run[c].from, w.to = run[c].to,
         \A e \in DOMAIN ymane :
           w.from <= ymane[e].day /\ ymane[e].day < w.to => e \in w.asked,
         \A e \in Listed(w.events) \union {k.event : k \in w.pending \union w.flushed} :
           e \in Owned(c) \union InRange(c)
  PROVE  Continuous'
  <1>1. run'[c] = w /\ Follows(c)
    BY DEF Step, TypeOK, Runs, Continuous
  <1>2. Owned(c)' = Listed(w.events) \union {k.event : k \in w.pending \union w.flushed}
    BY <1>1 DEF Owned, Held
  <1>3. StoredEvents' = StoredEvents /\ today' = today /\ ymane' = ymane /\ since' = since
    BY DEF Elsewhere, StoredEvents, Stored
  <1>4. \A e \in InRange(c) : e \in DOMAIN ymane /\ ymane[e].day <= run[c].to
    BY DaysAreNumbers DEF InRange, Runs
  <1>5. KeepsToItsRange(c)'
    BY <1>1, <1>2, <1>3, <1>4 DEF Follows, KeepsToItsRange
  <1>6. AsksForAll(c)'
    BY <1>1, <1>3 DEF AsksForAll
  <1>7. SkipsNothing(c)'
    BY <1>1, <1>3 DEF Follows, SkipsNothing, Locatable
  <1>8. StartsEmpty(c)'
    BY <1>1 DEF StartsEmpty, Fetching
  <1> QED
    BY <1>5, <1>6, <1>7, <1>8, OneMoves DEF Follows

LEMMA FetchFollows ==
  ASSUME TypeOK, Continuous, Undisturbed, NEW c \in Children,
         Login(c) \/ FetchPage(c) \/ FetchLastPage(c) \/ RetryPage(c)
  PROVE  Continuous'
  <1>r. c \in Runs /\ run[c] \in Imports /\ run[c].events \in Seq(Ids)
        /\ run[c].from \in Int /\ run[c].to \in Int
    BY DEF Runs, TypeOK, Imports
  <1>e. Elsewhere
    BY DEF Elsewhere, Login, FetchPage, FetchLastPage, RetryPage
  <1>m. Mapped(c) \subseteq InRange(c)
    BY DEF Mapped, Page, Rest
  <1>a. run[c].pc \in Fetching =>
          \A e \in DOMAIN ymane :
            run[c].from <= ymane[e].day /\ ymane[e].day < run[c].to => e \in run[c].asked
    BY DEF Continuous, Follows, AsksForAll
  <1>f. FetchPage(c) \/ FetchLastPage(c) \/ RetryPage(c) =>
          run[c].pc \in Fetching /\ run[c].pc \in Syncing
    BY DEF FetchPage, FetchLastPage, RetryPage, Asks, Fetching, Syncing
  <1>1. CASE Login(c)
    <2> DEFINE asked == IF c \in Children THEN InRange(c) ELSE {}
               w == [run[c] EXCEPT !.pc = "page", !.asked = asked]
    <2>1. Step(c, w) /\ run[c].pc = "login"
      BY <1>1 DEF Login
    <2>2. asked = InRange(c) /\ asked \subseteq Ids
      BY IdsOfYmane DEF InRange
    <2> HIDE DEF asked
    <2>3. /\ w \in Imports /\ w.pc = "page" /\ w.asked = asked
          /\ w.from = run[c].from /\ w.to = run[c].to /\ w.events = run[c].events
          /\ w.pending = run[c].pending /\ w.flushed = run[c].flushed
      BY <1>r, <2>2 DEF Imports, PCs
    <2> HIDE DEF w
    <2>4. \A e \in DOMAIN ymane :
            w.from <= ymane[e].day /\ ymane[e].day < w.to => e \in w.asked
      BY <1>r, <2>2, <2>3, DaysAreNumbers DEF InRange
    <2>5. \A e \in Listed(w.events) \union {k.event : k \in w.pending \union w.flushed} :
            e \in Owned(c)
      BY <2>3 DEF Owned, Held
    <2> QED
      BY <1>e, <2>1, <2>3, <2>4, <2>5, RangeIsKept DEF Fetching, Syncing
  <1>t. ASSUME NEW last \in Nat, NEW s \in InOrder(Mapped(c)), NEW pc \in {"page", "import"},
               run[c].pc \in Fetching, run[c].pc \in Syncing,
               Step(c, [run[c] EXCEPT !.pc = pc, !.last = last, !.events = @ \o s])
        PROVE  Continuous'
    <2> DEFINE w == [run[c] EXCEPT !.pc = pc, !.last = last, !.events = @ \o s]
    <2>1. s \in Seq(Ids) /\ Listed(s) = Mapped(c)
      BY <1>r, PagesAreFinite, OrderedSequences DEF Listed
    <2>2. run[c].events \o s \in Seq(Ids)
      BY <1>r, <2>1, ConcatProperties
    <2>3. Listed(run[c].events \o s) \subseteq Listed(run[c].events) \union Mapped(c)
      BY <1>r, <2>1, ListedApart
    <2>4. /\ w \in Imports /\ w.pc = pc /\ w.asked = run[c].asked
          /\ w.from = run[c].from /\ w.to = run[c].to /\ w.events = run[c].events \o s
          /\ w.pending = run[c].pending /\ w.flushed = run[c].flushed
      BY <1>r, <2>2 DEF Imports, PCs
    <2>5. Step(c, w)
      BY <1>t
    <2> HIDE DEF w
    <2>6. \A e \in Listed(w.events) \union {k.event : k \in w.pending \union w.flushed} :
            e \in Owned(c) \union InRange(c)
      BY <1>m, <2>3, <2>4 DEF Owned, Held
    <2>7. \A e \in DOMAIN ymane :
            w.from <= ymane[e].day /\ ymane[e].day < w.to => e \in w.asked
      BY <1>a, <1>t, <2>4
    <2>8. w.pc \in Fetching
      BY <2>4 DEF Fetching
    <2> QED
      BY <1>e, <1>t, <2>4, <2>5, <2>6, <2>7, <2>8, RangeIsKept
  <1>2. CASE FetchPage(c)
    <2>1. PICK e \in Page(c), s \in InOrder(Mapped(c)) :
            /\ \A f \in Page(c) : f <= e
            /\ Step(c, [run[c] EXCEPT !.pc = "page", !.last = Cursor(c, e),
                                      !.events = @ \o s])
      BY <1>2 DEF FetchPage
    <2>2. Cursor(c, e) \in Nat
      BY <1>r, <2>1, CursorLeavesTheRest
    <2> QED
      BY <1>2, <1>f, <1>t, <2>1, <2>2
  <1>3. CASE FetchLastPage(c)
    <2>1. PICK s \in InOrder(Mapped(c)) :
            Step(c, [run[c] EXCEPT !.pc = "import", !.last = 0, !.events = @ \o s])
      BY <1>3 DEF FetchLastPage
    <2> QED
      BY <1>3, <1>f, <1>t, <2>1
  <1>4. CASE RetryPage(c)
    <2> DEFINE w == [run[c] EXCEPT !.pc = "retry"]
    <2>1. Step(c, w)
      BY <1>4 DEF RetryPage, GoTo
    <2>2. /\ w \in Imports /\ w.pc = "retry" /\ w.asked = run[c].asked
          /\ w.from = run[c].from /\ w.to = run[c].to /\ w.events = run[c].events
          /\ w.pending = run[c].pending /\ w.flushed = run[c].flushed
      BY <1>r DEF Imports, PCs
    <2> HIDE DEF w
    <2>3. \A e \in Listed(w.events) \union {k.event : k \in w.pending \union w.flushed} :
            e \in Owned(c)
      BY <2>2 DEF Owned, Held
    <2>4. \A e \in DOMAIN ymane :
            w.from <= ymane[e].day /\ ymane[e].day < w.to => e \in w.asked
      BY <1>a, <1>f, <1>4, <2>2
    <2> QED
      BY <1>e, <1>f, <1>4, <2>1, <2>2, <2>3, <2>4, RangeIsKept DEF Fetching
  <1> QED
    BY <1>1, <1>2, <1>3, <1>4

LEMMA ImportFollows ==
  ASSUME TypeOK, Continuous, Undisturbed, NEW c \in Children,
         Flush(c) \/ ImportEvent(c)
  PROVE  Continuous'
  <1>r. c \in Runs /\ run[c] \in Imports /\ run[c].events \in Seq(Ids)
    BY DEF Runs, TypeOK, Imports
  <1>e. Elsewhere /\ run[c].pc = "import"
    BY DEF Elsewhere, Flush, ImportEvent, Importing
  <1>a. \A e \in DOMAIN ymane :
          run[c].from <= ymane[e].day /\ ymane[e].day < run[c].to => e \in run[c].asked
    BY <1>e DEF Continuous, Follows, AsksForAll, Fetching
  <1>1. CASE Flush(c)
    <2> DEFINE w == [run[c] EXCEPT !.flushed = @ \union run[c].pending, !.pending = {}]
    <2>1. Step(c, w)
      BY <1>1 DEF Flush
    <2>2. /\ w \in Imports /\ w.pc = "import" /\ w.asked = run[c].asked
          /\ w.from = run[c].from /\ w.to = run[c].to /\ w.events = run[c].events
          /\ w.pending \union w.flushed = run[c].pending \union run[c].flushed
      BY <1>r, <1>e DEF Imports
    <2> HIDE DEF w
    <2>3. \A e \in Listed(w.events) \union {k.event : k \in w.pending \union w.flushed} :
            e \in Owned(c)
      BY <2>2 DEF Owned, Held
    <2> QED
      BY <1>a, <1>e, <2>1, <2>2, <2>3, RangeIsKept DEF Fetching, Syncing
  <1>2. CASE ImportEvent(c)
    <2> DEFINE e == Head(run[c].events)
               keys == IF /\ Key(c, e) \notin Stored \union run[c].flushed
                          /\ ymane[e].kind # "unmatchable"
                       THEN {Key(c, e)} ELSE {}
               w == [run[c] EXCEPT !.events = Tail(@), !.pending = keys]
    <2>1. Step(c, w) /\ run[c].events # <<>>
      BY <1>2 DEF ImportEvent
    <2>2. e \in Ids /\ Tail(run[c].events) \in Seq(Ids)
      BY <1>r, <2>1, HeadTailProperties
    <2>3. keys \subseteq Keys /\ \A k \in keys : k.event = e
      BY <1>r, <2>2, KeysAreKeys
    <2>4. Listed(Tail(run[c].events)) \subseteq Listed(run[c].events)
          /\ e \in Listed(run[c].events)
      BY <1>r, <2>1, ListedLater
    <2> HIDE DEF keys, e
    <2>5. /\ w \in Imports /\ w.pc = "import" /\ w.asked = run[c].asked
          /\ w.from = run[c].from /\ w.to = run[c].to /\ w.events = Tail(run[c].events)
          /\ w.pending = keys /\ w.flushed = run[c].flushed
      BY <1>r, <1>e, <2>2, <2>3 DEF Imports
    <2> HIDE DEF w
    <2>6. \A x \in Listed(w.events) \union {k.event : k \in w.pending \union w.flushed} :
            x \in Owned(c)
      BY <2>3, <2>4, <2>5 DEF Owned, Held
    <2> QED
      BY <1>a, <1>e, <2>1, <2>5, <2>6, RangeIsKept DEF Fetching, Syncing
  <1> QED
    BY <1>1, <1>2

\* A commit fills all days of its range but the last, which is over for nobody.
LEMMA CommitFollows ==
  ASSUME TypeOK, Continuous, Undisturbed, AllAccounted', Grows,
         NEW c \in Children, Commit(c)
  PROVE  Continuous'
  <1>r. c \in Runs /\ run[c] \in Imports /\ \A d \in Children : d \in Runs
    BY DEF Runs, TypeOK
  <1>i. /\ run[c].pc = "import" /\ run[c].events = <<>> /\ run[c].pending = {}
        /\ UNCHANGED <<today, ymane>>
    BY DEF Commit, Importing
  <1>c. Follows(c) /\ run[c].from \in Int /\ run[c].to \in Int
    BY <1>r, DaysAreNumbers DEF Continuous
  <1>w. /\ run'[c] = [Idle EXCEPT !.pc = "reset", !.asked = run[c].asked]
        /\ \A r \in Runs : r # c => run'[r] = run[r]
    BY <1>r DEF Commit, Step, TypeOK
  <1>v. run'[c].pc = "reset" /\ run'[c].asked = run[c].asked
    BY <1>w DEF Idle
  <1>1. ASSUME NEW e \in DOMAIN ymane, Locatable(e),
               run[c].from <= ymane[e].day, ymane[e].day < run[c].to
        PROVE  e \in StoredEvents'
    <2>1. e \in run[c].asked
      BY <1>1, <1>c, <1>i DEF Follows, AsksForAll, Fetching
    <2>2. Locatable(e)'
      BY <1>1, <1>i DEF Locatable
    <2> QED
      BY <1>v, <2>1, <2>2 DEF AllAccounted, Accounted
  <1>2. StoredEvents' \subseteq StoredEvents \union Held(c)
    <2>1. \A k \in Keys : rows'[k] > 0 => rows[k] > 0 \/ k \in run[c].flushed
      BY DEF Commit
    <2> QED
      BY <2>1 DEF StoredEvents, Stored, Held
  <1>3. \A e \in Held(c) : e \in DOMAIN ymane /\ ymane[e].day <= run[c].to
    BY <1>c, <1>i DEF Follows, KeepsToItsRange, Syncing, Owned
  <1>4. StoredEvents # {} => since' = since
    BY DEF Commit, StoredEvents
  <1>5. StoredEvents = {} /\ StoredEvents' # {} => since' = run[c].from
    <2>1. StoredEvents = {} /\ StoredEvents' # {} => Stored = {} /\ run[c].flushed # {}
      <3>1. StoredEvents = {} => Stored = {}
        BY DEF StoredEvents
      <3>2. run[c].flushed = {} => Held(c) = {}
        BY <1>i DEF Held
      <3> QED
        BY <1>2, <3>1, <3>2
    <2> QED
      BY <2>1 DEF Commit
  <1>6. StoredEvents \subseteq StoredEvents' /\ StoredEvents' \subseteq DOMAIN ymane'
    BY <1>2, <1>3, <1>i DEF Grows, Continuous
  <1>7. NoGaps'
    <2> SUFFICES ASSUME NEW e \in DOMAIN ymane, Locatable(e), since' <= ymane[e].day,
                        NEW f \in StoredEvents', ymane[f].day > ymane[e].day
                 PROVE  e \in StoredEvents'
      BY <1>i DEF NoGaps, Locatable
    <2>1. e \in DOMAIN ymane /\ f \in DOMAIN ymane /\ ymane[e].day \in Int
          /\ ymane[f].day \in Int
      BY <1>6, <1>i, DaysAreNumbers
    <2>2. CASE f \in StoredEvents
      BY <1>4, <1>6, <2>1, <2>2 DEF Continuous, NoGaps
    <2>3. CASE f \notin StoredEvents
      <3>1. ymane[e].day < run[c].to
        BY <1>2, <1>3, <1>c, <2>1, <2>3
      <3>2. CASE run[c].from <= ymane[e].day
        BY <1>1, <3>1, <3>2
      <3>3. CASE ~(run[c].from <= ymane[e].day)
        <4>1. StoredEvents # {}
          BY <1>5, <3>3
        <4>2. e \in StoredEvents
          BY <1>4, <1>c, <1>i, <2>1, <3>3, <4>1 DEF Follows, SkipsNothing, Syncing
        <4> QED
          BY <1>6, <4>2
      <3> QED
        BY <3>2, <3>3
    <2> QED
      BY <2>2, <2>3
  <1>8. ASSUME NEW d \in Children PROVE Follows(d)'
    <2>1. CASE d = c
      BY <1>v, <2>1 DEF Follows, StartsEmpty, KeepsToItsRange, AsksForAll, SkipsNothing,
         Syncing, Fetching
    <2>2. CASE d # c
      <3>1. run'[d] = run[d] /\ Follows(d) /\ run[d].from \in Int /\ run[d].to \in Int
        BY <1>r, <1>w, <2>2, DaysAreNumbers DEF Continuous
      <3>2. StartsEmpty(d)' /\ KeepsToItsRange(d)' /\ AsksForAll(d)'
        BY <1>i, <3>1 DEF Follows, StartsEmpty, KeepsToItsRange, AsksForAll, Owned, Held
      <3>3. ASSUME run[d].pc \in Syncing, StoredEvents' # {},
                   NEW e \in DOMAIN ymane, Locatable(e), since' <= ymane[e].day,
                   ymane[e].day < run[d].from
            PROVE  e \in StoredEvents'
        <4>1. CASE StoredEvents # {}
          BY <1>4, <1>6, <3>1, <3>3, <4>1 DEF Follows, SkipsNothing
        <4>2. CASE StoredEvents = {}
          <5>1. run[d].from = run[d].to - 1 /\ run[d].to <= today
            BY <3>1, <3>3, <4>2 DEF Follows, SkipsNothing, KeepsToItsRange
          <5>2. today <= run[c].to + 1
            BY <1>c, <1>i DEF Follows, KeepsToItsRange, Syncing
          <5>3. ymane[e].day \in Int /\ today \in Int
            BY DaysAreNumbers
          <5>4. ymane[e].day < run[c].to
            BY <1>c, <3>1, <3>3, <5>1, <5>2, <5>3
          <5>5. run[c].from <= ymane[e].day
            BY <1>5, <3>3, <4>2
          <5> QED
            BY <1>1, <3>3, <5>4, <5>5
        <4> QED
          BY <4>1, <4>2
      <3>4. run[d].pc \in Syncing /\ StoredEvents' = {} => run[d].from = run[d].to - 1
        BY <1>6, <3>1 DEF Follows, SkipsNothing
      <3>5. SkipsNothing(d)'
        BY <1>i, <3>1, <3>3, <3>4 DEF SkipsNothing, Locatable
      <3> QED
        BY <3>2, <3>5 DEF Follows
    <2> QED
      BY <2>1, <2>2
  <1>9. \A q \in Requests : q \in Runs /\ q # c
    BY Actors DEF Runs
  <1> QED
    BY <1>6, <1>7, <1>8, <1>9, <1>i, <1>w DEF Continuous

\* An event of today is after all that has been asked for and finished.
LEMMA PostFollows ==
  ASSUME TypeOK, Continuous, Undisturbed, Undisturbed',
         NEW kind \in Kinds, NEW day \in Days, Post(kind, day)
  PROVE  Continuous'
  <1>1. day = today
    <2>1. CASE day < today /\ kind = "good"
      BY <2>1 DEF Post, Suffer, Undisturbed
    <2>2. CASE ~(day < today /\ kind = "good")
      BY <2>2 DEF Post
    <2> QED
      BY <2>1, <2>2
  <1>2. [kind |-> kind, day |-> day] \in Exceptions
    BY DEF Exceptions
  <1> DEFINE n == Len(ymane)
  <1>3. /\ n \in Nat /\ DOMAIN ymane = 1..n /\ DOMAIN ymane' = 1..n + 1
        /\ \A i \in 1..n : ymane'[i] = ymane[i]
        /\ ymane'[n + 1] = [kind |-> kind, day |-> day]
    BY <1>2, AppendProperties, LenProperties DEF Post, TypeOK
  <1>4. ymane'[n + 1].day = today /\ today \in Int
    BY <1>1, <1>3, DaysAreNumbers
  <1>5. \A e \in DOMAIN ymane' : e = n + 1 \/ (e \in DOMAIN ymane /\ ymane'[e] = ymane[e])
    BY <1>3
  <1>6. DOMAIN ymane \subseteq DOMAIN ymane' /\ \A e \in DOMAIN ymane : ymane'[e] = ymane[e]
    BY <1>3
  <1> HIDE DEF n
  <1>7. UNCHANGED <<today, rows, run, since>> /\ StoredEvents' = StoredEvents
    BY DEF Post, StoredEvents, Stored
  <1>8. \A e \in DOMAIN ymane' : ymane'[e].day <= today
    BY <1>4, <1>5 DEF Continuous
  <1>9. StoredEvents \subseteq DOMAIN ymane /\ NoGaps
    BY DEF Continuous
  <1>10. NoGaps'
    <2> SUFFICES ASSUME NEW e \in DOMAIN ymane', Locatable(e)', since <= ymane'[e].day,
                        NEW f \in StoredEvents, ymane'[f].day > ymane'[e].day
                 PROVE  e \in StoredEvents
      BY <1>7 DEF NoGaps
    <2>1. f \in DOMAIN ymane /\ ymane'[f] = ymane[f] /\ ymane[f].day <= today
          /\ ymane[f].day \in Int
      BY <1>6, <1>9, DaysAreNumbers DEF Continuous
    <2>2. e # n + 1
      BY <1>4, <2>1
    <2>3. e \in DOMAIN ymane /\ ymane'[e] = ymane[e] /\ Locatable(e)
      BY <1>5, <2>2 DEF Locatable
    <2> QED
      BY <1>9, <2>1, <2>3 DEF NoGaps
  <1>11. ASSUME NEW c \in Children PROVE Follows(c)'
    <2>1. Follows(c) /\ run'[c] = run[c] /\ Owned(c)' = Owned(c)
          /\ run[c].from \in Int /\ run[c].to \in Int
      BY <1>7, DaysAreNumbers DEF Continuous, Owned, Held, Runs
    <2>2. StartsEmpty(c)'
      BY <2>1 DEF Follows, StartsEmpty
    <2>3. KeepsToItsRange(c)'
      BY <1>6, <1>7, <2>1 DEF Follows, KeepsToItsRange
    <2>4. AsksForAll(c)'
      <3> SUFFICES ASSUME run[c].pc \in Fetching, NEW e \in DOMAIN ymane',
                          run[c].from <= ymane'[e].day, ymane'[e].day < run[c].to
                   PROVE  e \in run[c].asked
        BY <2>1 DEF AsksForAll
      <3>1. run[c].to <= today
        BY <2>1 DEF Follows, KeepsToItsRange, Fetching, Syncing
      <3>2. e # n + 1
        BY <1>4, <2>1, <3>1
      <3> QED
        BY <1>5, <2>1, <3>2 DEF Follows, AsksForAll
    <2>5. SkipsNothing(c)'
      <3> SUFFICES ASSUME run[c].pc \in Syncing, StoredEvents # {}, NEW e \in DOMAIN ymane',
                          Locatable(e)', since <= ymane'[e].day, ymane'[e].day < run[c].from
                   PROVE  e \in StoredEvents
        BY <1>7, <2>1 DEF SkipsNothing, Follows
      <3>1. run[c].from <= run[c].to /\ run[c].to <= today
        BY <2>1 DEF Follows, KeepsToItsRange
      <3>2. e # n + 1
        BY <1>4, <2>1, <3>1
      <3>3. e \in DOMAIN ymane /\ ymane'[e] = ymane[e] /\ Locatable(e)
        BY <1>5, <3>2 DEF Locatable
      <3> QED
        BY <2>1, <3>3 DEF Follows, SkipsNothing
    <2> QED
      BY <2>2, <2>3, <2>4, <2>5 DEF Follows
  <1> QED
    BY <1>7, <1>8, <1>9, <1>6, <1>10, <1>11 DEF Continuous

LEMMA MidnightFollows ==
  ASSUME TypeOK, Continuous, Undisturbed, Midnight
  PROVE  Continuous'
  <1>1. /\ UNCHANGED <<ymane, rows, run, since>> /\ today' = today + 1
        /\ StoredEvents' = StoredEvents /\ today \in Int
        /\ \A c \in Children : run[c].pc \in Syncing => run[c].to = today
    BY DaysAreNumbers DEF Midnight, StoredEvents, Stored
  <1>2. \A e \in DOMAIN ymane' : ymane'[e].day <= today'
    BY <1>1, DaysAreNumbers DEF Continuous
  <1>3. NoGaps'
    BY <1>1 DEF Continuous, NoGaps, Locatable, Undisturbed
  <1>4. ASSUME NEW c \in Children PROVE Follows(c)'
    <2>1. Follows(c) /\ Owned(c)' = Owned(c)
      BY <1>1 DEF Continuous, Owned, Held
    <2>2. KeepsToItsRange(c)'
      BY <1>1, <2>1 DEF Follows, KeepsToItsRange
    <2> QED
      BY <1>1, <2>1, <2>2 DEF Follows, StartsEmpty, AsksForAll, SkipsNothing, Locatable
  <1> QED
    BY <1>1, <1>2, <1>3, <1>4 DEF Continuous

LEMMA ContinuousKept ==
  ASSUME TypeOK, AllAccounted, Continuous, [Next]_vars
  PROVE  Continuous'
  <1> SUFFICES ASSUME Undisturbed' PROVE Continuous'
    BY DEF Continuous
  <1>u. Undisturbed
    BY NothingHeals
  <1>q. \A q \in Requests : run[q].pc = "idle"
    BY <1>u DEF Continuous
  <1>r. \A r \in Runs : r \in Children \/ r \in Requests
    BY DEF Runs
  <1>c. \A c \in Children : c \in Runs /\ run[c] \in Imports
    BY DEF Runs, TypeOK
  <1>1. ASSUME UNCHANGED <<today, ymane, rows, run, since>>
        PROVE  Continuous'
    <2>1. StoredEvents' = StoredEvents
      BY <1>1 DEF StoredEvents, Stored
    <2> QED
      BY <1>1, <1>u, <2>1 DEF Continuous, NoGaps, Locatable, Follows, StartsEmpty,
         KeepsToItsRange, AsksForAll, SkipsNothing, Owned, Held, Undisturbed
  <1>2. ASSUME NEW c \in Children,
               SkipSync(c) \/ StartSync(c) \/ ProceedSync(c)
        PROVE  Continuous'
    <2>1. CASE SkipSync(c) \/ CountFailure(c) \/ ResetCounter(c)
      BY <1>u, <2>1, OneIsOver DEF SkipSync, CountFailure, ResetCounter, Over, Elsewhere
    <2>2. CASE StartSync(c)
      <3> DEFINE w == [run[c] EXCEPT !.pc = "checkpoint"]
      <3>1. /\ w \in Imports /\ w.pc = "checkpoint" /\ w.events = run[c].events
            /\ w.pending = run[c].pending /\ w.flushed = run[c].flushed
        BY <1>c DEF Imports, PCs
      <3>2. Step(c, w) /\ Elsewhere /\ run[c].pc = "idle"
        BY <2>2 DEF StartSync, GoTo, Elsewhere
      <3> HIDE DEF w
      <3>3. Owned(c) = {}
        BY <1>u, <3>2 DEF Continuous, Follows, StartsEmpty
      <3>4. run'[c] = w
        BY <1>c, <3>2 DEF Step, TypeOK
      <3>5. Owned(c)' = {}
        BY <3>1, <3>3, <3>4 DEF Owned, Held
      <3>6. Follows(c)'
        BY <3>1, <3>4, <3>5 DEF Follows, StartsEmpty, KeepsToItsRange, AsksForAll,
           SkipsNothing, Syncing, Fetching
      <3> QED
        BY <1>u, <3>2, <3>6, OneMoves
    <2>3. CASE Checkpoint(c)
      BY <1>u, <2>3, CheckpointFollows
    <2> QED
      BY <1>2, <2>1, <2>2, <2>3 DEF ProceedSync
  <1>3. ASSUME NEW r \in Runs, Proceed(r) PROVE Continuous'
    <2>1. r \in Children
      BY <1>3, <1>q, <1>r DEF Proceed, Login, FetchPage, FetchLastPage, FetchRaises, Asks,
         Flush, LoseBatch, ImportEvent, Commit, Importing
    <2>2. CASE FetchRaises(r) \/ LoseBatch(r)
      BY <1>u, <2>1, <2>2, OneIsOver DEF FetchRaises, LoseBatch, Over, Elsewhere
    <2>3. CASE Login(r) \/ FetchPage(r) \/ FetchLastPage(r)
      BY <1>u, <2>1, <2>3, FetchFollows
    <2>4. CASE Flush(r) \/ ImportEvent(r)
      BY <1>u, <2>1, <2>4, ImportFollows
    <2>5. CASE Commit(r)
      BY <1>u, <2>1, <2>5, AccountsKept, NothingIsForgotten, CommitFollows
    <2> QED
      BY <1>3, <2>2, <2>3, <2>4, <2>5 DEF Proceed
  <1>4. ASSUME NEW r \in Runs, RetryPage(r) \/ Refuse(r) \/ Crash(r)
        PROVE  Continuous'
    <2>1. r \in Children
      BY <1>4, <1>q, <1>r DEF RetryPage, Refuse, Crash
    <2>2. CASE RetryPage(r)
      BY <1>u, <2>1, <2>2, FetchFollows
    <2>3. CASE Refuse(r)
      <3> DEFINE w == [Idle EXCEPT !.pc = "refused"]
      <3>1. /\ w \in Imports /\ w.pc = "refused" /\ w.events = <<>>
            /\ w.pending = {} /\ w.flushed = {}
        BY IdleIsAnImport DEF Imports, PCs, Idle
      <3>2. Step(r, w) /\ Elsewhere
        BY <2>1, <2>3 DEF Refuse, Elsewhere
      <3> QED
        BY <1>u, <2>1, <3>1, <3>2, OneRests
    <2>4. CASE Crash(r)
      BY <1>u, <2>1, <2>4, OneIsOver DEF Crash, Elsewhere
    <2> QED
      BY <1>4, <2>2, <2>3, <2>4
  <1>5. ASSUME NEW q \in Requests, NEW from \in Days, NEW to \in Days,
               RequestYmane(q, from, to)
        PROVE  FALSE
    BY <1>5 DEF RequestYmane, Suffer, Undisturbed
  <1>6. ASSUME NEW q \in Requests, NEW body \in Bodies, RequestManual(q, body)
        PROVE  FALSE
    BY <1>6 DEF RequestManual, Suffer, Undisturbed
  <1>7. ASSUME NEW kind \in Kinds, NEW day \in Days, Post(kind, day)
        PROVE  Continuous'
    BY <1>7, <1>u, PostFollows
  <1>8. CASE Midnight
    BY <1>8, <1>u, MidnightFollows
  <1> QED
    BY <1>1, <1>2, <1>3, <1>4, <1>5, <1>6, <1>7, <1>8
       DEF Next, vars, CloseCircuit, Restart

LEMMA InitIsContinuous == Init => Continuous
  BY DEF Init, Idle, Continuous, NoGaps, Follows, StartsEmpty, KeepsToItsRange, AsksForAll,
     SkipsNothing, Owned, Held, Listed, StoredEvents, Stored, Syncing, Fetching, Runs

\* The checkpoint hides nothing, however many syncs overlap, begin with an empty
\* table, fail or are started again, as long as only syncs store events and none
\* comes late.
THEOREM CheckpointHidesNothing == Spec => []NoGaps
  <1>1. Spec => [](TypeOK /\ AllAccounted /\ Continuous)
    BY InitIsTyped, TypesKept, InitIsAccounted, AccountsKept, InitIsContinuous,
       ContinuousKept, PTL DEF Spec
  <1>2. Continuous => NoGaps
    BY DEF Continuous, NoGaps
  <1> QED
    BY <1>1, <1>2, PTL
==============================================================================
