------------------------- MODULE DatasetExportProofs -------------------------
(***************************************************************************)
(* Proofs about reviews and exports, for any detections, jobs, labels and  *)
(* number of requests.                                                     *)
(***************************************************************************)
EXTENDS DatasetExport, TLAPS

(***************************************************************************)
(* Requests.                                                               *)
(***************************************************************************)
LEMMA ReadingType ==
  ASSUME NEW pc \in Busy, NEW rows \in SUBSET Detections,
         NEW writes \in SUBSET Detections
  PROVE  Reading(pc, rows, writes) \in Request
BY DEF Reading, Request, Statuses

LEMMA GoesOnType ==
  ASSUME TypeOK, NEW r \in Requests, NEW work \in Request \union {Idle},
         req' = [req EXCEPT ![r] = work]
  PROVE  /\ req' \in [Requests -> Request \union {Idle}]
         /\ req'[r] = work
         /\ \A q \in Requests : q # r => req'[q] = req[q]
BY DEF TypeOK

LEMMA BusyType ==
  ASSUME TypeOK, NEW r \in Requests, req[r].pc \in Busy
  PROVE  req[r] \in Request
BY DEF TypeOK, Idle, Busy

\* The record a new request starts with.
LEMMA ReviewWork ==
  ASSUME ReviewAssumption, NEW d \in Detections, NEW verdict \in Verdicts,
         NEW l \in Labels \union {NoLabel}, NEW pc \in {"label", "review"},
         NEW writes \in SUBSET Detections
  PROVE  LET w == [Reading(pc, {d}, writes) EXCEPT !.verdict = verdict, !.label = l]
         IN  /\ w \in Request
             /\ w.pc = pc /\ w.rows = {d} /\ w.writes = writes
             /\ w.verdict = verdict /\ w.label = l /\ w.labelled = FALSE
<1>1. verdict \in Statuses
  BY DEF ReviewAssumption
<1> QED
  BY <1>1 DEF Reading, Request, Busy

LEMMA DeleteWork ==
  ASSUME NEW D \in SUBSET Detections, NEW j \in Jobs
  PROVE  LET w == [Reading("labels", D, {}) EXCEPT !.job = j]
         IN  w \in Request /\ w.pc = "labels" /\ w.rows = D /\ w.job = j
BY DEF Reading, Request, Busy, Statuses

(***************************************************************************)
(* Types.                                                                  *)
(***************************************************************************)
LEMMA TypeInit == ASSUME ReviewAssumption, Init PROVE TypeOK
BY DEF Init, ReviewInit, TypeOK, ReviewAssumption, Statuses

LEMMA StatusType ==
  ASSUME TypeOK, NEW D, NEW s \in Statuses, SetStatus(D, s)
  PROVE  status' \in [Detections -> Statuses]
BY DEF TypeOK, SetStatus

LEMMA AcceptType ==
  ASSUME TypeOK, NEW r \in Requests, NEW work \in Request, Accept(r, work)
  PROVE  TypeOK'
<1>1. req' \in [Requests -> Request \union {Idle}]
  BY GoesOnType DEF Accept
<1>2. left' \in Nat
  BY DEF Accept, TypeOK
<1> QED
  BY <1>1, <1>2 DEF Accept, TypeOK, detectionVars

LEMMA AnswerType ==
  ASSUME TypeOK, NEW r \in Requests, Answer(r)
  PROVE  /\ req' \in [Requests -> Request \union {Idle}]
         /\ left' = left
BY GoesOnType DEF Answer, GoOn

LEMMA RefuseType ==
  ASSUME TypeOK, NEW r \in Requests, Refuse(r)
  PROVE  TypeOK'
BY AnswerType DEF Refuse, TypeOK, detectionVars

LEMMA ServeType ==
  ASSUME ReviewAssumption, TypeOK, NEW r \in Requests, Serve(r)
  PROVE  TypeOK'
<1>1. CASE ReadLabel(r)
  <2>1. req[r] \in Request
    BY <1>1, BusyType DEF ReadLabel, Busy
  <2>2. [req[r] EXCEPT !.pc = "review",
                       !.labelled = req[r].rows \subseteq Labelled] \in Request
    BY <2>1 DEF Request, Busy
  <2>3. req' \in [Requests -> Request \union {Idle}]
    BY <1>1, <2>2, GoesOnType DEF ReadLabel, GoOn
  <2> QED
    BY <1>1, <2>3 DEF ReadLabel, GoOn, TypeOK, detectionVars
<1>2. CASE CommitReview(r)
  <2>1. req[r] \in Request
    BY <1>2, BusyType DEF CommitReview, Busy
  <2>2. req[r].verdict \in Statuses /\ req[r].label \in Labels \union {NoLabel}
    BY <2>1 DEF Request
  <2>3. status' \in [Detections -> Statuses]
    BY <1>2, <2>2, StatusType DEF CommitReview
  <2>4. label' \in [Detections -> Labels \union {NoLabel}]
    BY <1>2, <2>2 DEF CommitReview, TypeOK
  <2> QED
    BY <1>2, <2>3, <2>4, AnswerType DEF CommitReview, TypeOK
<1>3. CASE CommitUndo(r)
  <2>1. status' \in [Detections -> Statuses]
    BY <1>3, StatusType DEF CommitUndo, Statuses
  <2> QED
    BY <1>3, <2>1, AnswerType DEF CommitUndo, TypeOK
<1>4. CASE CommitCorrect(r)
  <2>1. req[r] \in Request
    BY <1>4, BusyType DEF CommitCorrect, Busy
  <2>2. located' \subseteq Detections
    BY <1>4, <2>1 DEF CommitCorrect, TypeOK, Request
  <2> QED
    BY <1>4, <2>2, AnswerType DEF CommitCorrect, TypeOK
<1>5. CASE CommitResolve(r)
  <2>1. status' \in [Detections -> Statuses]
    BY <1>5, StatusType DEF CommitResolve, Statuses
  <2> QED
    BY <1>5, <2>1, AnswerType DEF CommitResolve, TypeOK
<1>6. CASE DeleteLabels(r)
  <2>1. req[r] \in Request
    BY <1>6, BusyType DEF DeleteLabels, Busy
  <2>2. [req[r] EXCEPT !.pc = "delete",
                       !.writes = req[r].rows \cap Labelled] \in Request
    BY <2>1 DEF Request, Busy
  <2>3. req' \in [Requests -> Request \union {Idle}]
    BY <1>6, <2>2, GoesOnType DEF DeleteLabels, GoOn
  <2> QED
    BY <1>6, <2>3 DEF DeleteLabels, GoOn, TypeOK, detectionVars
<1>7. CASE FinishDelete(r)
  BY <1>7, AnswerType DEF FinishDelete, TypeOK
<1>8. CASE ReviewFails(r) \/ RowGone(r) \/ DeleteFails(r)
  BY <1>8, RefuseType DEF ReviewFails, RowGone, DeleteFails
<1> QED
  BY <1>1, <1>2, <1>3, <1>4, <1>5, <1>6, <1>7, <1>8 DEF Serve

LEMMA TypeStep ==
  ASSUME ReviewAssumption, TypeOK, Next
  PROVE  TypeOK'
<1>1. ASSUME NEW r \in Requests, NEW d \in Detections, NEW verdict \in Verdicts,
             NEW l \in Labels \union {NoLabel}, StartReview(r, d, verdict, l)
      PROVE  TypeOK'
  <2> DEFINE pc == IF verdict = "validated" THEN "label" ELSE "review"
  <2> DEFINE writes == IF verdict = "pending" THEN {} ELSE {d}
  <2>1. [Reading(pc, {d}, writes) EXCEPT !.verdict = verdict, !.label = l] \in Request
    <3>1. pc \in {"label", "review"} /\ writes \in SUBSET Detections
      OBVIOUS
    <3> HIDE DEF pc, writes
    <3> QED
      BY <3>1, ReviewWork
  <2> QED
    BY <1>1, <2>1, AcceptType DEF StartReview
<1>2. ASSUME NEW r \in Requests, NEW d \in Detections,
             StartUndo(r, d) \/ StartCorrect(r, d)
      PROVE  TypeOK'
  BY <1>2, AcceptType, ReadingType DEF StartUndo, StartCorrect, Busy
<1>3. ASSUME NEW r \in Requests, NEW D \in SUBSET Detections, StartResolve(r, D)
      PROVE  TypeOK'
  BY <1>3, AcceptType, ReadingType DEF StartResolve, Busy
<1>4. ASSUME NEW r \in Requests, NEW j \in Jobs, StartDelete(r, j) PROVE TypeOK'
  <2>1. RowsOf(j) \in SUBSET Detections
    BY DEF RowsOf, TypeOK
  <2>2. [Reading("labels", RowsOf(j), {}) EXCEPT !.job = j] \in Request
    BY <2>1, DeleteWork
  <2> QED
    BY <1>4, <2>2, AcceptType DEF StartDelete
<1>5. ASSUME NEW e \in Exporters, Export(e) PROVE TypeOK'
  <2>1. UNCHANGED reviewVars
    BY <1>5 DEF Export, ReadVersion, ReadLabels, Upload, UploadFails, InsertFails,
                ExportStep
  <2> QED
    BY <2>1 DEF TypeOK, reviewVars
<1> QED
  BY <1>1, <1>2, <1>3, <1>4, <1>5, ServeType DEF Next, ReviewNext

\* Every variable of the review handlers keeps its type.
THEOREM TypeCorrect ==
  ASSUME ReviewAssumption
  PROVE  Spec => []TypeOK
<1>1. TypeOK /\ UNCHANGED vars => TypeOK'
  BY DEF TypeOK, vars, reviewVars
<1> QED
  BY <1>1, TypeInit, TypeStep, PTL DEF Spec

(***************************************************************************)
(* Validated detections have a label and coordinates.                      *)
(***************************************************************************)
\* What a request may rely on when it commits.
Sound(w) ==
  /\ w.pc \in {"label", "review"} => w.writes \subseteq w.rows
  /\ w.pc \in {"label", "review"} /\ w.verdict = "validated" =>
       w.rows \subseteq located /\ w.label # NoLabel
  /\ w.pc = "review" /\ w.verdict = "validated" /\ w.labelled =>
       w.rows \cap present \subseteq Labelled
  /\ w.pc = "labels" => \A d \in w.rows : JobOf[d] = w.job
  /\ w.pc = "delete" => \A d \in w.writes : JobOf[d] = w.job

RequestsSound == \A r \in Requests : Sound(req[r])

ReviewInv ==
  TypeOK /\ RequestsSound /\ ValidatedIsLabelled /\ LocatedWhenValidated

\* Coordinates stay, rows do not come back, and a label goes with its row.
Monotone ==
  /\ located \subseteq located'
  /\ present' \subseteq present
  /\ present' \cap Labelled \subseteq Labelled'

LEMMA SoundStays ==
  ASSUME Monotone, NEW r \in Requests, req'[r] = req[r], Sound(req[r])
  PROVE  Sound(req[r])'
BY DEF Monotone, Sound

\* No detection becomes validated.
LEMMA NothingValidated ==
  ASSUME Monotone, ValidatedIsLabelled, LocatedWhenValidated,
         \A d \in present' : status'[d] = "validated" => status[d] = "validated"
  PROVE  ValidatedIsLabelled' /\ LocatedWhenValidated'
BY DEF Monotone, ValidatedIsLabelled, LocatedWhenValidated

LEMMA OneRequest ==
  ASSUME TypeOK, RequestsSound, Monotone, NEW r \in Requests,
         NEW work \in Request \union {Idle}, req' = [req EXCEPT ![r] = work],
         Sound(req[r])'
  PROVE  RequestsSound'
BY SoundStays, GoesOnType DEF RequestsSound

LEMMA IdleIsSound ==
  ASSUME TypeOK, NEW r \in Requests, Answer(r)
  PROVE  Sound(req[r])'
<1>1. req'[r].pc = "idle"
  BY GoesOnType DEF Answer, GoOn, Idle
<1> QED
  BY <1>1 DEF Sound

LEMMA AnswerSound ==
  ASSUME ReviewInv, NEW r \in Requests, Answer(r), Monotone
  PROVE  RequestsSound'
BY IdleIsSound, OneRequest DEF ReviewInv, Answer, GoOn

\* A step that only answers, with what it leaves of the tables.
LEMMA AnswerStep ==
  ASSUME ReviewInv, TypeOK', NEW r \in Requests, Answer(r), Monotone,
         \A d \in present' : status'[d] = "validated" => status[d] = "validated"
  PROVE  ReviewInv'
<1>1. RequestsSound'
  BY AnswerSound
<1>2. ValidatedIsLabelled' /\ LocatedWhenValidated'
  BY NothingValidated DEF ReviewInv
<1> QED
  BY <1>1, <1>2 DEF ReviewInv

\* A step that changes no table.
LEMMA TablesSame ==
  ASSUME UNCHANGED detectionVars
  PROVE  /\ Monotone
         /\ \A d \in present' : status'[d] = "validated" => status[d] = "validated"
BY DEF detectionVars, Monotone, Labelled

LEMMA RequestStep ==
  ASSUME ReviewInv, TypeOK', NEW r \in Requests, UNCHANGED detectionVars,
         NEW work \in Request, req' = [req EXCEPT ![r] = work], Sound(req[r])'
  PROVE  ReviewInv'
<1>1. RequestsSound'
  BY TablesSame, OneRequest DEF ReviewInv
<1>2. ValidatedIsLabelled' /\ LocatedWhenValidated'
  BY TablesSame, NothingValidated DEF ReviewInv
<1> QED
  BY <1>1, <1>2 DEF ReviewInv

LEMMA ServeStep ==
  ASSUME ReviewAssumption, ReviewInv, TypeOK', NEW r \in Requests, Serve(r)
  PROVE  ReviewInv'
<1> USE DEF ReviewInv
<1>0. TypeOK /\ Sound(req[r])
  BY DEF RequestsSound
<1>1. CASE ReadLabel(r)
  <2> DEFINE w == [req[r] EXCEPT !.pc = "review",
                                 !.labelled = req[r].rows \subseteq Labelled]
  <2>1. req[r] \in Request /\ req[r].pc = "label"
    BY <1>0, <1>1, BusyType DEF ReadLabel, Busy
  <2>2. /\ w \in Request /\ w.pc = "review" /\ w.rows = req[r].rows
        /\ w.writes = req[r].writes /\ w.verdict = req[r].verdict
        /\ w.label = req[r].label /\ w.labelled = (req[r].rows \subseteq Labelled)
    BY <2>1 DEF Request, Busy
  <2>3. req' = [req EXCEPT ![r] = w] /\ UNCHANGED detectionVars
    BY <1>1 DEF ReadLabel, GoOn
  <2> HIDE DEF w
  <2>4. req'[r] = w
    BY <1>0, <2>2, <2>3, GoesOnType
  <2>5. Sound(req[r])'
    BY <1>0, <2>1, <2>2, <2>3, <2>4 DEF Sound, detectionVars, Labelled
  <2> QED
    BY <2>2, <2>3, <2>5, RequestStep
<1>2. CASE CommitReview(r)
  <2>1. req[r] \in Request /\ req[r].pc = "review"
    BY <1>0, <1>2, BusyType DEF CommitReview, Busy
  <2>2. Inserts(r) => req[r].label # NoLabel
    BY <1>0, <2>1 DEF Inserts, Sound
  <2>3. /\ present' = present /\ located' = located
        /\ \A d \in Detections : label'[d] =
             IF d \in req[r].rows /\ Inserts(r) THEN req[r].label ELSE label[d]
        /\ \A d \in Detections : status'[d] =
             IF d \in req[r].writes THEN req[r].verdict ELSE status[d]
    BY <1>2 DEF CommitReview, SetStatus
  <2>4. Monotone
    BY <2>2, <2>3 DEF Monotone, Labelled
  <2>5. RequestsSound'
    BY <1>2, <2>4, AnswerSound DEF CommitReview
  <2>6. ASSUME NEW d \in present', status'[d] = "validated"
        PROVE  d \in Labelled' /\ d \in located'
    <3>1. d \in present /\ d \in Detections
      BY <1>0, <2>3, <2>6 DEF TypeOK
    <3>2. CASE d \in req[r].writes
      <4>1. req[r].verdict = "validated" /\ d \in req[r].rows
        BY <1>0, <2>1, <2>3, <2>6, <3>1, <3>2 DEF Sound
      <4>2. d \in located'
        BY <1>0, <2>1, <2>3, <4>1 DEF Sound
      <4>3. CASE Inserts(r)
        BY <2>2, <2>3, <3>1, <4>1, <4>2, <4>3 DEF Labelled
      <4>4. CASE ~Inserts(r)
        <5>1. d \in Labelled
          BY <1>0, <2>1, <3>1, <4>1, <4>4 DEF Sound, Inserts
        <5> QED
          BY <2>3, <2>4, <3>1, <4>2, <5>1 DEF Monotone
      <4> QED
        BY <4>3, <4>4
    <3>3. CASE d \notin req[r].writes
      <4>1. status[d] = "validated"
        BY <2>3, <2>6, <3>1, <3>3
      <4> QED
        BY <2>3, <2>4, <3>1, <4>1
           DEF Monotone, ValidatedIsLabelled, LocatedWhenValidated
    <3> QED
      BY <3>2, <3>3
  <2> QED
    BY <2>5, <2>6 DEF ValidatedIsLabelled, LocatedWhenValidated
<1>3. CASE CommitUndo(r)
  <2>1. Monotone
    BY <1>3 DEF CommitUndo, Monotone, Labelled
  <2>2. \A d \in present' : status'[d] = "validated" => status[d] = "validated"
    BY <1>0, <1>3 DEF CommitUndo, SetStatus, TypeOK
  <2> QED
    BY <1>3, <2>1, <2>2, AnswerStep DEF CommitUndo
<1>4. CASE CommitCorrect(r)
  <2>1. Monotone
    BY <1>4 DEF CommitCorrect, Monotone, Labelled
  <2>2. \A d \in present' : status'[d] = "validated" => status[d] = "validated"
    BY <1>4 DEF CommitCorrect
  <2> QED
    BY <1>4, <2>1, <2>2, AnswerStep DEF CommitCorrect
<1>5. CASE CommitResolve(r)
  <2>1. Monotone
    BY <1>5 DEF CommitResolve, Monotone, Labelled
  <2>2. \A d \in present' : status'[d] = "validated" => status[d] = "validated"
    BY <1>0, <1>5 DEF CommitResolve, SetStatus, TypeOK
  <2> QED
    BY <1>5, <2>1, <2>2, AnswerStep DEF CommitResolve
<1>6. CASE DeleteLabels(r)
  <2> DEFINE w == [req[r] EXCEPT !.pc = "delete",
                                 !.writes = req[r].rows \cap Labelled]
  <2>1. req[r] \in Request /\ req[r].pc = "labels"
    BY <1>0, <1>6, BusyType DEF DeleteLabels, Busy
  <2>2. /\ w \in Request /\ w.pc = "delete" /\ w.job = req[r].job
        /\ w.writes = req[r].rows \cap Labelled
    BY <2>1 DEF Request, Busy
  <2>3. req' = [req EXCEPT ![r] = w] /\ UNCHANGED detectionVars
    BY <1>6 DEF DeleteLabels, GoOn
  <2> HIDE DEF w
  <2>4. req'[r] = w
    BY <1>0, <2>2, <2>3, GoesOnType
  <2>5. Sound(req[r])'
    BY <1>0, <2>1, <2>2, <2>4 DEF Sound
  <2> QED
    BY <2>2, <2>3, <2>5, RequestStep
<1>7. CASE FinishDelete(r)
  <2>1. \A d \in req[r].writes : JobOf[d] = req[r].job
    BY <1>0, <1>7 DEF FinishDelete, Sound
  <2>2. Monotone
    BY <1>0, <1>7, <2>1 DEF FinishDelete, Monotone, Labelled, RowsOf, TypeOK
  <2>3. \A d \in present' : status'[d] = "validated" => status[d] = "validated"
    BY <1>7 DEF FinishDelete
  <2> QED
    BY <1>7, <2>2, <2>3, AnswerStep DEF FinishDelete
<1>8. CASE ReviewFails(r) \/ RowGone(r) \/ DeleteFails(r)
  <2>1. Refuse(r)
    BY <1>8 DEF ReviewFails, RowGone, DeleteFails
  <2> QED
    BY <2>1, TablesSame, AnswerStep DEF Refuse
<1> QED
  BY <1>1, <1>2, <1>3, <1>4, <1>5, <1>6, <1>7, <1>8 DEF Serve

LEMMA AcceptStep ==
  ASSUME ReviewInv, TypeOK', NEW r \in Requests, NEW work \in Request,
         Accept(r, work), Sound(req[r])'
  PROVE  ReviewInv'
BY RequestStep DEF Accept

LEMMA ReviewInvStep ==
  ASSUME ReviewAssumption, ReviewInv, Next
  PROVE  ReviewInv'
<1>0. TypeOK /\ TypeOK'
  BY TypeStep DEF ReviewInv
<1>1. ASSUME NEW r \in Requests, NEW d \in Detections, NEW verdict \in Verdicts,
             NEW l \in Labels \union {NoLabel}, StartReview(r, d, verdict, l)
      PROVE  ReviewInv'
  <2> DEFINE pc == IF verdict = "validated" THEN "label" ELSE "review"
  <2> DEFINE writes == IF verdict = "pending" THEN {} ELSE {d}
  <2> DEFINE w == [Reading(pc, {d}, writes) EXCEPT !.verdict = verdict, !.label = l]
  <2>1. /\ pc \in {"label", "review"}
        /\ writes \in SUBSET {d} /\ writes \in SUBSET Detections
    OBVIOUS
  <2>2. Accept(r, w)
    BY <1>1 DEF StartReview
  <2> HIDE DEF pc, writes
  <2>3. /\ w \in Request /\ w.pc = pc /\ w.rows = {d} /\ w.writes = writes
        /\ w.verdict = verdict /\ w.label = l /\ w.labelled = FALSE
    <3>1. verdict \in Statuses
      BY DEF ReviewAssumption
    <3> QED
      BY <2>1, <3>1 DEF Reading, Request, Busy
  <2> HIDE DEF w
  <2>4. req'[r] = w
    BY <1>0, <2>2, <2>3, GoesOnType DEF Accept
  <2>5. UNCHANGED <<located, present, label>>
    BY <2>2 DEF Accept, detectionVars
  <2>6. Sound(req[r])'
    BY <1>1, <2>1, <2>3, <2>4, <2>5 DEF StartReview, Sound
  <2> QED
    BY <1>0, <2>2, <2>3, <2>6, AcceptStep
<1>2. ASSUME NEW r \in Requests, NEW pc \in {"undo", "correct", "resolve"},
             NEW D \in SUBSET Detections, NEW W \in SUBSET Detections,
             Accept(r, Reading(pc, D, W))
      PROVE  ReviewInv'
  <2>1. Reading(pc, D, W) \in Request
    BY ReadingType DEF Busy
  <2>2. req'[r] = Reading(pc, D, W)
    BY <1>0, <1>2, <2>1, GoesOnType DEF Accept
  <2>3. req'[r].pc = pc
    BY <2>2 DEF Reading
  <2>4. Sound(req[r])'
    BY <2>3 DEF Sound
  <2> QED
    BY <1>0, <1>2, <2>1, <2>4, AcceptStep
<1>3. ASSUME NEW r \in Requests, NEW d \in Detections, StartUndo(r, d)
      PROVE  ReviewInv'
  BY <1>2, <1>3 DEF StartUndo
<1>4. ASSUME NEW r \in Requests, NEW d \in Detections, StartCorrect(r, d)
      PROVE  ReviewInv'
  BY <1>2, <1>4 DEF StartCorrect
<1>5. ASSUME NEW r \in Requests, NEW D \in SUBSET Detections, StartResolve(r, D)
      PROVE  ReviewInv'
  BY <1>2, <1>5 DEF StartResolve
<1>6. ASSUME NEW r \in Requests, NEW j \in Jobs, StartDelete(r, j)
      PROVE  ReviewInv'
  <2> DEFINE w == [Reading("labels", RowsOf(j), {}) EXCEPT !.job = j]
  <2>1. RowsOf(j) \in SUBSET Detections
    BY <1>0 DEF RowsOf, TypeOK
  <2>2. w \in Request /\ w.pc = "labels" /\ w.rows = RowsOf(j) /\ w.job = j
    BY <2>1, DeleteWork
  <2>3. Accept(r, w)
    BY <1>6 DEF StartDelete
  <2> HIDE DEF w
  <2>4. req'[r] = w
    BY <1>0, <2>2, <2>3, GoesOnType DEF Accept
  <2>5. Sound(req[r])'
    BY <2>2, <2>4 DEF Sound, RowsOf
  <2> QED
    BY <1>0, <2>2, <2>3, <2>5, AcceptStep
<1>7. ASSUME NEW e \in Exporters, Export(e) PROVE ReviewInv'
  <2>1. UNCHANGED reviewVars
    BY <1>7 DEF Export, ReadVersion, ReadLabels, Upload, UploadFails, InsertFails,
                ExportStep
  <2>2. UNCHANGED <<detectionVars, req>>
    BY <2>1 DEF reviewVars, detectionVars
  <2>3. Monotone
    BY <2>2, TablesSame
  <2>4. RequestsSound'
    BY <2>2, <2>3, SoundStays DEF ReviewInv, RequestsSound
  <2>5. ValidatedIsLabelled' /\ LocatedWhenValidated'
    BY <2>2, <2>3, TablesSame, NothingValidated DEF ReviewInv
  <2> QED
    BY <1>0, <2>4, <2>5 DEF ReviewInv
<1> QED
  BY <1>0, <1>1, <1>3, <1>4, <1>5, <1>6, <1>7, ServeStep DEF Next, ReviewNext

LEMMA ReviewInvInit ==
  ASSUME ReviewAssumption, Init
  PROVE  ReviewInv
BY TypeInit DEF Init, ReviewInit, ReviewInv, RequestsSound, Sound, Idle,
   ValidatedIsLabelled, LocatedWhenValidated

LEMMA ReviewInvAlways ==
  ASSUME ReviewAssumption
  PROVE  Spec => []ReviewInv
<1>1. ReviewInv /\ UNCHANGED vars => ReviewInv'
  BY DEF ReviewInv, TypeOK, RequestsSound, Sound, ValidatedIsLabelled,
     LocatedWhenValidated, Labelled, vars, reviewVars
<1> QED
  BY <1>1, ReviewInvInit, ReviewInvStep, PTL DEF Spec

\* However reviews, undos, corrections, resolutions and deletions interleave, a
\* validated detection has its label in the training data ...
THEOREM ValidatedHaveLabels ==
  ASSUME ReviewAssumption
  PROVE  Spec => []ValidatedIsLabelled
BY ReviewInvAlways, PTL DEF ReviewInv

\* ... and coordinates.
THEOREM ValidatedAreLocated ==
  ASSUME ReviewAssumption
  PROVE  Spec => []LocatedWhenValidated
BY ReviewInvAlways, PTL DEF ReviewInv

(***************************************************************************)
(* What is exported agrees with the labels.                                *)
(***************************************************************************)
\* A label changes only with its detection.
LEMMA LabelStep ==
  ASSUME ReviewInv, Next, NEW d \in Labelled, d \in present'
  PROVE  label'[d] = label[d]
<1>0. TypeOK
  BY DEF ReviewInv
<1>1. CASE UNCHANGED label
  BY <1>1
<1>2. ASSUME NEW r \in Requests, CommitReview(r)
      PROVE  label'[d] = label[d]
  <2>1. Inserts(r) => d \notin req[r].rows
    BY <1>2 DEF CommitReview, CanReview
  <2> QED
    BY <1>0, <1>2, <2>1 DEF CommitReview, Labelled, TypeOK
<1>3. ASSUME NEW r \in Requests, FinishDelete(r)
      PROVE  label'[d] = label[d]
  <2>1. ASSUME d \in req[r].writes PROVE FALSE
    <3>1. JobOf[d] = req[r].job
      BY <1>3, <2>1 DEF FinishDelete, ReviewInv, RequestsSound, Sound
    <3> QED
      BY <1>3, <3>1 DEF FinishDelete, RowsOf
  <2> QED
    BY <1>3, <2>1 DEF FinishDelete, Labelled
<1>4. ASSUME NEW r \in Requests, ~CommitReview(r), ~FinishDelete(r), Serve(r)
      PROVE  UNCHANGED label
  BY <1>4 DEF Serve, ReadLabel, ReviewFails, CommitUndo, CommitCorrect, CommitResolve,
              RowGone, DeleteLabels, DeleteFails, Refuse, detectionVars
<1>5. \/ UNCHANGED label
      \/ \E r \in Requests : CommitReview(r) \/ FinishDelete(r)
  BY <1>4 DEF Next, ReviewNext, StartReview, StartUndo, StartCorrect, StartResolve,
              StartDelete, Accept, Export, ReadVersion, ReadLabels, Upload,
              UploadFails, InsertFails, ExportStep, reviewVars, detectionVars
<1> QED
  BY <1>1, <1>2, <1>3, <1>5

Agrees(s) == \A d \in present : s[d] # NoLabel => s[d] = label[d]

\* What is stored agrees with the labels, and so does what an export has read and
\* not stored yet.
ExportInv ==
  /\ ReviewInv
  /\ Agrees(manifest) /\ manifest \in Snapshots
  /\ export \in [Exporters -> [pc : {"off", "labels", "upload", "commit"},
                               rows : Snapshots]]
  /\ \A e \in Exporters : Agrees(export[e].rows)

LEMMA AgreesStays ==
  ASSUME ReviewInv, Next, NEW s, Agrees(s)
  PROVE  \A d \in present' : s[d] # NoLabel => s[d] = label'[d]
<1> SUFFICES ASSUME NEW d \in present', s[d] # NoLabel PROVE s[d] = label'[d]
  OBVIOUS
<1>1. present' \subseteq present /\ present \subseteq Detections
  BY DEF ReviewInv, TypeOK, Next, ReviewNext, StartReview, StartUndo, StartCorrect,
         StartResolve, StartDelete, Accept, Serve, ReadLabel, CommitReview, ReviewFails,
         CommitUndo, CommitCorrect, CommitResolve, RowGone, DeleteLabels, FinishDelete,
         DeleteFails, Refuse, Export, ReadVersion, ReadLabels, Upload, UploadFails,
         InsertFails, ExportStep, reviewVars, detectionVars
<1>2. s[d] = label[d] /\ d \in Labelled
  BY <1>1 DEF Agrees, Labelled
<1> QED
  BY <1>2, LabelStep

LEMMA SnapshotTypes ==
  ASSUME TypeOK
  PROVE  label \in Snapshots /\ NoSnapshot \in Snapshots
BY DEF TypeOK, Snapshots, NoSnapshot

LEMMA ExportInvStep ==
  ASSUME ReviewAssumption, ExportInv, Next
  PROVE  ExportInv'
<1> USE DEF ExportInv
<1>0. TypeOK /\ ReviewInv'
  BY ReviewInvStep DEF ReviewInv
<1>1. CASE UNCHANGED exportVars
  BY <1>0, <1>1, AgreesStays DEF exportVars, Agrees
<1>2. ASSUME NEW e \in Exporters, NEW r \in [pc : {"off", "labels", "upload", "commit"},
                                            rows : Snapshots],
             ExportStep(e, r), Agrees(r.rows),
             Agrees(manifest'), manifest' \in Snapshots
      PROVE  ExportInv'
  <2>1. export' = [export EXCEPT ![e] = r] /\ UNCHANGED <<present, label>>
    BY <1>2 DEF ExportStep, reviewVars
  <2> QED
    BY <1>0, <1>2, <2>1 DEF Agrees
<1>3. Agrees(NoSnapshot) /\ Agrees(label)
  BY <1>0 DEF Agrees, NoSnapshot, TypeOK
<1>4. ASSUME NEW e \in Exporters, ReadVersion(e) PROVE ExportInv'
  <2>1. [Off EXCEPT !.pc = "labels"].rows = NoSnapshot
        /\ [Off EXCEPT !.pc = "labels"] \in [pc : {"off", "labels", "upload", "commit"},
                                             rows : Snapshots]
    BY <1>0, SnapshotTypes DEF Off
  <2> QED
    BY <1>2, <1>3, <1>4, <2>1 DEF ReadVersion
<1>5. ASSUME NEW e \in Exporters, ReadLabels(e) PROVE ExportInv'
  <2> DEFINE r == IF label = NoSnapshot THEN Off ELSE [pc |-> "upload", rows |-> label]
  <2>1. r.rows \in {NoSnapshot, label}
        /\ r \in [pc : {"off", "labels", "upload", "commit"}, rows : Snapshots]
    BY <1>0, SnapshotTypes DEF Off
  <2>2. ExportStep(e, r) /\ manifest' = manifest
    BY <1>5 DEF ReadLabels
  <2> HIDE DEF r
  <2> QED
    BY <1>2, <1>3, <2>1, <2>2
<1>6. ASSUME NEW e \in Exporters, Upload(e) PROVE ExportInv'
  <2>1. /\ [export[e] EXCEPT !.pc = "commit"].rows = export[e].rows
        /\ [export[e] EXCEPT !.pc = "commit"] \in
             [pc : {"off", "labels", "upload", "commit"}, rows : Snapshots]
    OBVIOUS
  <2> QED
    BY <1>2, <1>6, <2>1 DEF Upload
<1>7. ASSUME NEW e \in Exporters, UploadFails(e) \/ InsertFails(e) PROVE ExportInv'
  <2>1. Off.rows = NoSnapshot
        /\ Off \in [pc : {"off", "labels", "upload", "commit"}, rows : Snapshots]
    BY <1>0, SnapshotTypes DEF Off
  <2>2. Agrees(manifest') /\ manifest' \in Snapshots /\ ExportStep(e, Off)
    BY <1>7 DEF UploadFails, InsertFails
  <2> QED
    BY <1>2, <1>3, <2>1, <2>2
<1> QED
  BY <1>1, <1>4, <1>5, <1>6, <1>7 DEF Next, Export

\* Overlapping exports, reviews, undos, deletions and failing uploads keep ExportInv.
LEMMA ExportInvAlways ==
  ASSUME ReviewAssumption
  PROVE  Spec => []ExportInv
<1>1. Init => ExportInv
  <2> SUFFICES ASSUME Init PROVE ExportInv
    OBVIOUS
  <2>1. ReviewInv /\ TypeOK
    BY ReviewInvInit DEF ReviewInv
  <2>2. Agrees(NoSnapshot)
    BY <2>1 DEF Agrees, NoSnapshot, TypeOK
  <2> QED
    BY <2>1, <2>2, SnapshotTypes DEF Init, ExportInv, Off
<1>2. ExportInv /\ [Next]_vars => ExportInv'
  <2> SUFFICES ASSUME ExportInv, [Next]_vars PROVE ExportInv'
    OBVIOUS
  <2>1. CASE Next
    BY <2>1, ExportInvStep
  <2>2. CASE UNCHANGED vars
    <3>1. ReviewInv'
      BY <2>2 DEF ExportInv, ReviewInv, TypeOK, RequestsSound, Sound,
         ValidatedIsLabelled, LocatedWhenValidated, Labelled, vars, reviewVars
    <3> QED
      BY <2>2, <3>1 DEF ExportInv, Agrees, vars, reviewVars, exportVars
  <2> QED
    BY <2>1, <2>2
<1> QED
  BY <1>1, <1>2, PTL DEF Spec

\* The objects of a version and what each export holds are labels of detections.
THEOREM ExportsTypeCorrect ==
  ASSUME ReviewAssumption
  PROVE  Spec => []ExportTypeOK
<1>1. ExportInv => ExportTypeOK
  BY DEF ExportInv, ExportTypeOK
<1> QED
  BY <1>1, ExportInvAlways, PTL

\* However exports overlap each other and the reviews, undos and deletions, and
\* wherever an upload fails, a manifest gives a detection that exists the label its
\* row has.
THEOREM ManifestsAgree ==
  ASSUME ReviewAssumption
  PROVE  Spec => []ManifestAgrees
<1>1. ExportInv => ManifestAgrees
  BY DEF ExportInv, Agrees, ManifestAgrees
<1> QED
  BY <1>1, ExportInvAlways, PTL
==============================================================================
