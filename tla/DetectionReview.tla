--------------------------- MODULE DetectionReview ---------------------------
(***************************************************************************)
(* The handlers that change a detection after the worker stored it: review *)
(* and undo, correction of the GPS text, resolution of a cluster, and the  *)
(* deletion of its job.  They run in one event loop and take no locks: a   *)
(* handler reads rows, awaits, and commits the columns it changed against  *)
(* whatever the rows are by then.  No row of dataset_samples refers to a   *)
(* label: DatasetExport says why.                                          *)
(***************************************************************************)
EXTENDS Integers

CONSTANTS
  Detections, Jobs,
  JobOf,       \* Detection.job_id
  WithGps,     \* the detections the worker stored with coordinates
  Labels,
  Verdicts,    \* the values of ReviewIn.status the clients send
  Requests,    \* requests that may be served at once
  MaxRequests  \* how many there are in a behaviour

Statuses == {"pending", "validated", "rejected", "resolved"}
NoLabel == "none"

ASSUME ReviewAssumption ==
  /\ JobOf \in [Detections -> Jobs]
  /\ WithGps \subseteq Detections
  /\ NoLabel \notin Labels
  /\ Verdicts \subseteq Statuses
  /\ MaxRequests \in Nat

VARIABLES
  jobs,       \* rows of jobs
  present,    \* rows of detections
  status,     \* review_status
  located,    \* the detections whose latitude is not null
  label,      \* label[d]: the validation_labels row of d, NoLabel if none
  req,        \* what each request is doing
  left

detectionVars == <<jobs, present, status, located, label>>
reviewVars == <<jobs, present, status, located, label, req, left>>

-----------------------------------------------------------------------------
Idle == [pc |-> "idle"]
Busy == {"label", "review", "undo", "correct", "resolve", "labels", "delete"}

\* A request: the rows it read; of these, the ones whose status it writes
\* (SQLAlchemy writes no column that keeps its value) or whose label it
\* deleted; and for a review its verdict, its label and what it read of the
\* label's row.
Request == [pc : Busy, rows : SUBSET Detections, writes : SUBSET Detections,
            verdict : Statuses, label : Labels \union {NoLabel},
            labelled : BOOLEAN, job : Jobs \union {"none"}]

Reading(pc, rows, writes) ==
  [pc |-> pc, rows |-> rows, writes |-> writes, verdict |-> "pending",
   label |-> NoLabel, labelled |-> FALSE, job |-> "none"]

TypeOK ==
  /\ jobs \subseteq Jobs
  /\ present \subseteq Detections
  /\ status \in [Detections -> Statuses]
  /\ located \subseteq Detections
  /\ label \in [Detections -> Labels \union {NoLabel}]
  /\ req \in [Requests -> Request \union {Idle}]
  /\ left \in Nat

Labelled == {d \in Detections : label[d] # NoLabel}

\* A new request.
Accept(r, work) ==
  /\ req[r] = Idle /\ left > 0
  /\ left' = left - 1
  /\ req' = [req EXCEPT ![r] = work]
  /\ UNCHANGED detectionVars

\* The handler goes on, or answers, with or without an error.
GoOn(r, work) == req' = [req EXCEPT ![r] = work] /\ UNCHANGED left
Answer(r) == GoOn(r, Idle)

\* The UPDATE of a row that is gone fails, and the transaction with it.
Refuse(r) == Answer(r) /\ UNCHANGED detectionVars

SetStatus(D, s) == status' = [d \in Detections |-> IF d \in D THEN s ELSE status[d]]

-----------------------------------------------------------------------------
\* review_detection: 404, 409 and 422 change nothing and are left out.
StartReview(r, d, verdict, l) ==
  /\ d \in present /\ status[d] = "pending"
  /\ verdict = "validated" => d \in located /\ l # NoLabel
  /\ verdict # "validated" => l = NoLabel
  /\ Accept(r, [Reading(IF verdict = "validated" THEN "label" ELSE "review",
                        {d}, IF verdict = "pending" THEN {} ELSE {d})
                EXCEPT !.verdict = verdict, !.label = l])

ReadLabel(r) ==
  /\ req[r].pc = "label"
  /\ GoOn(r, [req[r] EXCEPT !.pc = "review",
                            !.labelled = req[r].rows \subseteq Labelled])
  /\ UNCHANGED detectionVars

\* The commit inserts a label only if none was read; detection_id is unique.
Inserts(r) == req[r].verdict = "validated" /\ ~req[r].labelled
\* Mutant of CanReview: the last label is kept, instead of refused.
CanReviewAgain(r) == req[r].rows \subseteq present
CanReview(r) ==
  /\ req[r].rows \subseteq present
  /\ Inserts(r) => req[r].rows \cap Labelled = {}

CommitReview(r) ==
  /\ req[r].pc = "review"
  /\ CanReview(r)
  /\ SetStatus(req[r].writes, req[r].verdict)
  /\ label' = [d \in Detections |->
                 IF d \in req[r].rows /\ Inserts(r) THEN req[r].label ELSE label[d]]
  /\ UNCHANGED <<jobs, present, located>>
  /\ Answer(r)

ReviewFails(r) == req[r].pc = "review" /\ ~CanReview(r) /\ Refuse(r)

\* Mutant of CommitUndo: a resolved detection becomes validated again.
CommitUndoToValidated(r) ==
  /\ req[r].pc = "undo"
  /\ req[r].rows \subseteq present
  /\ status' = [d \in Detections |->
        IF d \notin req[r].writes THEN status[d]
        ELSE IF status[d] = "resolved" THEN "validated" ELSE "pending"]
  /\ UNCHANGED <<jobs, present, located, label>>
  /\ Answer(r)

\* undo_review: any status back to pending; the label stays.
StartUndo(r, d) ==
  /\ d \in present
  /\ Accept(r, Reading("undo", {d}, {e \in {d} : status[e] # "pending"}))

CommitUndo(r) ==
  /\ req[r].pc = "undo"
  /\ req[r].rows \subseteq present
  /\ SetStatus(req[r].writes, "pending")
  /\ UNCHANGED <<jobs, present, located, label>>
  /\ Answer(r)

\* correct_location: the text was parsed into coordinates.
StartCorrect(r, d) == d \in present /\ Accept(r, Reading("correct", {d}, {}))

CommitCorrect(r) ==
  /\ req[r].pc = "correct"
  /\ req[r].rows \subseteq present
  /\ located' = located \union req[r].rows
  /\ UNCHANGED <<jobs, present, status, label>>
  /\ Answer(r)

\* resolve_cluster, for ids of which some exist and fewer new detections than
\* that: their status does not matter.
StartResolve(r, D) ==
  /\ D \cap present # {}
  /\ Accept(r, Reading("resolve", D \cap present,
                       {d \in D \cap present : status[d] # "resolved"}))

CommitResolve(r) ==
  /\ req[r].pc = "resolve"
  /\ req[r].rows \subseteq present
  /\ SetStatus(req[r].writes, "resolved")
  /\ UNCHANGED <<jobs, present, located, label>>
  /\ Answer(r)

RowGone(r) ==
  /\ req[r].pc \in {"undo", "correct", "resolve"}
  /\ ~(req[r].rows \subseteq present)
  /\ Refuse(r)

-----------------------------------------------------------------------------
\* delete_job reads the job and its detections, deletes their labels, then the
\* detections and the job, in one transaction.
RowsOf(j) == {d \in present : JobOf[d] = j}

StartDelete(r, j) ==
  /\ j \in jobs
  /\ Accept(r, [Reading("labels", RowsOf(j), {}) EXCEPT !.job = j])

\* Deleted label rows are locked until the transaction ends.
Locked == UNION {req[r].writes : r \in {q \in Requests : req[q].pc = "delete"}}

\* Mutant of DeleteLabels: the labels are committed before the rest.
DeleteLabelsAtOnce(r) ==
  /\ req[r].pc = "labels"
  /\ GoOn(r, [req[r] EXCEPT !.pc = "delete"])
  /\ label' = [d \in Detections |-> IF d \in req[r].rows THEN NoLabel ELSE label[d]]
  /\ UNCHANGED <<jobs, present, status, located>>

DeleteLabels(r) ==
  /\ req[r].pc = "labels"
  /\ req[r].rows \cap Labelled \cap Locked = {}
  /\ GoOn(r, [req[r] EXCEPT !.pc = "delete", !.writes = req[r].rows \cap Labelled])
  /\ UNCHANGED detectionVars

\* A label that was inserted since refers to one of the detections.
CanDelete(r) == RowsOf(req[r].job) \cap Labelled \subseteq req[r].writes

FinishDelete(r) ==
  /\ req[r].pc = "delete"
  /\ CanDelete(r)
  /\ jobs' = jobs \ {req[r].job}
  /\ present' = present \ RowsOf(req[r].job)
  /\ label' = [d \in Detections |->
                 IF d \in req[r].writes THEN NoLabel ELSE label[d]]
  /\ UNCHANGED <<status, located>>
  /\ Answer(r)

DeleteFails(r) == req[r].pc = "delete" /\ ~CanDelete(r) /\ Refuse(r)

-----------------------------------------------------------------------------
ReviewInit ==
  /\ jobs = Jobs
  /\ present = Detections
  /\ status = [d \in Detections |-> "pending"]
  /\ located = WithGps
  /\ label = [d \in Detections |-> NoLabel]
  /\ req = [r \in Requests |-> Idle]
  /\ left = MaxRequests

Serve(r) ==
  \/ ReadLabel(r) \/ CommitReview(r) \/ ReviewFails(r)
  \/ CommitUndo(r) \/ CommitCorrect(r) \/ CommitResolve(r) \/ RowGone(r)
  \/ DeleteLabels(r) \/ FinishDelete(r) \/ DeleteFails(r)

ReviewNext ==
  \E r \in Requests :
    \/ \E d \in Detections :
         \/ \E verdict \in Verdicts, l \in Labels \union {NoLabel} :
              StartReview(r, d, verdict, l)
         \/ StartUndo(r, d) \/ StartCorrect(r, d)
    \/ \E D \in SUBSET Detections : StartResolve(r, D)
    \/ \E j \in Jobs : StartDelete(r, j)
    \/ Serve(r)

ReviewSpec == ReviewInit /\ [][ReviewNext]_reviewVars

-----------------------------------------------------------------------------
\* models/detection.py:49, "cannot be set to validated while latitude is None",
\* and validation at review time: whatever requests ran in between, a validated
\* detection has coordinates ...
LocatedWhenValidated ==
  \A d \in present : status[d] = "validated" => d \in located

\* ... and the label that goes into the training data.  The review inserts it
\* only if it read none, the undo keeps it, and a deletion that fails must put
\* it back.  It may be the label of an earlier review, against "written at review
\* time" (validation_label.py:18).
ValidatedIsLabelled ==
  \A d \in present : status[d] = "validated" => d \in Labelled
==============================================================================
