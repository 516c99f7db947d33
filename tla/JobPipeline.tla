----------------------------- MODULE JobPipeline -----------------------------
(***************************************************************************)
(* The life of one uploaded video: submit_job writes the file and the row, *)
(* enqueues a Celery task, a worker process analyses the frames, commits   *)
(* detections in batches and marks the job done.  Around it: retries,      *)
(* redelivery of unacknowledged messages, worker crashes, delete_job and   *)
(* the watchdog that runs when the API process starts.                     *)
(*                                                                         *)
(* A detection is a position <<frame, box>> of the video plus the run that *)
(* recorded it; the detectors, OCR, uploads and clips are abstracted to    *)
(* "a box is there" and "this step raised".                                *)
(***************************************************************************)
EXTENDS Integers, Sequences, FiniteSets

CONSTANTS
  Jobs,         \* the jobs that may be submitted
  Workers,      \* worker processes (prefork children of the one container)
  Video,        \* Video[j]: sequence of frames, a frame is a sequence of boxes
  FrameCount,   \* FrameCount[j]: what the container header claims (may be 0)
  Enabled,      \* Enabled[j]: the models the job runs
  Installed,    \* the models whose weights file exists
  Corrupt,      \* the jobs whose file OpenCV cannot open
  FrameSkip,    \* settings.FRAME_SKIP
  CommitEvery,  \* progress is committed when frame_num % 50 == 0
  MaxRetries,   \* max_retries of the task
  GeoRadius,    \* GEO_DEDUP_DEG, in units of the model's positions
  PixelRadius,  \* settings.DEDUP_DISTANCE_PX, in units of the model's pixels
  Budget        \* how many faults of each kind a behaviour may have

Models == {"pothole", "signs", "speedbump"}
Faults == {"raise", "crash", "kill", "timeout", "restart", "broker", "delete"}

\* "by" tells which deduplication applies to the box: the vehicle position
\* when the frame has a GPS fix, the box centre otherwise; "at" is that
\* coordinate.  "low" is false for a box in the upper half of the image.
Box == [model : Models, by : {"geo", "pixel"}, at : Int, low : BOOLEAN]

ASSUME JobAssumption ==
  /\ Video \in [Jobs -> Seq(Seq(Box))]
  /\ FrameCount \in [Jobs -> Nat]
  /\ Enabled \in [Jobs -> SUBSET Models]
  /\ Installed \subseteq Models
  /\ Corrupt \subseteq Jobs
  /\ FrameSkip \in Nat \ {0}
  /\ CommitEvery \in Nat \ {0}
  /\ MaxRetries \in Nat
  /\ GeoRadius \in Nat \ {0}
  /\ PixelRadius \in Nat \ {0}
  /\ Budget \in [Faults -> Nat]

VARIABLES
  row,         \* table jobs
  detections,  \* table detections
  source,      \* the jobs whose temporary file is on disk
  submit,      \* the submit_job handler of each job
  age,         \* 0 recent, 1 created before the cutoff, 2 in processing as long
  api,         \* the API process: "up", "booting" or "marking"
  stale,       \* what mark_stale_jobs has selected and not yet committed
  ready,       \* messages in the broker queue
  unacked,     \* messages delivered and not acknowledged
  sent,        \* messages published so far: the next delivery tag
  worker,      \* what each worker process is doing
  models,      \* the _models registry of each worker process
  runs,        \* runs of process_source so far
  budget       \* faults left

jobVars    == <<row, detections, source>>
apiVars    == <<submit, age, api, stale>>
brokerVars == <<ready, unacked, sent>>
workVars   == <<worker, models, runs>>
vars == <<jobVars, apiVars, brokerVars, workVars, budget>>

-----------------------------------------------------------------------------
Statuses == {"absent", "pending", "processing", "done", "failed"}
Errors == {"none", "unopenable", "stale"}

\* A row of jobs; status "absent" stands for no row.
Row == [status : Statuses, total : Nat, processed : Nat, detections : Nat,
        error : Errors, finished : BOOLEAN]
NoRow == [status |-> "absent", total |-> 0, processed |-> 0, detections |-> 0,
          error |-> "none", finished |-> FALSE]

Message == [tag : Nat, job : Jobs, retries : Nat]
Position == Nat \X Nat
Detection == [job : Jobs, run : Nat, pos : Position]

\* "closing" is a run after its last commit, "acking" one that has failed.
Busy == {"loading", "opening", "reading", "boxes", "unlinked", "closing", "acking"}
\* A busy worker: its message, its session's copy of the row ("snap"), the
\* loop variables and the detections its session has not committed.
Work == [pc : Busy, msg : Message, run : Nat, snap : Row, frame : Nat,
         box : Nat, seen : SUBSET Position, pending : SUBSET Position,
         count : Nat]
Idle == [pc |-> "idle"]

TypeOK ==
  /\ row \in [Jobs -> Row]
  /\ detections \in SUBSET Detection
  /\ source \in SUBSET Jobs
  /\ submit \in [Jobs -> {"new", "committed", "enqueued", "lost"}]
  /\ age \in [Jobs -> 0..2]
  /\ api \in {"up", "booting", "marking"}
  /\ stale \in SUBSET [job : Jobs, error : Errors]
  /\ ready \in SUBSET Message
  /\ unacked \in SUBSET Message
  /\ sent \in Nat
  /\ worker \in [Workers -> Work \union {Idle}]
  /\ models \in [Workers -> SUBSET Models]
  /\ runs \in Nat
  /\ budget \in [Faults -> Nat]

Exists(j) == row[j].status # "absent"
Running(w) == worker[w].pc # "idle"
JobOf(w) == worker[w].msg.job

Spend(fault) ==
  /\ budget[fault] > 0
  /\ budget' = [budget EXCEPT ![fault] = @ - 1]

-----------------------------------------------------------------------------
(***************************************************************************)
(* Deduplication.                                                          *)
(***************************************************************************)
BoxAt(j, p) == Video[j][p[1]][p[2]]

\* What _is_geo_duplicate and _is_pixel_duplicate compare, one list per model.
SameSpot(a, b) ==
  /\ a.model = b.model
  /\ a.by = b.by
  /\ LET radius == IF a.by = "geo" THEN GeoRadius ELSE PixelRadius
     IN  a.at - b.at < radius /\ b.at - a.at < radius

\* Boxes the loop looks at with the models it has: an enabled one that is
\* loaded and, for potholes, a centre in the lower half of the frame.
Looks(j, loaded, b) ==
  b.model \in Enabled[j] \cap loaded /\ (b.model = "pothole" => b.low)

Analysed(f) == f % FrameSkip = 0

-----------------------------------------------------------------------------
(***************************************************************************)
(* The API process: submit_job, delete_job, restart and watchdog.          *)
(***************************************************************************)
SubmitJob(j) ==
  /\ api = "up" /\ submit[j] = "new"
  /\ source' = source \union {j}
  /\ row' = [row EXCEPT ![j] = [NoRow EXCEPT !.status = "pending"]]
  /\ submit' = [submit EXCEPT ![j] = "committed"]
  /\ UNCHANGED <<detections, age, api, stale, brokerVars, workVars, budget>>

\* Bug: nothing remembers that the task was sent, a repeated call sends it again.
EnqueueJobTwice(j) ==
  /\ api = "up" /\ submit[j] = "committed"
  /\ sent < 2
  /\ sent' = sent + 1
  /\ ready' = ready \union {[tag |-> sent', job |-> j, retries |-> 0]}
  /\ UNCHANGED <<jobVars, apiVars, unacked, workVars, budget>>

\* apply_async, after the commit of the row.
EnqueueJob(j) ==
  /\ api = "up" /\ submit[j] = "committed"
  /\ submit' = [submit EXCEPT ![j] = "enqueued"]
  /\ sent' = sent + 1
  /\ ready' = ready \union {[tag |-> sent', job |-> j, retries |-> 0]}
  /\ UNCHANGED <<jobVars, age, api, stale, unacked, workVars, budget>>

\* The broker refuses the message: the request fails, the row stays.
EnqueueFails(j) ==
  /\ api = "up" /\ submit[j] = "committed"
  /\ Spend("broker")
  /\ submit' = [submit EXCEPT ![j] = "lost"]
  /\ UNCHANGED <<jobVars, age, api, stale, brokerVars, workVars>>

\* One transaction.  A reference to one of its labels makes it roll back
\* without effect; labels are in module DetectionReview.
DeleteJob(j) ==
  /\ api = "up" /\ Exists(j)
  /\ Spend("delete")
  /\ detections' = {d \in detections : d.job # j}
  /\ row' = [row EXCEPT ![j] = NoRow]
  /\ UNCHANGED <<source, apiVars, brokerVars, workVars>>

\* The API process dies and starts again; requests in progress are lost.
RestartApi ==
  /\ Spend("restart")
  /\ api' = "booting"
  /\ stale' = {}
  /\ submit' = [j \in Jobs |-> IF submit[j] = "committed" THEN "lost"
                               ELSE submit[j]]
  /\ UNCHANGED <<jobVars, age, brokerVars, workVars>>

\* mark_stale_jobs reads the stale rows ...
SelectStale ==
  /\ api = "booting"
  /\ api' = "marking"
  /\ stale' = {[job |-> j, error |-> row[j].error] :
                 j \in {k \in Jobs : row[k].status = "processing" /\ age[k] > 0}}
  /\ UNCHANGED <<jobVars, submit, age, brokerVars, workVars, budget>>

\* ... and updates the columns it changed, whatever the rows hold by then.
MarkedStale(j) ==
  [row[j] EXCEPT
     !.status = "failed",
     !.error = IF [job |-> j, error |-> "stale"] \in stale THEN @ ELSE "stale",
     !.finished = TRUE]

MarkStale ==
  /\ api = "marking"
  /\ api' = "up"
  /\ stale' = {}
  /\ row' = [j \in Jobs |->
       IF Exists(j) /\ \E s \in stale : s.job = j THEN MarkedStale(j)
       ELSE row[j]]
  /\ UNCHANGED <<detections, source, submit, age, brokerVars, workVars, budget>>

\* Time passes: the creation of a job, then its time in processing, becomes
\* older than STALE_JOB_MINUTES.
AgeJob(j) ==
  /\ Exists(j) /\ age[j] < 2
  /\ age[j] = 1 => row[j].status = "processing"
  /\ age' = [age EXCEPT ![j] = @ + 1]
  /\ UNCHANGED <<jobVars, submit, api, stale, brokerVars, workVars, budget>>

-----------------------------------------------------------------------------
(***************************************************************************)
(* The broker.                                                             *)
(***************************************************************************)
\* Bug: acknowledged on receipt, Celery's default.
ReceiveAcksEarly(w, m) ==
  /\ ~Running(w) /\ m \in ready
  /\ ready' = ready \ {m}
  /\ worker' = [worker EXCEPT ![w] =
       [pc |-> "loading", msg |-> m, run |-> 0, snap |-> NoRow, frame |-> 0,
        box |-> 0, seen |-> {}, pending |-> {}, count |-> 0]]
  /\ UNCHANGED <<jobVars, apiVars, unacked, sent, models, runs, budget>>

\* task_acks_late: the message stays unacknowledged while the task runs.
Receive(w, m) ==
  /\ ~Running(w)
  /\ m \in ready
  /\ ready' = ready \ {m}
  /\ unacked' = unacked \union {m}
  /\ worker' = [worker EXCEPT ![w] =
       [pc |-> "loading", msg |-> m, run |-> 0, snap |-> NoRow, frame |-> 0,
        box |-> 0, seen |-> {}, pending |-> {}, count |-> 0]]
  /\ UNCHANGED <<jobVars, apiVars, sent, models, runs, budget>>

Held(m) == \E w \in Workers : Running(w) /\ worker[w].msg = m

\* The visibility timeout returns the message of a dead worker.
Redeliver(m) ==
  /\ m \in unacked /\ ~Held(m)
  /\ unacked' = unacked \ {m}
  /\ ready' = ready \union {m}
  /\ UNCHANGED <<jobVars, apiVars, sent, workVars, budget>>

\* It returns the message of a task that runs longer than the timeout, too.
RedeliverHeld(m) ==
  /\ m \in unacked /\ Held(m)
  /\ Spend("timeout")
  /\ unacked' = unacked \ {m}
  /\ ready' = ready \union {m}
  /\ UNCHANGED <<jobVars, apiVars, sent, workVars>>

-----------------------------------------------------------------------------
(***************************************************************************)
(* The worker: process_video, _run and process_source.                     *)
(***************************************************************************)
Step(w, r) == worker' = [worker EXCEPT ![w] = r]

\* An exception: the session is rolled back; self.retry publishes a copy of
\* the task or, after MaxRetries, gives up.  The acknowledgement follows.
Abort(w) ==
  LET m == worker[w].msg
      again == m.retries < MaxRetries
  IN  /\ Step(w, [worker[w] EXCEPT !.pc = "acking", !.seen = {}, !.pending = {},
                                   !.count = 0, !.frame = 0, !.box = 0,
                                   !.run = 0, !.snap = NoRow])
      /\ sent' = IF again THEN sent + 1 ELSE sent
      /\ ready' = IF again
                  THEN ready \union {[tag |-> sent + 1, job |-> m.job,
                                      retries |-> m.retries + 1]}
                  ELSE ready
      /\ UNCHANGED unacked

\* The unit of work writes a column only if the session changed it.
Merge(current, old, new) == IF new # old THEN new ELSE current

Merged(current, old, new) ==
  [status     |-> Merge(current.status, old.status, new.status),
   total      |-> Merge(current.total, old.total, new.total),
   processed  |-> Merge(current.processed, old.processed, new.processed),
   detections |-> Merge(current.detections, old.detections, new.detections),
   error      |-> Merge(current.error, old.error, new.error),
   finished   |-> Merge(current.finished, old.finished, new.finished)]

\* A commit fails when there is something to write and the row is gone: the
\* UPDATE matches no row, the INSERT breaks the foreign key.
CanCommit(w, new) ==
  Exists(JobOf(w)) \/ (new = worker[w].snap /\ worker[w].pending = {})

\* A commit that writes nothing leaves an absent row absent.
Commit(w, new) ==
  LET j == JobOf(w)
  IN  /\ row' = IF Exists(j)
                THEN [row EXCEPT ![j] = Merged(row[j], worker[w].snap, new)]
                ELSE row
      /\ detections' = detections \union
           {[job |-> j, run |-> worker[w].run, pos |-> p] :
              p \in worker[w].pending}

\* db.get(Job), then _load_models, which leaves out a model without a file.
LoadJob(w) ==
  /\ worker[w].pc = "loading"
  /\ Exists(JobOf(w))
  /\ runs' = runs + 1
  /\ models' = [models EXCEPT ![w] = @ \union (Enabled[JobOf(w)] \cap Installed)]
  /\ Step(w, [worker[w] EXCEPT !.pc = "opening", !.run = runs + 1,
                               !.snap = row[JobOf(w)]])
  /\ UNCHANGED <<jobVars, apiVars, brokerVars, budget>>

\* The job was deleted: job is None and job.id raises.
LoadMissingJob(w) ==
  /\ worker[w].pc = "loading"
  /\ ~Exists(JobOf(w))
  /\ Abort(w)
  /\ UNCHANGED <<jobVars, apiVars, models, runs, budget>>

Opens(j) == j \in source /\ j \notin Corrupt

Opened(w) == [worker[w].snap EXCEPT !.total = FrameCount[JobOf(w)],
                                    !.status = "processing"]
Unopened(w) == [worker[w].snap EXCEPT !.status = "failed",
                                      !.error = "unopenable"]

OpenSource(w) ==
  /\ worker[w].pc = "opening"
  /\ Opens(JobOf(w))
  /\ CanCommit(w, Opened(w))
  /\ Commit(w, Opened(w))
  /\ Step(w, [worker[w] EXCEPT !.pc = "reading", !.snap = Opened(w)])
  /\ UNCHANGED <<source, apiVars, brokerVars, models, runs, budget>>

OpenFails(w) ==
  /\ worker[w].pc = "opening"
  /\ ~Opens(JobOf(w))
  /\ CanCommit(w, Unopened(w))
  /\ Commit(w, Unopened(w))
  /\ models' = [models EXCEPT ![w] = {}]
  /\ Step(w, [worker[w] EXCEPT !.pc = "closing", !.snap = NoRow, !.run = 0])
  /\ UNCHANGED <<source, apiVars, brokerVars, runs, budget>>

\* cap.read(), skipping the frames that are not analysed.
ReadFrame(w) ==
  /\ worker[w].pc = "reading"
  /\ worker[w].frame < Len(Video[JobOf(w)])
  /\ Step(w, [worker[w] EXCEPT
                !.frame = @ + 1,
                !.box = 1,
                !.pc = IF Analysed(worker[w].frame + 1) THEN "boxes"
                       ELSE "reading"])
  /\ UNCHANGED <<jobVars, apiVars, brokerVars, models, runs, budget>>

Boxes(w) == Video[JobOf(w)][worker[w].frame]
Here(w) == <<worker[w].frame, worker[w].box>>

\* One box of the current frame: filtered, a duplicate of one this run has
\* recorded, or recorded (uploaded and added to the session).
Records(w) ==
  LET j == JobOf(w)
      b == BoxAt(j, Here(w))
  IN  /\ Looks(j, models[w], b)
      /\ ~ \E p \in worker[w].seen : SameSpot(b, BoxAt(j, p))

\* Bug: an upload fails without raising and the position is remembered anyway.
AnalyseBoxLosesUpload(w) ==
  /\ worker[w].pc = "boxes"
  /\ worker[w].box <= Len(Boxes(w))
  /\ Step(w, [worker[w] EXCEPT
       !.box = @ + 1,
       !.seen = IF Records(w) THEN @ \union {Here(w)} ELSE @])
  /\ UNCHANGED <<jobVars, apiVars, brokerVars, models, runs, budget>>

AnalyseBox(w) ==
  /\ worker[w].pc = "boxes"
  /\ worker[w].box <= Len(Boxes(w))
  /\ Step(w, IF Records(w)
             THEN [worker[w] EXCEPT !.box = @ + 1,
                                    !.seen = @ \union {Here(w)},
                                    !.pending = @ \union {Here(w)},
                                    !.count = @ + 1]
             ELSE [worker[w] EXCEPT !.box = @ + 1])
  /\ UNCHANGED <<jobVars, apiVars, brokerVars, models, runs, budget>>

FrameDone(w) == worker[w].pc = "boxes" /\ worker[w].box > Len(Boxes(w))

EndFrame(w) ==
  /\ FrameDone(w)
  /\ worker[w].frame % CommitEvery # 0
  /\ Step(w, [worker[w] EXCEPT !.pc = "reading", !.box = 0])
  /\ UNCHANGED <<jobVars, apiVars, brokerVars, models, runs, budget>>

\* Bug: the counter of an earlier run is added to.
ProgressAdds(w) == [worker[w].snap EXCEPT !.processed = worker[w].frame,
                                          !.detections = @ + worker[w].count]

Progress(w) == [worker[w].snap EXCEPT !.processed = worker[w].frame,
                                      !.detections = worker[w].count]

\* The periodic commit; the log line after it divides by the frame count.
CommitProgress(w) ==
  /\ FrameDone(w)
  /\ worker[w].frame % CommitEvery = 0
  /\ CanCommit(w, Progress(w))
  /\ Commit(w, Progress(w))
  /\ \/ /\ FrameCount[JobOf(w)] > 0
        /\ Step(w, [worker[w] EXCEPT !.pc = "reading", !.box = 0,
                                     !.pending = {}, !.snap = Progress(w)])
        /\ UNCHANGED brokerVars
     \/ /\ FrameCount[JobOf(w)] = 0
        /\ Abort(w)
  /\ UNCHANGED <<source, apiVars, models, runs, budget>>

\* Bug: the loop ends at the first frame that is not read.
EndOfVideoEarly(w) ==
  /\ worker[w].pc = "reading"
  /\ source' = source \ {JobOf(w)}
  /\ models' = [models EXCEPT ![w] = {}]
  /\ Step(w, [worker[w] EXCEPT !.pc = "unlinked"])
  /\ UNCHANGED <<row, detections, apiVars, brokerVars, runs, budget>>

\* Bug: the file stays.
EndOfVideoKeeps(w) ==
  /\ worker[w].pc = "reading"
  /\ worker[w].frame = Len(Video[JobOf(w)])
  /\ models' = [models EXCEPT ![w] = {}]
  /\ Step(w, [worker[w] EXCEPT !.pc = "unlinked"])
  /\ UNCHANGED <<jobVars, apiVars, brokerVars, runs, budget>>

\* cap.release, unlink, _unload_models: before the job is marked done.
EndOfVideo(w) ==
  /\ worker[w].pc = "reading"
  /\ worker[w].frame = Len(Video[JobOf(w)])
  /\ source' = source \ {JobOf(w)}
  /\ models' = [models EXCEPT ![w] = {}]
  /\ Step(w, [worker[w] EXCEPT !.pc = "unlinked"])
  /\ UNCHANGED <<row, detections, apiVars, brokerVars, runs, budget>>

Finished(w) == [Progress(w) EXCEPT !.status = "done", !.finished = TRUE]

\* finished_at is a fresh timestamp, so this commit always has something to
\* write.
CommitDone(w) ==
  /\ worker[w].pc = "unlinked"
  /\ Exists(JobOf(w))
  /\ Commit(w, Finished(w))
  /\ Step(w, [worker[w] EXCEPT !.pc = "closing", !.seen = {}, !.pending = {},
                               !.count = 0, !.frame = 0, !.box = 0,
                               !.run = 0, !.snap = NoRow])
  /\ UNCHANGED <<source, apiVars, brokerVars, models, runs, budget>>

\* The three commits of process_source when the row was deleted meanwhile.
CommitFails(w) ==
  /\ \/ /\ worker[w].pc = "opening" /\ Opens(JobOf(w))
        /\ ~CanCommit(w, Opened(w))
        /\ UNCHANGED models
     \/ /\ worker[w].pc = "opening" /\ ~Opens(JobOf(w))
        /\ ~CanCommit(w, Unopened(w))
        /\ models' = [models EXCEPT ![w] = {}]
     \/ /\ FrameDone(w)
        /\ worker[w].frame % CommitEvery = 0
        /\ ~CanCommit(w, Progress(w))
        /\ UNCHANGED models
     \/ /\ worker[w].pc = "unlinked" /\ ~Exists(JobOf(w))
        /\ UNCHANGED models
  /\ Abort(w)
  /\ UNCHANGED <<jobVars, apiVars, runs, budget>>

\* Anything else that raises: the database, OCR, an upload and, after the last
\* commit, closing the session, the engine or the event loop.
RunFails(w) ==
  /\ worker[w].pc \in {"loading", "opening", "reading", "boxes", "unlinked", "closing"}
  /\ Spend("raise")
  /\ Abort(w)
  /\ UNCHANGED <<jobVars, apiVars, models, runs>>

\* The task has returned or raised.
Ack(w) ==
  /\ worker[w].pc \in {"closing", "acking"}
  /\ unacked' = unacked \ {worker[w].msg}
  /\ Step(w, Idle)
  /\ UNCHANGED <<jobVars, apiVars, ready, sent, models, runs, budget>>

\* One child process is killed (out of memory): Celery acknowledges its
\* message, task_reject_on_worker_lost being unset.
ChildKilled(w) ==
  /\ Running(w)
  /\ Spend("kill")
  /\ unacked' = unacked \ {worker[w].msg}
  /\ Step(w, Idle)
  /\ models' = [models EXCEPT ![w] = {}]
  /\ UNCHANGED <<jobVars, apiVars, ready, sent, runs>>

\* The worker container dies: nothing is acknowledged.
WorkersCrash ==
  /\ \E w \in Workers : Running(w)
  /\ Spend("crash")
  /\ worker' = [w \in Workers |-> Idle]
  /\ models' = [w \in Workers |-> {}]
  /\ UNCHANGED <<jobVars, apiVars, brokerVars, runs>>

-----------------------------------------------------------------------------
Init ==
  /\ row = [j \in Jobs |-> NoRow]
  /\ detections = {}
  /\ source = {}
  /\ submit = [j \in Jobs |-> "new"]
  /\ age = [j \in Jobs |-> 0]
  /\ api = "up"
  /\ stale = {}
  /\ ready = {}
  /\ unacked = {}
  /\ sent = 0
  /\ worker = [w \in Workers |-> Idle]
  /\ models = [w \in Workers |-> {}]
  /\ runs = 0
  /\ budget = Budget

Process(w) ==
  \/ LoadJob(w) \/ LoadMissingJob(w)
  \/ OpenSource(w) \/ OpenFails(w)
  \/ ReadFrame(w) \/ AnalyseBox(w) \/ EndFrame(w) \/ CommitProgress(w)
  \/ EndOfVideo(w) \/ CommitDone(w) \/ CommitFails(w)
  \/ Ack(w)

Next ==
  \/ \E j \in Jobs : SubmitJob(j) \/ EnqueueJob(j) \/ EnqueueFails(j)
                     \/ DeleteJob(j) \/ AgeJob(j)
  \/ RestartApi \/ SelectStale \/ MarkStale
  \/ \E m \in ready : \E w \in Workers : Receive(w, m)
  \/ \E m \in unacked : Redeliver(m) \/ RedeliverHeld(m)
  \/ \E w \in Workers : Process(w) \/ RunFails(w) \/ ChildKilled(w)
  \/ WorkersCrash

Spec == Init /\ [][Next]_vars

\* The event loop finishes a request it accepted, the broker returns the
\* messages of dead workers, an idle worker takes a waiting message and a
\* busy one goes on.  Nothing makes anybody restart the API.
Fairness ==
  /\ \A j \in Jobs : WF_vars(EnqueueJob(j))
  /\ WF_vars(SelectStale) /\ WF_vars(MarkStale)
  /\ WF_vars(\E m \in ready : \E w \in Workers : Receive(w, m))
  /\ WF_vars(\E m \in unacked : Redeliver(m))
  /\ \A w \in Workers : WF_vars(Process(w))

FairSpec == Spec /\ Fairness
-----------------------------------------------------------------------------
(***************************************************************************)
(* Safety.                                                                 *)
(***************************************************************************)
\* What a run looks at: every model that is enabled and has a file.
Considered(j, b) == Looks(j, Installed, b)

\* S holds, for every box of frames 1..f that the analysis considers, a
\* position within the deduplication distance.
CoversBox(j, S, p) ==
  Considered(j, BoxAt(j, p)) =>
    \E q \in S : SameSpot(BoxAt(j, p), BoxAt(j, q))

CoversTo(j, S, f) ==
  \A g \in 1..f : Analysed(g) =>
    \A b \in 1..Len(Video[j][g]) : CoversBox(j, S, <<g, b>>)

Covers(j, S) == CoversTo(j, S, Len(Video[j]))

Committed(j) == {d.pos : d \in {e \in detections : e.job = j}}

\* A job reported "done" has lost nothing: every box its analysis considered
\* is in the detections table, itself or through one within the deduplication
\* distance.  It relates the last commit of process_source to everything the
\* loop committed or rolled back before, in this run and in the ones that
\* failed, were killed or ran at the same time.
DoneCovers ==
  \A j \in Jobs : row[j].status = "done" => Covers(j, Committed(j))

\* The counter of a job never claims more detections than the table holds:
\* job.detections is written in the transaction that inserts them, by
\* whichever run wrote it last.
CounterBacked ==
  \A j \in Jobs : Exists(j) =>
    row[j].detections <= Cardinality({d \in detections : d.job = j})

\* Until the worker container crashes or the message of a running task is
\* redelivered, a job is analysed by at most one process: Receive, the retry
\* that publishes a copy before the original is acknowledged, Ack and a killed
\* child never leave two live messages of one job.
Undisturbed ==
  budget["timeout"] = Budget["timeout"] /\ budget["crash"] = Budget["crash"]

Analysing(w) == Running(w) /\ worker[w].pc # "acking"

OneRunPerJob ==
  Undisturbed =>
    \A v, w \in Workers :
      Analysing(v) /\ Analysing(w) /\ v # w => JobOf(v) # JobOf(w)

\* The file goes only after a run has read all of it: while the row is not
\* done, a missing file means that a run has got past its last frame.  Stated
\* as a step: whoever removes the file holds or has committed a detection for
\* every box the analysis considers.
UnlinkAfterAnalysis ==
  [][\A j \in source \ source' :
       \/ ~Exists(j)
       \/ \E w \in Workers :
            /\ Running(w) /\ JobOf(w) = j
            /\ Covers(j, Committed(j) \union worker[w].pending)]_source

\* A job that is done is never analysed again: no retry of a run that failed
\* after its last commit, no redelivery, crash, deletion or second run brings it
\* back to "pending" or "processing", where its detections would be recorded a
\* second time.  The file is gone before the row says done, and a run that
\* opened it before keeps the status it has written (Merge).  A second delivery
\* does make it "failed", its file being gone: the retries are not as safe as
\* celery_app.py:19 has them.
NeverReopened ==
  [][\A j \in Jobs : row[j].status = "done" =>
       row'[j].status \notin {"pending", "processing"}]_row

-----------------------------------------------------------------------------
(***************************************************************************)
(* Why they hold: the inductive invariants the proofs use.                 *)
(***************************************************************************)
\* Only enqueued jobs have messages, so the row of a job that runs is never
\* inserted a second time.
InFlight ==
  ready \union unacked \union {worker[w].msg : w \in {v \in Workers : Running(v)}}

EnqueuedOnly == \A m \in InFlight : submit[m.job] = "enqueued"

\* The frames and boxes a run has left behind are covered by what it has seen.
LoopCovers(w) ==
  LET r == worker[w]
      j == JobOf(w)
  IN  /\ r.frame \in 0..Len(Video[j])
      /\ r.pc = "boxes" =>
           /\ r.frame > 0 /\ r.box \in 1..(Len(Boxes(w)) + 1)
           /\ CoversTo(j, r.seen, r.frame - 1)
           /\ \A b \in 1..(r.box - 1) : CoversBox(j, r.seen, <<r.frame, b>>)
      /\ r.pc # "boxes" => CoversTo(j, r.seen, r.frame)
      /\ r.pc = "unlinked" => r.frame = Len(Video[j])

\* What a run has seen is committed or will be with its next commit.
SeenIsKept(w) ==
  Exists(JobOf(w)) =>
    worker[w].seen \subseteq worker[w].pending \union Committed(JobOf(w))

CoverInv ==
  /\ EnqueuedOnly
  /\ \A w \in Workers : Analysing(w) => LoopCovers(w) /\ SeenIsKept(w)
  /\ DoneCovers

\* A run that reads frames has loaded what there is to load.
ModelsLoaded ==
  \A w \in Workers : worker[w].pc \in {"opening", "reading", "boxes"} =>
    Enabled[JobOf(w)] \cap Installed \subseteq models[w]

\* The file of a run past its last frame, and of a job that is done, is gone and
\* is not uploaded again.
Unlinked ==
  /\ \A w \in Workers : worker[w].pc = "unlinked" => JobOf(w) \notin source
  /\ \A j \in Jobs : row[j].status = "done" => j \notin source /\ submit[j] # "new"

\* A message is live if it waits or is being analysed; "acking" ones are spent.
Live(m) == m \in ready \/ \E w \in Workers : Analysing(w) /\ worker[w].msg = m

OneDelivery ==
  /\ ready \cap unacked = {}
  /\ \A m \in unacked : Held(m)
  /\ \A w \in Workers : Running(w) => worker[w].msg \in unacked
  /\ \A v, w \in Workers :
       Running(v) /\ Running(w) /\ v # w => worker[v].msg # worker[w].msg
  /\ \A m, n \in InFlight : Live(m) /\ Live(n) /\ m.job = n.job => m = n

DeliveryInv ==
  /\ \A f \in Faults : budget[f] <= Budget[f]
  /\ \A m \in InFlight : m.tag <= sent
  /\ Undisturbed => OneDelivery

(***************************************************************************)
(* Liveness, under FairSpec.                                               *)
(***************************************************************************)
Settled(j) == row[j].status \in {"done", "failed", "absent"}

\* Every job whose message reached the broker ends done, failed or deleted.
\* It needs fewer exceptions than the retries allow and no killed child.
JobsSettle == \A j \in Jobs : (submit[j] = "enqueued") ~> Settled(j)
=============================================================================
