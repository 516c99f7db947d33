-------------------------- MODULE JobPipelineProofs --------------------------
(***************************************************************************)
(* Proofs about JobPipeline, for any jobs, videos, number of workers and   *)
(* budget of faults.                                                       *)
(***************************************************************************)
EXTENDS JobPipeline, FiniteSetTheorems, TLAPS

LEMMA WorkerCases ==
  ASSUME TypeOK, NEW w \in Workers, worker[w].pc # "idle"
  PROVE  worker[w] \in Work
BY DEF TypeOK, Idle

\* Abort publishes at most one well-formed message and leaves the worker with
\* nothing but its acknowledgement to do.
LEMMA AbortType ==
  ASSUME TypeOK, NEW w \in Workers, worker[w].pc # "idle", Abort(w)
  PROVE  /\ worker' \in [Workers -> Work \union {Idle}]
         /\ sent' \in Nat
         /\ ready' \in SUBSET Message
         /\ unacked' \in SUBSET Message
<1> DEFINE m == worker[w].msg
<1>1. worker[w] \in Work
  BY WorkerCases
<1>2. m \in Message
  BY <1>1 DEF Work
<1>3. NoRow \in Row
  BY DEF NoRow, Row, Statuses, Errors
<1>4. worker' \in [Workers -> Work \union {Idle}]
  BY <1>1, <1>3 DEF Abort, Step, Work, Busy, TypeOK
<1>5. m.retries + 1 \in Nat /\ m.job \in Jobs /\ sent + 1 \in Nat
  BY <1>2 DEF Message, TypeOK
<1>6. [tag |-> sent + 1, job |-> m.job, retries |-> m.retries + 1] \in Message
  BY <1>5 DEF Message
<1> QED
  BY <1>4, <1>5, <1>6 DEF Abort, TypeOK

LEMMA MoveFrame ==
  ASSUME NEW r \in Work, NEW p \in Busy, NEW f \in Nat, NEW b \in Nat
  PROVE  [r EXCEPT !.frame = f, !.box = b, !.pc = p] \in Work
BY DEF Work

LEMMA MoveBox ==
  ASSUME NEW r \in Work, NEW b \in Nat
  PROVE  [r EXCEPT !.box = b] \in Work
BY DEF Work

LEMMA RecordBox ==
  ASSUME NEW r \in Work, NEW b \in Nat, NEW q \in Position, NEW c \in Nat
  PROVE  [r EXCEPT !.box = b, !.seen = @ \union {q},
                   !.pending = @ \union {q}, !.count = c] \in Work
BY DEF Work

LEMMA MergedType ==
  ASSUME NEW a \in Row, NEW b \in Row, NEW c \in Row
  PROVE  Merged(a, b, c) \in Row
BY DEF Row, Merged, Merge

LEMMA CommitType ==
  ASSUME TypeOK, NEW w \in Workers, worker[w] \in Work, NEW new \in Row,
         Commit(w, new)
  PROVE  /\ row' \in [Jobs -> Row]
         /\ detections' \in SUBSET Detection
<1> DEFINE j == JobOf(w)
<1>1. /\ j \in Jobs
      /\ worker[w].snap \in Row
      /\ worker[w].run \in Nat
      /\ worker[w].pending \in SUBSET Position
  BY DEF Work, Message, JobOf
<1>2. row[j] \in Row
  BY <1>1 DEF TypeOK
<1>3. Merged(row[j], worker[w].snap, new) \in Row
  BY <1>1, <1>2, MergedType
<1>4. row' \in [Jobs -> Row]
  BY <1>1, <1>3 DEF Commit, TypeOK
<1>5. \A p \in worker[w].pending :
        [job |-> j, run |-> worker[w].run, pos |-> p] \in Detection
  BY <1>1 DEF Detection
<1>6. detections' \in SUBSET Detection
  BY <1>5 DEF Commit, TypeOK
<1> QED
  BY <1>4, <1>6

LEMMA NewRowTypes ==
  ASSUME JobAssumption, TypeOK, NEW w \in Workers, worker[w] \in Work
  PROVE  /\ Opened(w) \in Row
         /\ Unopened(w) \in Row
         /\ Progress(w) \in Row
         /\ Finished(w) \in Row
<1>1. JobOf(w) \in Jobs /\ worker[w].snap \in Row /\ worker[w].frame \in Nat
      /\ worker[w].count \in Nat
  BY DEF Work, Message, JobOf
<1>2. FrameCount[JobOf(w)] \in Nat
  BY <1>1 DEF JobAssumption
<1>3. Opened(w) \in Row /\ Unopened(w) \in Row
  BY <1>1, <1>2 DEF Opened, Unopened, Row, Statuses, Errors
<1>4. Progress(w) \in Row
  BY <1>1 DEF Progress, Row
<1>5. Finished(w) \in Row
  BY <1>4 DEF Finished, Row, Statuses
<1> QED
  BY <1>3, <1>4, <1>5


(***************************************************************************)
(* Type correctness.                                                       *)
(***************************************************************************)
LEMMA InitType == ASSUME JobAssumption, Init PROVE TypeOK
<1>1. NoRow \in Row
  BY DEF NoRow, Row, Statuses, Errors
<1> QED
  BY <1>1 DEF Init, TypeOK, JobAssumption

LEMMA ApiType ==
  ASSUME TypeOK, NEW j \in Jobs,
         SubmitJob(j) \/ EnqueueJob(j) \/ EnqueueFails(j) \/ DeleteJob(j)
           \/ AgeJob(j)
  PROVE  TypeOK'
<1>1. CASE SubmitJob(j)
  <2>1. [NoRow EXCEPT !.status = "pending"] \in Row
    BY DEF NoRow, Row, Statuses, Errors
  <2> QED
    BY <1>1, <2>1 DEF SubmitJob, TypeOK, apiVars, brokerVars, workVars
<1>2. CASE EnqueueJob(j)
  <2>1. sent + 1 \in Nat
    BY DEF TypeOK
  <2>2. [tag |-> sent + 1, job |-> j, retries |-> 0] \in Message
    BY <2>1 DEF Message
  <2>3. ready' \in SUBSET Message /\ sent' \in Nat
    BY <1>2, <2>1, <2>2 DEF EnqueueJob, TypeOK
  <2> QED
    BY <1>2, <2>3 DEF EnqueueJob, TypeOK, jobVars, workVars
<1>3. CASE EnqueueFails(j)
  <2>1. budget' \in [Faults -> Nat]
    BY <1>3 DEF EnqueueFails, Spend, TypeOK, Faults
  <2> QED
    BY <1>3, <2>1 DEF EnqueueFails, TypeOK, jobVars, brokerVars, workVars
<1>4. CASE DeleteJob(j)
  <2>1. budget' \in [Faults -> Nat]
    BY <1>4 DEF DeleteJob, Spend, TypeOK, Faults
  <2>2. NoRow \in Row
    BY DEF NoRow, Row, Statuses, Errors
  <2>3. row' \in [Jobs -> Row]
    BY <1>4, <2>2 DEF DeleteJob, TypeOK
  <2>4. detections' \in SUBSET Detection
    BY <1>4 DEF DeleteJob, TypeOK
  <2> QED
    BY <1>4, <2>1, <2>3, <2>4
    DEF DeleteJob, TypeOK, apiVars, brokerVars, workVars
<1>5. CASE AgeJob(j)
  <2>1. age' \in [Jobs -> 0..2]
    BY <1>5 DEF AgeJob, TypeOK
  <2> QED
    BY <1>5, <2>1 DEF AgeJob, TypeOK, jobVars, brokerVars, workVars
<1> QED
  BY <1>1, <1>2, <1>3, <1>4, <1>5

LEMMA BootType ==
  ASSUME TypeOK, RestartApi \/ SelectStale \/ MarkStale
  PROVE  TypeOK'
<1>1. CASE RestartApi
  <2>1. budget' \in [Faults -> Nat]
    BY <1>1 DEF RestartApi, Spend, TypeOK, Faults
  <2>2. submit' \in [Jobs -> {"new", "committed", "enqueued", "lost"}]
    BY <1>1 DEF RestartApi, TypeOK
  <2> QED
    BY <1>1, <2>1, <2>2 DEF RestartApi, TypeOK, jobVars, brokerVars, workVars
<1>2. CASE SelectStale
  <2>1. \A j \in Jobs : row[j].error \in Errors
    BY DEF TypeOK, Row
  <2>2. stale' \in SUBSET [job : Jobs, error : Errors]
    BY <1>2, <2>1 DEF SelectStale
  <2> QED
    BY <1>2, <2>2 DEF SelectStale, TypeOK, jobVars, brokerVars, workVars
<1>3. CASE MarkStale
  <2>1. \A j \in Jobs : MarkedStale(j) \in Row
    BY DEF MarkedStale, TypeOK, Row, Statuses, Errors
  <2>2. row' \in [Jobs -> Row]
    BY <1>3, <2>1 DEF MarkStale, TypeOK
  <2> QED
    BY <1>3, <2>2 DEF MarkStale, TypeOK, brokerVars, workVars
<1> QED
  BY <1>1, <1>2, <1>3

LEMMA BrokerType ==
  ASSUME TypeOK,
         \/ \E m \in ready : \E w \in Workers : Receive(w, m)
         \/ \E m \in unacked : Redeliver(m) \/ RedeliverHeld(m)
         \/ WorkersCrash
  PROVE  TypeOK'
<1>1. ASSUME NEW m \in ready, NEW w \in Workers, Receive(w, m)
      PROVE  TypeOK'
  <2>1. NoRow \in Row
    BY DEF NoRow, Row, Statuses, Errors
  <2>2. m \in Message
    BY DEF TypeOK
  <2>3. [pc |-> "loading", msg |-> m, run |-> 0, snap |-> NoRow, frame |-> 0,
         box |-> 0, seen |-> {}, pending |-> {}, count |-> 0] \in Work
    BY <2>1, <2>2 DEF Work, Busy
  <2>4. worker' \in [Workers -> Work \union {Idle}]
    BY <1>1, <2>3 DEF Receive, TypeOK
  <2> QED
    BY <1>1, <2>2, <2>4 DEF Receive, TypeOK, jobVars, apiVars
<1>2. ASSUME NEW m \in unacked, Redeliver(m) PROVE TypeOK'
  BY <1>2 DEF Redeliver, TypeOK, jobVars, apiVars, workVars
<1>3. ASSUME NEW m \in unacked, RedeliverHeld(m) PROVE TypeOK'
  <2>1. budget' \in [Faults -> Nat]
    BY <1>3 DEF RedeliverHeld, Spend, TypeOK, Faults
  <2> QED
    BY <1>3, <2>1 DEF RedeliverHeld, TypeOK, jobVars, apiVars, workVars
<1>4. CASE WorkersCrash
  <2>1. budget' \in [Faults -> Nat]
    BY <1>4 DEF WorkersCrash, Spend, TypeOK, Faults
  <2> QED
    BY <1>4, <2>1 DEF WorkersCrash, TypeOK, jobVars, apiVars, brokerVars
<1> QED
  BY <1>1, <1>2, <1>3, <1>4

LEMMA ProcessType ==
  ASSUME JobAssumption, TypeOK, NEW w \in Workers, Process(w)
  PROVE  TypeOK'
<1>0. worker[w].pc # "idle"
  BY DEF Process, LoadJob, LoadMissingJob, OpenSource, OpenFails, ReadFrame,
     AnalyseBox, EndFrame, CommitProgress, EndOfVideo, CommitDone, CommitFails,
     Ack, FrameDone
<1>1. worker[w] \in Work
  BY <1>0, WorkerCases
<1>2. JobOf(w) \in Jobs
  BY <1>1 DEF Work, Message, JobOf
<1>3. NoRow \in Row
  BY DEF NoRow, Row, Statuses, Errors
<1>4. /\ Opened(w) \in Row /\ Unopened(w) \in Row
      /\ Progress(w) \in Row /\ Finished(w) \in Row
  BY <1>1, NewRowTypes
<1>5. CASE LoadJob(w)
  <2>1. runs + 1 \in Nat /\ row[JobOf(w)] \in Row
    BY <1>2 DEF TypeOK
  <2>2. worker' \in [Workers -> Work \union {Idle}]
    BY <1>1, <1>5, <2>1 DEF LoadJob, Step, Work, Busy, TypeOK
  <2>3. models' \in [Workers -> SUBSET Models]
    BY <1>2, <1>5 DEF LoadJob, TypeOK, JobAssumption
  <2> QED
    BY <1>5, <2>1, <2>2, <2>3
    DEF LoadJob, TypeOK, jobVars, apiVars, brokerVars
<1>6. CASE LoadMissingJob(w)
  BY <1>0, <1>6, AbortType DEF LoadMissingJob, TypeOK, jobVars, apiVars
<1>7. CASE OpenSource(w)
  <2>1. /\ row' \in [Jobs -> Row]
        /\ detections' \in SUBSET Detection
    BY <1>1, <1>4, <1>7, CommitType DEF OpenSource
  <2>2. worker' \in [Workers -> Work \union {Idle}]
    BY <1>1, <1>4, <1>7 DEF OpenSource, Step, Work, Busy, TypeOK
  <2> QED
    BY <1>7, <2>1, <2>2 DEF OpenSource, TypeOK, apiVars, brokerVars
<1>8. CASE OpenFails(w)
  <2>1. /\ row' \in [Jobs -> Row]
        /\ detections' \in SUBSET Detection
    BY <1>1, <1>4, <1>8, CommitType DEF OpenFails
  <2>2. worker' \in [Workers -> Work \union {Idle}]
    BY <1>1, <1>3, <1>8 DEF OpenFails, Step, Work, Busy, TypeOK
  <2>3. models' \in [Workers -> SUBSET Models]
    BY <1>8 DEF OpenFails, TypeOK
  <2> QED
    BY <1>8, <2>1, <2>2, <2>3 DEF OpenFails, TypeOK, apiVars, brokerVars
<1>9. CASE ReadFrame(w)
  <2> DEFINE r == [worker[w] EXCEPT
                     !.frame = @ + 1,
                     !.box = 1,
                     !.pc = IF Analysed(worker[w].frame + 1) THEN "boxes"
                            ELSE "reading"]
  <2>4. worker[w].frame + 1 \in Nat
    BY <1>1 DEF Work
  <2>6. (IF Analysed(worker[w].frame + 1) THEN "boxes" ELSE "reading") \in Busy
    BY DEF Busy
  <2>2. r \in Work
    BY <1>1, <2>4, <2>6, MoveFrame, Zenon
  <2>3. worker' = [worker EXCEPT ![w] = r]
    BY <1>9 DEF ReadFrame, Step
  <2>1. worker' \in [Workers -> Work \union {Idle}]
    BY <2>2, <2>3 DEF TypeOK
  <2> QED
    BY <1>9, <2>1 DEF ReadFrame, TypeOK, jobVars, apiVars, brokerVars
<1>10. CASE AnalyseBox(w)
  <2>1. Here(w) \in Position
    BY <1>1 DEF Here, Position, Work
  <2> DEFINE skipped == [worker[w] EXCEPT !.box = @ + 1]
             added == [worker[w] EXCEPT !.box = @ + 1,
                                        !.seen = @ \union {Here(w)},
                                        !.pending = @ \union {Here(w)},
                                        !.count = @ + 1]
  <2>6. worker[w].box + 1 \in Nat /\ worker[w].count + 1 \in Nat
    BY <1>1 DEF Work
  <2>3. skipped \in Work
    BY <1>1, <2>6, MoveBox, Zenon
  <2>4. added \in Work
    BY <1>1, <2>1, <2>6, RecordBox, Zenon
  <2>5. \E r \in Work : worker' = [worker EXCEPT ![w] = r]
    BY <1>10, <2>3, <2>4 DEF AnalyseBox, Step
  <2>2. worker' \in [Workers -> Work \union {Idle}]
    BY <2>5 DEF TypeOK
  <2> QED
    BY <1>10, <2>2 DEF AnalyseBox, TypeOK, jobVars, apiVars, brokerVars
<1>11. CASE EndFrame(w)
  <2>1. worker' \in [Workers -> Work \union {Idle}]
    BY <1>1, <1>11 DEF EndFrame, Step, Work, Busy, TypeOK
  <2> QED
    BY <1>11, <2>1 DEF EndFrame, TypeOK, jobVars, apiVars, brokerVars
<1>12. CASE CommitProgress(w)
  <2>1. /\ row' \in [Jobs -> Row]
        /\ detections' \in SUBSET Detection
    BY <1>1, <1>4, <1>12, CommitType DEF CommitProgress
  <2>2. CASE Abort(w)
    BY <1>0, <1>12, <2>1, <2>2, AbortType DEF CommitProgress, TypeOK, apiVars
  <2>3. CASE UNCHANGED brokerVars /\ ~Abort(w)
    <3> DEFINE r == [worker[w] EXCEPT !.pc = "reading", !.box = 0,
                                      !.pending = {}, !.snap = Progress(w)]
    <3>2. r \in Work
      BY <1>1, <1>4 DEF Work, Busy
    <3>3. worker' = [worker EXCEPT ![w] = r]
      BY <1>12, <2>3 DEF CommitProgress, Step
    <3>1. worker' \in [Workers -> Work \union {Idle}]
      BY <3>2, <3>3 DEF TypeOK
    <3> QED
      BY <1>12, <2>1, <2>3, <3>1 DEF CommitProgress, TypeOK, apiVars, brokerVars
  <2> QED
    BY <1>12, <2>2, <2>3 DEF CommitProgress
<1>13. CASE EndOfVideo(w)
  <2>1. worker' \in [Workers -> Work \union {Idle}]
    BY <1>1, <1>13 DEF EndOfVideo, Step, Work, Busy, TypeOK
  <2>2. models' \in [Workers -> SUBSET Models]
    BY <1>13 DEF EndOfVideo, TypeOK
  <2> QED
    BY <1>13, <2>1, <2>2 DEF EndOfVideo, TypeOK, apiVars, brokerVars
<1>14. CASE CommitDone(w)
  <2>1. /\ row' \in [Jobs -> Row]
        /\ detections' \in SUBSET Detection
    BY <1>1, <1>4, <1>14, CommitType DEF CommitDone
  <2>2. worker' \in [Workers -> Work \union {Idle}]
    BY <1>1, <1>3, <1>14 DEF CommitDone, Step, Work, Busy, TypeOK
  <2> QED
    BY <1>14, <2>1, <2>2 DEF CommitDone, TypeOK, apiVars, brokerVars
<1>15. CASE CommitFails(w)
  <2>1. models' \in [Workers -> SUBSET Models]
    BY <1>15 DEF CommitFails, TypeOK
  <2> QED
    BY <1>0, <1>15, <2>1, AbortType DEF CommitFails, TypeOK, jobVars, apiVars
<1>16. CASE Ack(w)
  <2>1. worker' \in [Workers -> Work \union {Idle}]
    BY <1>16 DEF Ack, Step, TypeOK
  <2> QED
    BY <1>16, <2>1 DEF Ack, TypeOK, jobVars, apiVars
<1> QED
  BY <1>5, <1>6, <1>7, <1>8, <1>9, <1>10, <1>11, <1>12, <1>13, <1>14, <1>15,
     <1>16 DEF Process

LEMMA FailureType ==
  ASSUME TypeOK, NEW w \in Workers, RunFails(w) \/ ChildKilled(w)
  PROVE  TypeOK'
<1>1. CASE RunFails(w)
  <2>1. budget' \in [Faults -> Nat]
    BY <1>1 DEF RunFails, Spend, TypeOK, Faults
  <2>2. worker[w].pc # "idle"
    BY <1>1 DEF RunFails
  <2> QED
    BY <1>1, <2>1, <2>2, AbortType DEF RunFails, TypeOK, jobVars, apiVars
<1>2. CASE ChildKilled(w)
  <2>1. budget' \in [Faults -> Nat]
    BY <1>2 DEF ChildKilled, Spend, TypeOK, Faults
  <2>2. worker' \in [Workers -> Work \union {Idle}]
    BY <1>2 DEF ChildKilled, Step, TypeOK
  <2>3. models' \in [Workers -> SUBSET Models]
    BY <1>2 DEF ChildKilled, TypeOK
  <2> QED
    BY <1>2, <2>1, <2>2, <2>3 DEF ChildKilled, TypeOK, jobVars, apiVars
<1> QED
  BY <1>1, <1>2

LEMMA NextType ==
  ASSUME JobAssumption, TypeOK, [Next]_vars
  PROVE  TypeOK'
<1>1. CASE Next
  BY <1>1, ApiType, BootType, BrokerType, ProcessType, FailureType DEF Next
<1>2. CASE UNCHANGED vars
  BY <1>2 DEF vars, jobVars, apiVars, brokerVars, workVars, TypeOK
<1> QED
  BY <1>1, <1>2

\* Every variable keeps its type: in particular no commit, partial update of
\* changed columns or republished message produces an ill-formed row.
THEOREM TypeCorrect == Spec => []TypeOK
<1>1. Init => TypeOK
  BY JobAssumption, InitType
<1>2. TypeOK /\ [Next]_vars => TypeOK'
  BY JobAssumption, NextType
<1> QED
  BY <1>1, <1>2, PTL DEF Spec

(***************************************************************************)
(* Covering: a larger set covers more, and a frame at a time.              *)
(***************************************************************************)
LEMMA CoversMono ==
  ASSUME NEW j, NEW S, NEW T, S \subseteq T, NEW f, CoversTo(j, S, f)
  PROVE  CoversTo(j, T, f)
BY DEF CoversTo, CoversBox

LEMMA CoversNext ==
  ASSUME NEW j, NEW S, NEW f \in Nat, CoversTo(j, S, f),
         Analysed(f + 1) =>
           \A b \in 1..Len(Video[j][f + 1]) : CoversBox(j, S, <<f + 1, b>>)
  PROVE  CoversTo(j, S, f + 1)
<1>1. \A g \in 1..(f + 1) : g \in 1..f \/ g = f + 1
  OBVIOUS
<1> QED
  BY <1>1 DEF CoversTo

LEMMA BoxAtType ==
  ASSUME JobAssumption, NEW j \in Jobs, NEW f \in 1..Len(Video[j]),
         NEW b \in 1..Len(Video[j][f])
  PROVE  BoxAt(j, <<f, b>>) \in Box
<1>1. Video[j] \in Seq(Seq(Box))
  BY DEF JobAssumption
<1>2. Video[j][f] \in Seq(Box)
  BY <1>1
<1>3. Video[j][f][b] \in Box
  BY <1>2
<1> QED
  BY <1>3 DEF BoxAt

LEMMA SameSpotReflexive ==
  ASSUME JobAssumption, NEW b \in Box
  PROVE  SameSpot(b, b)
<1>1. b.at \in Int /\ GeoRadius \in Nat \ {0} /\ PixelRadius \in Nat \ {0}
  BY DEF Box, JobAssumption
<1>2. \A r \in Nat \ {0} : b.at - b.at < r
  BY <1>1
<1> QED
  BY <1>1, <1>2 DEF SameSpot

(***************************************************************************)
(* Steps that leave a worker alone, and commits.                           *)
(***************************************************************************)
LEMMA JobOfType ==
  ASSUME TypeOK, NEW w \in Workers, Running(w)
  PROVE  JobOf(w) \in Jobs /\ worker[w].msg \in Message
BY WorkerCases DEF Running, Work, Message, JobOf

\* No row comes back and no row of the detections table of a remaining job is
\* lost, but for a job that is being submitted.
Persists ==
  \A j \in Jobs :
    Exists(j)' => \/ Exists(j) /\ Committed(j) \subseteq Committed(j)'
                  \/ submit[j] = "new" /\ row'[j].status = "pending"

LEMMA OthersKeep ==
  ASSUME TypeOK, EnqueuedOnly, Persists,
         NEW v \in Workers, worker'[v] = worker[v],
         Analysing(v) => LoopCovers(v) /\ SeenIsKept(v)
  PROVE  (Analysing(v) => LoopCovers(v) /\ SeenIsKept(v))'
<1> SUFFICES ASSUME Analysing(v)' PROVE LoopCovers(v)' /\ SeenIsKept(v)'
  OBVIOUS
<1>1. Analysing(v) /\ Running(v)
  BY DEF Analysing, Running
<1>2. LoopCovers(v)'
  BY <1>1 DEF LoopCovers, JobOf, Boxes
<1> DEFINE j == worker[v].msg.job
<1>3. j \in Jobs /\ submit[j] # "new"
  BY <1>1, JobOfType DEF EnqueuedOnly, InFlight, JobOf
<1>4. row'[j].status # "absent" =>
         /\ row[j].status # "absent"
         /\ {d.pos : d \in {e \in detections : e.job = j}}
              \subseteq {d.pos : d \in {e \in detections' : e.job = j}}
  BY <1>3 DEF Persists, Exists, Committed
<1>5. SeenIsKept(v)'
  BY <1>1, <1>4 DEF SeenIsKept, JobOf, Exists, Committed
<1> QED
  BY <1>2, <1>5

LEMMA CommitStores ==
  ASSUME NEW w \in Workers, NEW new, Commit(w, new)
  PROVE  /\ \A j \in Jobs : Committed(j) \subseteq Committed(j)'
         /\ \A p \in worker[w].pending :
              p \in {d.pos : d \in {e \in detections' : e.job = JobOf(w)}}
<1>1. \A j \in Jobs : Committed(j) \subseteq Committed(j)'
  BY DEF Commit, Committed
<1>2. ASSUME NEW p \in worker[w].pending
      PROVE  p \in {d.pos : d \in {e \in detections' : e.job = JobOf(w)}}
  <2> DEFINE d == [job |-> JobOf(w), run |-> worker[w].run, pos |-> p]
  <2>1. d \in detections'
    BY DEF Commit
  <2>2. d.job = JobOf(w) /\ d.pos = p
    OBVIOUS
  <2> QED
    BY <2>1, <2>2
<1> QED
  BY <1>1, <1>2

LEMMA CommitRows ==
  ASSUME TypeOK, NEW w \in Workers, worker[w] \in Work, NEW new \in Row,
         Commit(w, new), NEW j \in Jobs
  PROVE  /\ (row'[j].status # "absent") => (row[j].status # "absent")
         /\ row'[j].status = "done" =>
              row[j].status = "done" \/ (j = JobOf(w) /\ new.status = "done"
                                         /\ worker[w].snap.status # "done")
<1>1. JobOf(w) \in Jobs
  BY DEF Work, Message, JobOf
<1>2. CASE j = JobOf(w) /\ Exists(j)
  BY <1>1, <1>2 DEF Commit, Merged, Merge, TypeOK, Exists
<1>3. CASE j # JobOf(w) \/ ~Exists(j)
  BY <1>1, <1>3 DEF Commit, TypeOK, Exists
<1> QED
  BY <1>2, <1>3

\* No job becomes done but one whose boxes are all committed.
DoneEarned ==
  \A j \in Jobs : row'[j].status = "done" =>
    row[j].status = "done" \/ Covers(j, Committed(j)')

LEMMA CoverCombine ==
  ASSUME TypeOK, CoverInv, EnqueuedOnly', Persists, DoneEarned,
         \A v \in Workers :
           \/ worker'[v] = worker[v]
           \/ (Analysing(v) => LoopCovers(v) /\ SeenIsKept(v))'
  PROVE  CoverInv'
<1>1. ASSUME NEW v \in Workers
      PROVE  (Analysing(v) => LoopCovers(v) /\ SeenIsKept(v))'
  BY OthersKeep DEF CoverInv
<1>2. ASSUME NEW j \in Jobs, row'[j].status = "done"
      PROVE  Covers(j, Committed(j)')
  <2>1. CASE row[j].status = "done"
    <3>1. Covers(j, Committed(j))
      BY <2>1 DEF CoverInv, DoneCovers
    <3>2. Committed(j) \subseteq Committed(j)'
      BY <1>2 DEF Persists, Exists
    <3> QED
      BY <3>1, <3>2, CoversMono DEF Covers
  <2>2. CASE row[j].status # "done"
    BY <1>2, <2>2 DEF DoneEarned
  <2> QED
    BY <2>1, <2>2
<1>3. DoneCovers'
  BY <1>2 DEF DoneCovers, Covers
<1> QED
  BY <1>1, <1>3 DEF CoverInv

\* Messages travel between the queue, the unacknowledged set and the workers;
\* only EnqueueJob and a retry add one, both for an enqueued job.
LEMMA EnqueuedStep ==
  ASSUME TypeOK, EnqueuedOnly,
         \A j \in Jobs : submit[j] = "enqueued" => submit'[j] = "enqueued",
         \A m \in InFlight' : m.job \in Jobs /\
           (m.job \in {n.job : n \in InFlight} \/ submit'[m.job] = "enqueued")
  PROVE  EnqueuedOnly'
<1>1. ASSUME NEW m \in InFlight' PROVE submit'[m.job] = "enqueued"
  <2>1. CASE submit'[m.job] = "enqueued"
    BY <2>1
  <2>2. CASE m.job \in {n.job : n \in InFlight}
    BY <1>1, <2>2 DEF EnqueuedOnly
  <2> QED
    BY <1>1, <2>1, <2>2
<1> QED
  BY <1>1 DEF EnqueuedOnly

LEMMA InFlightType == ASSUME TypeOK PROVE InFlight \subseteq Message
BY JobOfType DEF InFlight, TypeOK

LEMMA AbortInFlight ==
  ASSUME TypeOK, NEW w \in Workers, Running(w), Abort(w)
  PROVE  \A m \in InFlight' :
           m.job \in Jobs /\ m.job \in {n.job : n \in InFlight}
<1> SUFFICES ASSUME NEW m \in InFlight'
             PROVE  m.job \in Jobs /\ m.job \in {n.job : n \in InFlight}
  OBVIOUS
<1>1. worker[w].msg \in InFlight
  BY DEF InFlight
<1>2. CASE m \in InFlight
  BY <1>2, InFlightType DEF Message
<1>3. CASE m \notin InFlight
  <2>1. \A v \in Workers : Running(v)' => Running(v) /\ worker'[v].msg = worker[v].msg
    BY DEF Abort, Step, TypeOK, Running
  <2>2. m \in ready' /\ m \notin ready
    BY <1>3, <2>1 DEF InFlight, Abort
  <2>3. m.job = worker[w].msg.job
    BY <2>2 DEF Abort
  <2> QED
    BY <1>1, <2>3, InFlightType DEF Message
<1> QED
  BY <1>2, <1>3

LEMMA WorkerInFlight ==
  ASSUME TypeOK, UNCHANGED ready, unacked' \subseteq unacked,
         \A v \in Workers :
           Running(v)' => Running(v) /\ worker'[v].msg = worker[v].msg
  PROVE  \A m \in InFlight' :
           m.job \in Jobs /\ m.job \in {n.job : n \in InFlight}
<1>1. InFlight' \subseteq InFlight
  BY DEF InFlight
<1> QED
  BY <1>1, InFlightType DEF Message

LEMMA CoverApi ==
  ASSUME TypeOK, CoverInv, NEW k \in Jobs,
         \/ SubmitJob(k) \/ EnqueueJob(k) \/ EnqueueFails(k) \/ DeleteJob(k)
         \/ AgeJob(k) \/ RestartApi \/ SelectStale \/ MarkStale
  PROVE  CoverInv'
<1>1. worker' = worker
  BY DEF SubmitJob, EnqueueJob, EnqueueFails, DeleteJob, AgeJob, RestartApi,
     SelectStale, MarkStale, workVars
<1>2. EnqueuedOnly'
  <2>1. CASE EnqueueJob(k)
    <3>1. ASSUME NEW m \in InFlight' PROVE submit'[m.job] = "enqueued"
      <4>1. CASE m \in InFlight
        BY <2>1, <4>1, InFlightType DEF EnqueueJob, CoverInv, EnqueuedOnly, TypeOK,
           Message
      <4>2. CASE m \notin InFlight
        <5>1. m = [tag |-> sent', job |-> k, retries |-> 0]
          BY <1>1, <2>1, <4>2 DEF EnqueueJob, InFlight, Running
        <5> QED
          BY <2>1, <5>1 DEF EnqueueJob, TypeOK
      <4> QED
        BY <4>1, <4>2
    <3> QED
      BY <3>1 DEF EnqueuedOnly
  <2>2. CASE ~EnqueueJob(k)
    <3>1. UNCHANGED <<ready, unacked>>
      BY <2>2 DEF SubmitJob, EnqueueFails, DeleteJob, AgeJob, RestartApi,
         SelectStale, MarkStale, brokerVars
    <3>2. InFlight' = InFlight
      BY <1>1, <3>1 DEF InFlight, Running
    <3>3. ASSUME NEW j \in Jobs, submit[j] = "enqueued"
          PROVE  submit'[j] = "enqueued"
      <4>1. CASE SubmitJob(k) \/ EnqueueFails(k)
        BY <3>3, <4>1 DEF SubmitJob, EnqueueFails, TypeOK
      <4>2. CASE RestartApi
        BY <3>3, <4>2 DEF RestartApi, TypeOK
      <4>3. CASE DeleteJob(k) \/ AgeJob(k) \/ SelectStale \/ MarkStale
        BY <3>3, <4>3 DEF DeleteJob, AgeJob, SelectStale, MarkStale, apiVars
      <4> QED
        BY <2>2, <4>1, <4>2, <4>3
    <3> QED
      BY <3>2, <3>3, InFlightType DEF CoverInv, EnqueuedOnly, Message
  <2> QED
    BY <2>1, <2>2
<1>3. Persists /\ DoneEarned
  <2>1. CASE SubmitJob(k)
    BY <2>1 DEF SubmitJob, Persists, DoneEarned, TypeOK, NoRow, Exists, Committed
  <2>2. CASE DeleteJob(k)
    <3>1. \A j \in Jobs : row'[j] = IF j = k THEN NoRow ELSE row[j]
      BY <2>2 DEF DeleteJob, TypeOK
    <3>2. \A j \in Jobs : j # k => Committed(j) \subseteq Committed(j)'
      BY <2>2 DEF DeleteJob, Committed
    <3> QED
      BY <3>1, <3>2 DEF Persists, DoneEarned, NoRow, Exists
  <2>3. CASE MarkStale
    <3>3. \A j \in Jobs : MarkedStale(j).status = "failed"
      BY DEF MarkedStale, TypeOK, Row
    <3>1. \A j \in Jobs : row'[j] = row[j] \/ (Exists(j) /\ row'[j].status = "failed")
      BY <2>3, <3>3 DEF MarkStale
    <3>2. detections' = detections
      BY <2>3 DEF MarkStale
    <3> QED
      BY <3>1, <3>2 DEF Persists, DoneEarned, Exists, Committed
  <2>4. CASE ~SubmitJob(k) /\ ~DeleteJob(k) /\ ~MarkStale
    <3>1. row' = row /\ detections' = detections
      BY <2>4 DEF EnqueueJob, EnqueueFails, AgeJob, RestartApi, SelectStale,
         jobVars
    <3> QED
      BY <3>1 DEF Persists, DoneEarned, Exists, Committed
  <2> QED
    BY <2>1, <2>2, <2>3, <2>4
<1> QED
  BY <1>1, <1>2, <1>3, CoverCombine

\* The same without a job (Jobs may be empty).
LEMMA CoverBoot ==
  ASSUME TypeOK, CoverInv, RestartApi \/ SelectStale \/ MarkStale
  PROVE  CoverInv'
<1>1. CASE Jobs # {}
  BY <1>1, CoverApi
<1>2. CASE Jobs = {}
  <2>1. worker' = worker /\ UNCHANGED brokerVars
    BY DEF RestartApi, SelectStale, MarkStale, workVars
  <2>2. InFlight' = InFlight
    BY <2>1 DEF InFlight, Running, brokerVars
  <2>3. EnqueuedOnly'
    BY <1>2, <2>2, InFlightType DEF EnqueuedOnly, Message
  <2> QED
    BY <1>2, <2>1, <2>3, CoverCombine DEF Persists, DoneEarned
<1> QED
  BY <1>1, <1>2

LEMMA CoverBroker ==
  ASSUME TypeOK, CoverInv,
         \/ \E m \in ready : \E w \in Workers : Receive(w, m)
         \/ \E m \in unacked : Redeliver(m) \/ RedeliverHeld(m)
         \/ WorkersCrash
  PROVE  CoverInv'
<1>1. UNCHANGED <<row, detections, submit>>
  BY DEF Receive, Redeliver, RedeliverHeld, WorkersCrash, jobVars, apiVars
<1>2. Persists /\ DoneEarned
  BY <1>1 DEF Persists, DoneEarned, Exists, Committed
<1>3. ASSUME NEW m \in ready, NEW w \in Workers, Receive(w, m)
      PROVE  CoverInv'
  <2>1. InFlight' \subseteq InFlight
    BY <1>3 DEF Receive, InFlight, Running, TypeOK
  <2>2. EnqueuedOnly'
    BY <1>1, <2>1 DEF CoverInv, EnqueuedOnly
  <2>3. worker'[w].pc = "loading" /\ worker'[w].msg = m /\ worker'[w].frame = 0
        /\ worker'[w].seen = {}
    BY <1>3 DEF Receive, TypeOK
  <2>4. m.job \in Jobs
    BY DEF TypeOK, Message
  <2>5. Len(Video[m.job]) \in Nat
    BY <2>4, JobAssumption DEF JobAssumption
  <2>6. LoopCovers(w)' /\ SeenIsKept(w)'
    BY <2>3, <2>5 DEF LoopCovers, SeenIsKept, JobOf, CoversTo
  <2>7. \A v \in Workers : v # w => worker'[v] = worker[v]
    BY <1>3 DEF Receive, TypeOK
  <2> QED
    BY <1>2, <2>2, <2>6, <2>7, CoverCombine
<1>4. ASSUME NEW m \in unacked, Redeliver(m) \/ RedeliverHeld(m)
      PROVE  CoverInv'
  <2>1. worker' = worker
    BY <1>4 DEF Redeliver, RedeliverHeld, workVars
  <2>2. InFlight' \subseteq InFlight
    BY <1>4, <2>1 DEF Redeliver, RedeliverHeld, InFlight, Running
  <2>3. EnqueuedOnly'
    BY <1>1, <2>2 DEF CoverInv, EnqueuedOnly
  <2> QED
    BY <1>2, <2>1, <2>3, CoverCombine
<1>5. CASE WorkersCrash
  <2>1. \A v \in Workers : worker'[v] = Idle
    BY <1>5 DEF WorkersCrash
  <2>2. InFlight' \subseteq InFlight
    BY <1>5, <2>1 DEF WorkersCrash, brokerVars, InFlight, Running, Idle
  <2>3. EnqueuedOnly'
    BY <1>1, <2>2 DEF CoverInv, EnqueuedOnly
  <2>4. \A v \in Workers : (~Analysing(v))'
    BY <2>1 DEF Analysing, Running, Idle
  <2> QED
    BY <1>2, <2>3, <2>4, CoverCombine
<1> QED
  BY <1>3, <1>4, <1>5

\* Steps of one worker w that leave the tables alone.
LEMMA CoverLocal ==
  ASSUME TypeOK, CoverInv, UNCHANGED <<row, detections, submit>>,
         NEW w \in Workers,
         \A v \in Workers : v # w => worker'[v] = worker[v],
         \A m \in InFlight' :
           m.job \in Jobs /\ m.job \in {n.job : n \in InFlight},
         (Analysing(w) => LoopCovers(w) /\ SeenIsKept(w))'
  PROVE  CoverInv'
<1>1. Persists /\ DoneEarned
  BY DEF Persists, DoneEarned, Exists, Committed
<1>2. EnqueuedOnly'
  BY EnqueuedStep DEF CoverInv
<1> QED
  BY <1>1, <1>2, CoverCombine

LEMMA CoverCommit ==
  ASSUME TypeOK, CoverInv, NEW w \in Workers, worker[w] \in Work,
         NEW new \in Row, Commit(w, new), UNCHANGED submit,
         new.status = "done" => new.status = worker[w].snap.status
           \/ Covers(JobOf(w), Committed(JobOf(w)) \union worker[w].pending),
         \A v \in Workers : v # w => worker'[v] = worker[v],
         \A m \in InFlight' :
           m.job \in Jobs /\ m.job \in {n.job : n \in InFlight},
         (Analysing(w) => LoopCovers(w) /\ SeenIsKept(w))'
  PROVE  CoverInv'
<1>1. EnqueuedOnly'
  BY EnqueuedStep DEF CoverInv
<1>2. Persists
  BY CommitRows, CommitStores DEF Persists, Exists
<1>3. DoneEarned
  <2>1. ASSUME NEW j \in Jobs, row'[j].status = "done", row[j].status # "done"
        PROVE  Covers(j, Committed(j)')
    <3>1. j = JobOf(w) /\ new.status = "done" /\ worker[w].snap.status # "done"
      BY <2>1, CommitRows
    <3>2. Covers(j, Committed(j) \union worker[w].pending)
      BY <3>1
    <3>3. Committed(j) \union worker[w].pending \subseteq Committed(j)'
      BY <3>1, CommitStores DEF Committed
    <3> QED
      BY <3>2, <3>3, CoversMono DEF Covers
  <2> QED
    BY <2>1 DEF DoneEarned
<1> QED
  BY <1>1, <1>2, <1>3, CoverCombine

LEMMA SeenKept ==
  ASSUME NEW w \in Workers, UNCHANGED <<row, detections>>, SeenIsKept(w),
         worker'[w].msg = worker[w].msg,
         \/ /\ worker'[w].seen = worker[w].seen
            /\ worker'[w].pending = worker[w].pending
         \/ \E q : /\ worker'[w].seen = worker[w].seen \union {q}
                   /\ worker'[w].pending = worker[w].pending \union {q}
  PROVE  SeenIsKept(w)'
BY DEF SeenIsKept, JobOf, Exists, Committed

LEMMA SeenCommitted ==
  ASSUME TypeOK, NEW w \in Workers, worker[w] \in Work, NEW new \in Row,
         Commit(w, new), SeenIsKept(w),
         worker'[w].msg = worker[w].msg, worker'[w].seen = worker[w].seen
  PROVE  SeenIsKept(w)'
<1> DEFINE j == worker[w].msg.job
<1>1. j \in Jobs /\ JobOf(w) = j
  BY DEF Work, Message, JobOf
<1>2. row'[j].status # "absent" => row[j].status # "absent"
  BY <1>1, CommitRows
<1>3. {d.pos : d \in {e \in detections : e.job = j}}
        \subseteq {d.pos : d \in {e \in detections' : e.job = j}}
  BY DEF Commit
<1>4. \A p \in worker[w].pending : p \in {d.pos : d \in {e \in detections' : e.job = j}}
  BY <1>1, CommitStores
<1> QED
  BY <1>1, <1>2, <1>3, <1>4 DEF SeenIsKept, JobOf, Exists, Committed

\* When all boxes of a frame have been looked at, the frame is covered.
LEMMA FrameCovered ==
  ASSUME TypeOK, NEW w \in Workers, worker[w] \in Work, LoopCovers(w),
         FrameDone(w)
  PROVE  /\ CoversTo(JobOf(w), worker[w].seen, worker[w].frame)
         /\ worker[w].frame \in 0..Len(Video[JobOf(w)])
<1> DEFINE f == worker[w].frame
           j == JobOf(w)
<1>1. /\ f \in Nat /\ f > 0 /\ f \in 0..Len(Video[j])
      /\ CoversTo(j, worker[w].seen, f - 1)
      /\ \A b \in 1..(worker[w].box - 1) : CoversBox(j, worker[w].seen, <<f, b>>)
      /\ worker[w].box \in Nat
  BY DEF FrameDone, LoopCovers, Work
<1>2. Len(Boxes(w)) \in Nat /\ worker[w].box > Len(Boxes(w))
  <2>1. j \in Jobs
    BY DEF Work, Message, JobOf
  <2>2. Video[j] \in Seq(Seq(Box)) /\ f \in 1..Len(Video[j])
    BY <1>1, <2>1, JobAssumption DEF JobAssumption
  <2>3. Boxes(w) \in Seq(Box)
    BY <2>2 DEF Boxes
  <2> QED
    BY <2>3 DEF FrameDone
<1>3. \A b \in 1..Len(Video[j][f]) : CoversBox(j, worker[w].seen, <<f, b>>)
  BY <1>1, <1>2 DEF Boxes
<1>4. f - 1 \in Nat /\ (f - 1) + 1 = f
  BY <1>1
<1>5. CoversTo(j, worker[w].seen, (f - 1) + 1)
  BY <1>1, <1>3, <1>4, CoversNext
<1> QED
  BY <1>1, <1>4, <1>5

\* Receiving, reading and leaving frames: the covered prefix grows by the frame
\* that was just left, and only when all its boxes have been looked at.
LEMMA CoverFrames ==
  ASSUME TypeOK, CoverInv, NEW w \in Workers,
         \/ LoadJob(w) \/ ReadFrame(w) \/ EndFrame(w) \/ EndOfVideo(w)
  PROVE  CoverInv'
<1>0. worker[w].pc \in {"loading", "reading", "boxes"}
  BY DEF LoadJob, ReadFrame, EndFrame, EndOfVideo, FrameDone
<1>1. worker[w] \in Work /\ Running(w) /\ Analysing(w)
  BY <1>0, WorkerCases DEF Running, Analysing
<1>2. LoopCovers(w) /\ SeenIsKept(w)
  BY <1>1 DEF CoverInv
<1>3. UNCHANGED <<row, detections, submit, ready, unacked>>
  BY DEF LoadJob, ReadFrame, EndFrame, EndOfVideo, jobVars, apiVars, brokerVars
<1>4. \A v \in Workers : v # w => worker'[v] = worker[v]
  BY DEF LoadJob, ReadFrame, EndFrame, EndOfVideo, Step, TypeOK
<1>5. /\ worker'[w].msg = worker[w].msg
      /\ worker'[w].seen = worker[w].seen
      /\ worker'[w].pending = worker[w].pending
  <2>1. CASE LoadJob(w)
    BY <1>1, <2>1 DEF LoadJob, Step, TypeOK, Work
  <2>2. CASE ReadFrame(w)
    BY <1>1, <2>2 DEF ReadFrame, Step, TypeOK, Work
  <2>3. CASE EndFrame(w)
    BY <1>1, <2>3 DEF EndFrame, Step, TypeOK, Work
  <2>4. CASE EndOfVideo(w)
    BY <1>1, <2>4 DEF EndOfVideo, Step, TypeOK, Work
  <2> QED
    BY <2>1, <2>2, <2>3, <2>4
<1>6. SeenIsKept(w)'
  BY <1>2, <1>3, <1>5, SeenKept
<1>7. \A m \in InFlight' :
        m.job \in Jobs /\ m.job \in {n.job : n \in InFlight}
  <2>1. \A v \in Workers :
          Running(v)' => Running(v) /\ worker'[v].msg = worker[v].msg
    BY <1>1, <1>4, <1>5 DEF Running
  <2> QED
    BY <1>3, <2>1, WorkerInFlight
<1>8. JobOf(w) \in Jobs /\ Len(Video[JobOf(w)]) \in Nat
  BY <1>1, JobAssumption, JobOfType DEF JobAssumption
<1>9. LoopCovers(w)'
  <2>1. CASE LoadJob(w)
    <3>1. worker'[w].pc = "opening" /\ worker'[w].frame = worker[w].frame
      BY <1>1, <2>1 DEF LoadJob, Step, TypeOK, Work
    <3> QED
      BY <1>2, <1>5, <2>1, <3>1 DEF LoopCovers, JobOf, LoadJob
  <2>2. CASE ReadFrame(w)
    <3> DEFINE f == worker[w].frame
    <3>1. /\ worker'[w].frame = f + 1 /\ worker'[w].box = 1
          /\ worker'[w].pc = IF Analysed(f + 1) THEN "boxes" ELSE "reading"
      BY <1>1, <2>2 DEF ReadFrame, Step, TypeOK, Work
    <3>2. f \in Nat /\ f < Len(Video[JobOf(w)]) /\ CoversTo(JobOf(w), worker[w].seen, f)
      BY <1>1, <1>2, <2>2 DEF ReadFrame, LoopCovers, Work
    <3>3. f + 1 \in 0..Len(Video[JobOf(w)]) /\ f + 1 > 0 /\ (f + 1) - 1 = f
      BY <1>8, <3>2
    <3>4. CASE Analysed(f + 1)
      <4>1. 1 \in 1..(Len(Video[JobOf(w)][f + 1]) + 1)
        <5>1. Video[JobOf(w)] \in Seq(Seq(Box)) /\ f + 1 \in 1..Len(Video[JobOf(w)])
          BY <1>8, <3>3, JobAssumption DEF JobAssumption
        <5>2. Video[JobOf(w)][f + 1] \in Seq(Box)
          BY <5>1
        <5> QED
          BY <5>2
      <4>2. worker'[w].pc = "boxes"
        BY <3>1, <3>4
      <4> QED
        BY <1>5, <3>1, <3>2, <3>3, <4>1, <4>2 DEF LoopCovers, JobOf, Boxes
    <3>5. CASE ~Analysed(f + 1)
      <4>1. worker'[w].pc = "reading"
        BY <3>1, <3>5
      <4>2. CoversTo(JobOf(w), worker[w].seen, f + 1)
        BY <3>2, <3>5, CoversNext
      <4> QED
        BY <1>5, <3>1, <3>3, <4>1, <4>2 DEF LoopCovers, JobOf, Boxes
    <3> QED
      BY <3>4, <3>5
  <2>3. CASE EndFrame(w)
    <3> DEFINE f == worker[w].frame
    <3>1. worker'[w].pc = "reading" /\ worker'[w].frame = f
      BY <1>1, <2>3 DEF EndFrame, Step, TypeOK, Work
    <3>2. CoversTo(JobOf(w), worker[w].seen, f) /\ f \in 0..Len(Video[JobOf(w)])
      BY <1>1, <1>2, <2>3, FrameCovered DEF EndFrame
    <3> QED
      BY <1>5, <3>1, <3>2 DEF LoopCovers, JobOf
  <2>4. CASE EndOfVideo(w)
    <3>1. worker'[w].pc = "unlinked" /\ worker'[w].frame = worker[w].frame
      BY <1>1, <2>4 DEF EndOfVideo, Step, TypeOK, Work
    <3> QED
      BY <1>2, <1>5, <2>4, <3>1 DEF LoopCovers, JobOf, EndOfVideo
  <2> QED
    BY <2>1, <2>2, <2>3, <2>4
<1> QED
  BY <1>3, <1>4, <1>6, <1>7, <1>9, CoverLocal

LEMMA BusyWorker ==
  ASSUME TypeOK, NEW w \in Workers, Process(w) \/ RunFails(w) \/ ChildKilled(w)
  PROVE  worker[w] \in Work
BY WorkerCases DEF Process, RunFails, ChildKilled, LoadJob, LoadMissingJob,
   OpenSource, OpenFails, ReadFrame, AnalyseBox, EndFrame, CommitProgress,
   EndOfVideo, CommitDone, CommitFails, Ack, FrameDone, Running

\* A run loads before it opens, and unloads only when it leaves the loop.
LEMMA LoadedNext ==
  ASSUME TypeOK, ModelsLoaded, [Next]_vars
  PROVE  ModelsLoaded'
<1> DEFINE Loaded(w) == worker[w].pc \in {"opening", "reading", "boxes"} =>
                          Enabled[JobOf(w)] \cap Installed \subseteq models[w]
<1> SUFFICES ASSUME NEW v \in Workers PROVE Loaded(v)'
  BY DEF ModelsLoaded
<1>1. Loaded(v)
  BY DEF ModelsLoaded
<1>2. CASE worker'[v] = worker[v] /\ models'[v] = models[v]
  BY <1>1, <1>2 DEF JobOf
<1>3. CASE worker'[v].pc \notin {"opening", "reading", "boxes"}
  BY <1>3
<1>4. ASSUME NEW w \in Workers, Process(w) \/ RunFails(w) \/ ChildKilled(w)
      PROVE  Loaded(v)'
  <2>1. CASE v # w
    <3>1. worker'[v] = worker[v] /\ models'[v] = models[v]
      BY <1>4, <2>1 DEF Process, LoadJob, LoadMissingJob, OpenSource, OpenFails,
         ReadFrame, AnalyseBox, EndFrame, CommitProgress, EndOfVideo, CommitDone,
         CommitFails, Ack, RunFails, ChildKilled, Abort, Step, TypeOK
    <3> QED
      BY <1>2, <3>1
  <2>2. CASE v = w /\ (Abort(w) \/ OpenFails(w) \/ EndOfVideo(w) \/ CommitDone(w)
                         \/ Ack(w) \/ ChildKilled(w))
    <3>1. CASE Ack(w) \/ ChildKilled(w)
      <4>1. worker'[w] = Idle
        BY <3>1 DEF Ack, ChildKilled, Step, TypeOK
      <4> QED
        BY <1>3, <2>2, <4>1 DEF Idle
    <3>2. CASE OpenFails(w) \/ EndOfVideo(w) \/ CommitDone(w)
      <4>1. worker[w] \in Work
        BY <3>2, WorkerCases DEF OpenFails, EndOfVideo, CommitDone
      <4>2. worker'[w].pc \in {"closing", "unlinked"}
        <5>1. CASE OpenFails(w)
          BY <4>1, <5>1 DEF OpenFails, Step, TypeOK, Work
        <5>2. CASE EndOfVideo(w)
          BY <4>1, <5>2 DEF EndOfVideo, Step, TypeOK, Work
        <5>3. CASE CommitDone(w)
          BY <4>1, <5>3 DEF CommitDone, Step, TypeOK, Work
        <5> QED
          BY <3>2, <5>1, <5>2, <5>3
      <4> QED
        BY <1>3, <2>2, <4>2
    <3>3. CASE Abort(w) /\ ~Ack(w) /\ ~ChildKilled(w)
      <4>1. worker[w] \in Work
        BY <1>4, <2>2, <3>3, BusyWorker
      <4>2. worker'[w].pc = "acking"
        BY <3>3, <4>1 DEF Abort, Step, TypeOK, Work
      <4> QED
        BY <1>3, <2>2, <4>2
    <3> QED
      BY <2>2, <3>1, <3>2, <3>3
  <2>3. CASE v = w /\ LoadJob(w)
    <3>1. worker[w] \in Work
      BY <2>3, WorkerCases DEF LoadJob
    <3>2. worker'[w].msg = worker[w].msg
      BY <2>3, <3>1 DEF LoadJob, Step, TypeOK, Work
    <3>3. models'[w] = models[w] \union (Enabled[JobOf(w)] \cap Installed)
      BY <2>3 DEF LoadJob, TypeOK
    <3> QED
      BY <2>3, <3>2, <3>3 DEF JobOf
  <2>4. CASE /\ v = w /\ ~Abort(w)
             /\ \/ OpenSource(w) \/ ReadFrame(w) \/ AnalyseBox(w) \/ EndFrame(w)
                \/ CommitProgress(w)
    <3>1. worker[w].pc \in {"opening", "reading", "boxes"} /\ models' = models
      BY <2>4 DEF OpenSource, ReadFrame, AnalyseBox, EndFrame, CommitProgress, FrameDone
    <3>2. worker[w] \in Work
      BY <3>1, WorkerCases
    <3>3. worker'[w].msg = worker[w].msg
      <4>1. CASE OpenSource(w) \/ ReadFrame(w) \/ EndFrame(w)
        BY <3>2, <4>1 DEF OpenSource, ReadFrame, EndFrame, Step, TypeOK, Work
      <4>2. CASE AnalyseBox(w)
        BY <3>2, <4>2 DEF AnalyseBox, Step, TypeOK, Work
      <4>3. CASE CommitProgress(w)
        BY <2>4, <3>2, <4>3 DEF CommitProgress, Step, TypeOK, Work
      <4> QED
        BY <2>4, <4>1, <4>2, <4>3
    <3> QED
      BY <1>1, <2>4, <3>1, <3>3 DEF JobOf
  <2> QED
    BY <1>4, <2>1, <2>2, <2>3, <2>4 DEF Process, LoadMissingJob, CommitFails, RunFails
<1>5. ASSUME NEW m \in ready, NEW w \in Workers, Receive(w, m) PROVE Loaded(v)'
  <2>1. \/ worker'[v] = worker[v] /\ models'[v] = models[v]
        \/ worker'[v].pc = "loading"
    BY <1>5 DEF Receive, TypeOK
  <2> QED
    BY <1>2, <1>3, <2>1
<1>6. CASE WorkersCrash
  BY <1>3, <1>6 DEF WorkersCrash, Idle
<1>7. ASSUME \/ \E j \in Jobs : SubmitJob(j) \/ EnqueueJob(j) \/ EnqueueFails(j)
                               \/ DeleteJob(j) \/ AgeJob(j)
             \/ RestartApi \/ SelectStale \/ MarkStale
             \/ \E m \in unacked : Redeliver(m) \/ RedeliverHeld(m)
             \/ UNCHANGED vars
      PROVE  Loaded(v)'
  <2>1. UNCHANGED <<worker, models>>
    BY <1>7 DEF SubmitJob, EnqueueJob, EnqueueFails, DeleteJob, AgeJob, RestartApi,
       SelectStale, MarkStale, Redeliver, RedeliverHeld, workVars, vars
  <2> QED
    BY <1>2, <2>1
<1> QED
  BY <1>4, <1>5, <1>6, <1>7 DEF Next

LEMMA LoadedInit == ASSUME Init PROVE ModelsLoaded
BY DEF Init, ModelsLoaded, Idle

\* A box is covered once it is recorded, is a duplicate or is filtered.
LEMMA CoverBox ==
  ASSUME TypeOK, CoverInv, ModelsLoaded, NEW w \in Workers, AnalyseBox(w)
  PROVE  CoverInv'
<1> DEFINE r == worker[w]
           j == JobOf(w)
           p == <<r.frame, r.box>>
<1>1. r \in Work /\ Running(w) /\ Analysing(w)
  BY WorkerCases DEF AnalyseBox, Running, Analysing
<1>2. /\ r.frame \in Nat /\ r.box \in Nat /\ r.frame > 0
      /\ r.frame \in 0..Len(Video[j])
      /\ r.box \in 1..(Len(Boxes(w)) + 1)
      /\ CoversTo(j, r.seen, r.frame - 1)
      /\ \A b \in 1..(r.box - 1) : CoversBox(j, r.seen, <<r.frame, b>>)
      /\ SeenIsKept(w)
  BY <1>1 DEF CoverInv, LoopCovers, Work, AnalyseBox
<1>3. UNCHANGED <<row, detections, submit, ready, unacked>>
  BY DEF AnalyseBox, jobVars, apiVars, brokerVars
<1>4. \A v \in Workers : v # w => worker'[v] = worker[v]
  BY DEF AnalyseBox, Step, TypeOK
<1> DEFINE skipped == [r EXCEPT !.box = @ + 1]
           added == [r EXCEPT !.box = @ + 1,
                              !.seen = @ \union {Here(w)},
                              !.pending = @ \union {Here(w)},
                              !.count = @ + 1]
<1>10. /\ skipped.msg = r.msg /\ skipped.pc = r.pc /\ skipped.frame = r.frame
       /\ skipped.box = r.box + 1 /\ skipped.seen = r.seen
       /\ skipped.pending = r.pending
  BY <1>1 DEF Work
<1>11. /\ added.msg = r.msg /\ added.pc = r.pc /\ added.frame = r.frame
       /\ added.box = r.box + 1 /\ added.seen = r.seen \union {p}
       /\ added.pending = r.pending \union {p}
  BY <1>1 DEF Work, Here
<1>12. worker'[w] = IF Records(w) THEN added ELSE skipped
  BY DEF AnalyseBox, Step, TypeOK
<1> HIDE DEF skipped, added
<1>13. r.pc = "boxes"
  BY DEF AnalyseBox
<1>5. /\ worker'[w].msg = r.msg
      /\ worker'[w].pc = "boxes"
      /\ worker'[w].frame = r.frame
      /\ worker'[w].box = r.box + 1
  BY <1>10, <1>11, <1>12, <1>13
<1>6. Records(w) => /\ worker'[w].seen = r.seen \union {p}
                    /\ worker'[w].pending = r.pending \union {p}
  BY <1>11, <1>12
<1>7. ~Records(w) => /\ worker'[w].seen = r.seen
                     /\ worker'[w].pending = r.pending
  BY <1>10, <1>12
<1>8. \/ worker'[w].seen = r.seen /\ worker'[w].pending = r.pending
      \/ \E q : /\ worker'[w].seen = r.seen \union {q}
                /\ worker'[w].pending = r.pending \union {q}
  BY <1>6, <1>7
<1>9. SeenIsKept(w)'
  BY <1>2, <1>3, <1>5, <1>8, SeenKept
<1>14. j \in Jobs /\ r.frame \in 1..Len(Video[j])
       /\ Len(Boxes(w)) \in Nat /\ r.box \in 1..Len(Boxes(w))
  <2>1. j \in Jobs
    BY <1>1, JobOfType
  <2>2. Video[j] \in Seq(Seq(Box)) /\ Len(Video[j]) \in Nat
    BY <2>1, JobAssumption DEF JobAssumption
  <2>3. r.frame \in 1..Len(Video[j])
    BY <1>2, <2>2
  <2>4. Boxes(w) \in Seq(Box)
    BY <2>2, <2>3 DEF Boxes
  <2> QED
    BY <1>2, <2>1, <2>3, <2>4 DEF AnalyseBox
<1>15. CoversBox(j, worker'[w].seen, p)
  <2>1. CASE Records(w)
    <3>1. BoxAt(j, p) \in Box
      BY <1>14, JobAssumption, BoxAtType DEF Boxes
    <3>2. SameSpot(BoxAt(j, p), BoxAt(j, p))
      BY <3>1, JobAssumption, SameSpotReflexive
    <3> QED
      BY <1>6, <2>1, <3>2 DEF CoversBox
  <2>2. CASE ~Records(w)
    <3>1. Enabled[j] \cap Installed \subseteq models[w]
      BY <1>13 DEF ModelsLoaded
    <3> QED
      BY <1>7, <2>2, <3>1 DEF Records, Here, CoversBox, Considered, Looks
  <2> QED
    BY <2>1, <2>2
<1>16. r.seen \subseteq worker'[w].seen
  BY <1>6, <1>7
<1>17. \A b \in 1..r.box : CoversBox(j, worker'[w].seen, <<r.frame, b>>)
  <2>1. \A b \in 1..(r.box - 1) : CoversBox(j, worker'[w].seen, <<r.frame, b>>)
    BY <1>2, <1>16 DEF CoversBox
  <2>2. \A b \in 1..r.box : b \in 1..(r.box - 1) \/ b = r.box
    BY <1>2
  <2> QED
    BY <1>15, <2>1, <2>2
<1>18. CoversTo(j, worker'[w].seen, r.frame - 1)
  BY <1>2, <1>16, CoversMono
<1>19. r.box + 1 \in 1..(Len(Boxes(w)) + 1) /\ (r.box + 1) - 1 = r.box
  BY <1>2, <1>14
<1>20. LoopCovers(w)'
  BY <1>2, <1>5, <1>17, <1>18, <1>19 DEF LoopCovers, JobOf, Boxes
<1>21. \A v \in Workers :
         Running(v)' => Running(v) /\ worker'[v].msg = worker[v].msg
  BY <1>1, <1>4, <1>5 DEF Running
<1>22. \A m \in InFlight' :
         m.job \in Jobs /\ m.job \in {n.job : n \in InFlight}
  BY <1>3, <1>21, WorkerInFlight
<1> QED
  BY <1>3, <1>4, <1>9, <1>20, <1>22, CoverLocal

LEMMA AbortQuiet ==
  ASSUME TypeOK, NEW w \in Workers, Running(w), Abort(w)
  PROVE  /\ \A v \in Workers : v # w => worker'[v] = worker[v]
         /\ (~Analysing(w))'
<1>1. worker[w] \in Work
  BY WorkerCases DEF Running
<1>2. worker'[w].pc = "acking"
  BY <1>1 DEF Abort, Step, TypeOK, Work
<1> QED
  BY <1>2 DEF Abort, Step, TypeOK, Analysing

\* A failed run leaves nothing behind that could be mistaken for progress.
LEMMA CoverFailures ==
  ASSUME TypeOK, CoverInv, NEW w \in Workers,
         \/ LoadMissingJob(w) \/ CommitFails(w) \/ RunFails(w)
         \/ Ack(w) \/ ChildKilled(w)
  PROVE  CoverInv'
<1>1. Running(w)
  BY DEF LoadMissingJob, CommitFails, FrameDone, RunFails, Ack, ChildKilled,
     Running
<1>2. UNCHANGED <<row, detections, submit>>
  BY DEF LoadMissingJob, CommitFails, RunFails, Ack, ChildKilled, jobVars,
     apiVars
<1>3. CASE Abort(w)
  BY <1>1, <1>2, <1>3, AbortQuiet, AbortInFlight, CoverLocal
<1>4. CASE Ack(w) \/ ChildKilled(w)
  <2>1. worker' = [worker EXCEPT ![w] = Idle]
    BY <1>4 DEF Ack, ChildKilled, Step
  <2>2. \A v \in Workers : v # w => worker'[v] = worker[v]
    BY <2>1 DEF TypeOK
  <2>3. (~Analysing(w))' /\ (~Running(w))'
    BY <2>1 DEF TypeOK, Analysing, Running, Idle
  <2>4. ready' = ready /\ unacked' \subseteq unacked
    BY <1>4 DEF Ack, ChildKilled
  <2>5. \A v \in Workers :
          Running(v)' => Running(v) /\ worker'[v].msg = worker[v].msg
    BY <2>2, <2>3 DEF Running
  <2> QED
    BY <1>2, <2>2, <2>3, <2>4, <2>5, WorkerInFlight, CoverLocal
<1> QED
  BY <1>3, <1>4 DEF LoadMissingJob, CommitFails, RunFails

\* The commits.  Only the last one may make the job done, and then the run
\* has been through every frame.
LEMMA CoverCommits ==
  ASSUME TypeOK, CoverInv, NEW w \in Workers,
         \/ OpenSource(w) \/ OpenFails(w) \/ CommitProgress(w) \/ CommitDone(w)
  PROVE  CoverInv'
<1>1. worker[w].pc \in {"opening", "boxes", "unlinked"}
  BY DEF OpenSource, OpenFails, CommitProgress, CommitDone, FrameDone
<1>2. worker[w] \in Work /\ Running(w) /\ Analysing(w)
  BY <1>1, WorkerCases DEF Running, Analysing
<1>3. LoopCovers(w) /\ SeenIsKept(w)
  BY <1>2 DEF CoverInv
<1>4. /\ Opened(w) \in Row /\ Unopened(w) \in Row
      /\ Progress(w) \in Row /\ Finished(w) \in Row
  BY <1>2, JobAssumption, NewRowTypes
<1>5. worker[w].snap \in Row
  BY <1>2 DEF Work
<1>6. UNCHANGED submit
  BY DEF OpenSource, OpenFails, CommitProgress, CommitDone, apiVars
<1>7. ASSUME \A v \in Workers : v # w => worker'[v] = worker[v],
             worker'[w].msg = worker[w].msg, UNCHANGED <<ready, unacked>>
      PROVE  \A m \in InFlight' :
               m.job \in Jobs /\ m.job \in {n.job : n \in InFlight}
  <2>1. \A v \in Workers :
          Running(v)' => Running(v) /\ worker'[v].msg = worker[v].msg
    BY <1>2, <1>7 DEF Running
  <2> QED
    BY <1>7, <2>1, WorkerInFlight
<1>8. CASE OpenSource(w)
  <2> DEFINE r == [worker[w] EXCEPT !.pc = "reading", !.snap = Opened(w)]
  <2>1. worker' = [worker EXCEPT ![w] = r]
    BY <1>8 DEF OpenSource, Step
  <2>2. /\ r.msg = worker[w].msg /\ r.seen = worker[w].seen
        /\ r.frame = worker[w].frame /\ r.pc = "reading"
    BY <1>2 DEF Work
  <2>3. /\ \A v \in Workers : v # w => worker'[v] = worker[v]
        /\ worker'[w] = r
    BY <2>1 DEF TypeOK
  <2>4. LoopCovers(w)'
    BY <1>3, <1>8, <2>2, <2>3 DEF LoopCovers, JobOf, OpenSource
  <2>5. SeenIsKept(w)'
    BY <1>2, <1>3, <1>4, <1>8, <2>2, <2>3, SeenCommitted DEF OpenSource
  <2>6. Opened(w).status # "done"
    BY <1>5 DEF Opened, Row
  <2> QED
    BY <1>2, <1>4, <1>6, <1>7, <1>8, <2>2, <2>3, <2>4, <2>5, <2>6, CoverCommit
    DEF OpenSource, brokerVars
<1>9. CASE OpenFails(w)
  <2> DEFINE r == [worker[w] EXCEPT !.pc = "closing", !.snap = NoRow, !.run = 0]
  <2>1. worker' = [worker EXCEPT ![w] = r]
    BY <1>9 DEF OpenFails, Step
  <2>2. /\ r.msg = worker[w].msg /\ r.seen = worker[w].seen
        /\ r.frame = worker[w].frame /\ r.pc = "closing"
    BY <1>2 DEF Work
  <2>3. /\ \A v \in Workers : v # w => worker'[v] = worker[v]
        /\ worker'[w] = r
    BY <2>1 DEF TypeOK
  <2>4. LoopCovers(w)'
    BY <1>3, <1>9, <2>2, <2>3 DEF LoopCovers, JobOf, OpenFails
  <2>5. SeenIsKept(w)'
    BY <1>2, <1>3, <1>4, <1>9, <2>2, <2>3, SeenCommitted DEF OpenFails
  <2>6. Unopened(w).status # "done"
    BY <1>5 DEF Unopened, Row
  <2> QED
    BY <1>2, <1>4, <1>6, <1>7, <1>9, <2>2, <2>3, <2>4, <2>5, <2>6, CoverCommit
    DEF OpenFails, brokerVars
<1>10. CASE CommitProgress(w)
  <2>1. Progress(w).status = worker[w].snap.status
    BY <1>5 DEF Progress, Row
  <2>2. CASE Abort(w)
    BY <1>2, <1>4, <1>6, <1>10, <2>1, <2>2, AbortQuiet, AbortInFlight, CoverCommit
    DEF CommitProgress
  <2>3. CASE ~Abort(w)
    <3> DEFINE r == [worker[w] EXCEPT !.pc = "reading", !.box = 0,
                                      !.pending = {}, !.snap = Progress(w)]
    <3>1. worker' = [worker EXCEPT ![w] = r] /\ UNCHANGED brokerVars
      BY <1>10, <2>3 DEF CommitProgress, Step
    <3>2. /\ r.msg = worker[w].msg /\ r.seen = worker[w].seen
          /\ r.frame = worker[w].frame /\ r.pc = "reading"
      BY <1>2 DEF Work
    <3>3. /\ \A v \in Workers : v # w => worker'[v] = worker[v]
          /\ worker'[w] = r
      BY <3>1 DEF TypeOK
    <3> HIDE DEF r
    <3>4. CoversTo(JobOf(w), worker[w].seen, worker[w].frame)
          /\ worker[w].frame \in 0..Len(Video[JobOf(w)])
      BY <1>2, <1>3, <1>10, FrameCovered DEF CommitProgress
    <3>5. LoopCovers(w)'
      BY <3>2, <3>3, <3>4 DEF LoopCovers, JobOf
    <3>6. SeenIsKept(w)'
      BY <1>2, <1>3, <1>4, <1>10, <3>2, <3>3, SeenCommitted DEF CommitProgress
    <3>7. \A m \in InFlight' :
            m.job \in Jobs /\ m.job \in {n.job : n \in InFlight}
      BY <1>7, <3>1, <3>2, <3>3 DEF brokerVars
    <3> QED
      BY <1>2, <1>4, <1>6, <1>10, <2>1, <3>3, <3>5, <3>6, <3>7, CoverCommit
      DEF CommitProgress
  <2> QED
    BY <2>2, <2>3
<1>11. CASE CommitDone(w)
  <2> DEFINE r == [worker[w] EXCEPT !.pc = "closing", !.seen = {},
                     !.pending = {}, !.count = 0, !.frame = 0, !.box = 0,
                     !.run = 0, !.snap = NoRow]
  <2>1. worker' = [worker EXCEPT ![w] = r]
    BY <1>11 DEF CommitDone, Step
  <2>2. r.msg = worker[w].msg /\ r.pc = "closing" /\ r.frame = 0 /\ r.seen = {}
    BY <1>2 DEF Work
  <2>3. /\ \A v \in Workers : v # w => worker'[v] = worker[v]
        /\ worker'[w] = r
    BY <2>1 DEF TypeOK
  <2>9. Len(Video[worker[w].msg.job]) \in Nat
    BY <1>2, JobOfType, JobAssumption DEF JobAssumption, JobOf
  <2>4. LoopCovers(w)' /\ SeenIsKept(w)'
    BY <2>2, <2>3, <2>9 DEF LoopCovers, SeenIsKept, JobOf, CoversTo
  <2>5. Covers(JobOf(w), worker[w].seen)
    BY <1>3, <1>11 DEF CommitDone, LoopCovers, Covers
  <2>6. worker[w].seen \subseteq Committed(JobOf(w)) \union worker[w].pending
    BY <1>3, <1>11 DEF CommitDone, SeenIsKept
  <2>7. Covers(JobOf(w), Committed(JobOf(w)) \union worker[w].pending)
    BY <2>5, <2>6, CoversMono DEF Covers
  <2> QED
    BY <1>2, <1>4, <1>6, <1>7, <1>11, <2>2, <2>3, <2>4, <2>7, CoverCommit
    DEF CommitDone, brokerVars
<1> QED
  BY <1>8, <1>9, <1>10, <1>11

LEMMA CoverInit == ASSUME Init PROVE CoverInv
BY DEF Init, CoverInv, EnqueuedOnly, InFlight, Running, Idle, Analysing,
   DoneCovers, NoRow

LEMMA CoverNext ==
  ASSUME TypeOK, CoverInv, ModelsLoaded, [Next]_vars
  PROVE  CoverInv'
<1>1. CASE Next
  <2>1. CASE \E j \in Jobs : SubmitJob(j) \/ EnqueueJob(j) \/ EnqueueFails(j)
                             \/ DeleteJob(j) \/ AgeJob(j)
    BY <2>1, CoverApi
  <2>2. CASE RestartApi \/ SelectStale \/ MarkStale
    BY <2>2, CoverBoot
  <2>3. CASE \E w \in Workers : Process(w) \/ RunFails(w) \/ ChildKilled(w)
    BY <2>3, CoverFrames, CoverBox, CoverCommits, CoverFailures DEF Process
  <2> QED
    BY <1>1, <2>1, <2>2, <2>3, CoverBroker DEF Next
<1>2. CASE UNCHANGED vars
  BY <1>2 DEF vars, jobVars, apiVars, brokerVars, workVars, CoverInv,
     EnqueuedOnly, InFlight, Running, Analysing, DoneCovers, Covers, LoopCovers,
     SeenIsKept, JobOf, Boxes, Exists, Committed
<1> QED
  BY <1>1, <1>2

LEMMA CoverAlways == Spec => [](CoverInv /\ ModelsLoaded)
<1>1. Init => CoverInv /\ ModelsLoaded
  BY CoverInit, LoadedInit
<1>2. TypeOK /\ CoverInv /\ ModelsLoaded /\ [Next]_vars => (CoverInv /\ ModelsLoaded)'
  BY CoverNext, LoadedNext
<1> QED
  BY <1>1, <1>2, TypeCorrect, PTL DEF Spec

\* A job that says done has, for every box its analysis considered, a row in
\* the detections table within the deduplication distance: whatever crashed,
\* was retried, was redelivered or ran twice on the way.
THEOREM DoneJobsAreCovered == Spec => []DoneCovers
<1>1. CoverInv => DoneCovers
  BY DEF CoverInv
<1> QED
  BY <1>1, CoverAlways, PTL

(***************************************************************************)
(* One run per job while nothing is redelivered behind a worker's back.    *)
(***************************************************************************)
LEMMA SpendLess ==
  ASSUME TypeOK, NEW f \in Faults, Spend(f)
  PROVE  /\ \A g \in Faults : budget'[g] <= budget[g]
         /\ budget'[f] < budget[f]
BY DEF Spend, TypeOK

LEMMA BudgetStep ==
  ASSUME TypeOK, [Next]_vars
  PROVE  \A g \in Faults : budget'[g] <= budget[g]
<1>1. \A g \in Faults : budget[g] <= budget[g]
  BY DEF TypeOK
<1>2. CASE UNCHANGED budget
  BY <1>1, <1>2
<1>3. CASE \E f \in Faults : Spend(f)
  BY <1>3, SpendLess
<1>4. CASE \E j \in Jobs : SubmitJob(j) \/ EnqueueJob(j) \/ EnqueueFails(j)
                           \/ DeleteJob(j) \/ AgeJob(j)
  BY <1>2, <1>3, <1>4 DEF SubmitJob, EnqueueJob, EnqueueFails, DeleteJob, AgeJob,
     Faults
<1>5. CASE RestartApi \/ SelectStale \/ MarkStale \/ WorkersCrash
  BY <1>2, <1>3, <1>5 DEF RestartApi, SelectStale, MarkStale, WorkersCrash, Faults
<1>6. CASE \/ \E m \in ready : \E w \in Workers : Receive(w, m)
           \/ \E m \in unacked : Redeliver(m) \/ RedeliverHeld(m)
  BY <1>2, <1>3, <1>6 DEF Receive, Redeliver, RedeliverHeld, Faults
<1>7. CASE \E w \in Workers : RunFails(w) \/ ChildKilled(w)
  BY <1>2, <1>3, <1>7 DEF RunFails, ChildKilled, Faults
<1>8. ASSUME NEW w \in Workers, Process(w) PROVE UNCHANGED budget
  BY <1>8 DEF Process, LoadJob, LoadMissingJob, OpenSource, OpenFails, ReadFrame,
     AnalyseBox, EndFrame, CommitProgress, EndOfVideo, CommitDone, CommitFails, Ack
<1>9. CASE UNCHANGED vars
  BY <1>2, <1>9 DEF vars
<1> QED
  BY <1>2, <1>4, <1>5, <1>6, <1>7, <1>8, <1>9 DEF Next

LEMMA UndisturbedBefore ==
  ASSUME TypeOK, JobAssumption, \A f \in Faults : budget[f] <= Budget[f],
         \A g \in Faults : budget'[g] <= budget[g], budget' \in [Faults -> Nat]
  PROVE  /\ \A f \in Faults : budget'[f] <= Budget[f]
         /\ Undisturbed' =>
              /\ Undisturbed
              /\ budget'["crash"] = budget["crash"]
              /\ budget'["timeout"] = budget["timeout"]
<1>1. \A f \in Faults : budget[f] \in Nat /\ budget'[f] \in Nat /\ Budget[f] \in Nat
  BY DEF TypeOK, JobAssumption
<1>2. "crash" \in Faults /\ "timeout" \in Faults
  BY DEF Faults
<1>3. ASSUME NEW f \in Faults
      PROVE  /\ budget'[f] <= Budget[f]
             /\ budget'[f] = Budget[f] => budget[f] = Budget[f]
  <2>1. budget'[f] <= budget[f] /\ budget[f] <= Budget[f]
    BY <1>3
  <2> QED
    BY <1>1, <1>3, <2>1
<1> QED
  BY <1>2, <1>3 DEF Undisturbed

LEMMA HeldInFlight ==
  ASSUME NEW w \in Workers, Running(w)
  PROVE  worker[w].msg \in InFlight
BY DEF InFlight

\* What a step of a busy worker does to its message: it keeps it, it retires
\* it, or it fails (Abort).
WorkerMoves(w) ==
  /\ UNCHANGED <<ready, unacked, sent>>
  /\ \A v \in Workers : v # w => worker'[v] = worker[v]
  /\ Running(w)' /\ worker'[w].msg = worker[w].msg
  /\ Analysing(w)' => Analysing(w)

WorkerStops(w) ==
  /\ UNCHANGED <<ready, sent>>
  /\ unacked' = unacked \ {worker[w].msg}
  /\ \A v \in Workers : v # w => worker'[v] = worker[v]
  /\ (~Running(w))'

LEMMA WorkerSteps ==
  ASSUME TypeOK, NEW w \in Workers, Process(w) \/ RunFails(w) \/ ChildKilled(w)
  PROVE  Abort(w) \/ WorkerMoves(w) \/ WorkerStops(w)
<1>1. CASE LoadMissingJob(w) \/ CommitFails(w) \/ RunFails(w)
  BY <1>1 DEF LoadMissingJob, CommitFails, RunFails
<1>2. CASE Ack(w) \/ ChildKilled(w)
  BY <1>2 DEF Ack, ChildKilled, Step, TypeOK, WorkerStops, Running, Idle
<1>3. ASSUME \A v \in Workers : v # w => worker'[v] = worker[v],
             worker'[w].pc \in Busy, worker'[w].msg = worker[w].msg,
             Analysing(w), UNCHANGED <<ready, unacked, sent>>
      PROVE  WorkerMoves(w)
  BY <1>3 DEF WorkerMoves, Running, Busy
<1>4. worker[w] \in Work \/ Ack(w) \/ ChildKilled(w) \/ RunFails(w)
  BY WorkerCases DEF Process, LoadJob, LoadMissingJob, OpenSource, OpenFails,
     ReadFrame, AnalyseBox, EndFrame, CommitProgress, EndOfVideo, CommitDone,
     CommitFails, FrameDone
<1>5. CASE LoadJob(w)
  BY <1>3, <1>4, <1>5 DEF LoadJob, Step, brokerVars, TypeOK, Work, Busy,
     Analysing, Running
<1>6. CASE OpenSource(w)
  BY <1>3, <1>4, <1>6 DEF OpenSource, Step, brokerVars, TypeOK, Work, Busy,
     Analysing, Running
<1>7. CASE OpenFails(w)
  BY <1>3, <1>4, <1>7 DEF OpenFails, Step, brokerVars, TypeOK, Work, Busy,
     Analysing, Running
<1>8. CASE ReadFrame(w)
  BY <1>3, <1>4, <1>8 DEF ReadFrame, Step, brokerVars, TypeOK, Work, Busy,
     Analysing, Running
<1>9. CASE AnalyseBox(w)
  BY <1>3, <1>4, <1>9 DEF AnalyseBox, Step, brokerVars, TypeOK, Work, Busy,
     Analysing, Running
<1>10. CASE EndFrame(w)
  BY <1>3, <1>4, <1>10 DEF EndFrame, FrameDone, Step, brokerVars, TypeOK, Work, Busy,
     Analysing, Running
<1>11. CASE CommitProgress(w) /\ ~Abort(w)
  <2> DEFINE r == [worker[w] EXCEPT !.pc = "reading", !.box = 0,
                                    !.pending = {}, !.snap = Progress(w)]
  <2>1. worker' = [worker EXCEPT ![w] = r] /\ UNCHANGED brokerVars
    BY <1>11 DEF CommitProgress, Step
  <2>2. worker[w] \in Work /\ Analysing(w)
    BY <1>4, <1>11, WorkerCases DEF CommitProgress, FrameDone, Analysing, Running
  <2>3. r.pc = "reading" /\ r.msg = worker[w].msg
    BY <2>2 DEF Work
  <2> HIDE DEF r
  <2> QED
    BY <1>3, <2>1, <2>2, <2>3 DEF TypeOK, Busy, brokerVars
<1>12. CASE EndOfVideo(w)
  BY <1>3, <1>4, <1>12 DEF EndOfVideo, Step, brokerVars, TypeOK, Work, Busy,
     Analysing, Running
<1>13. CASE CommitDone(w)
  BY <1>3, <1>4, <1>13 DEF CommitDone, Step, brokerVars, TypeOK, Work, Busy,
     Analysing, Running
<1> QED
  BY <1>1, <1>2, <1>5, <1>6, <1>7, <1>8, <1>9, <1>10, <1>11, <1>12, <1>13
  DEF Process

\* Message tags are never reused.
Tagged == \A m \in InFlight : m.tag <= sent

LEMMA TaggedStep ==
  ASSUME TypeOK, Tagged, [Next]_vars
  PROVE  Tagged'
<1> USE DEF Tagged
<1>1. sent \in Nat /\ sent + 1 > sent /\ \A m \in InFlight : m.tag \in Nat
  BY InFlightType DEF TypeOK, Message
<1>2. ASSUME InFlight' \subseteq InFlight, UNCHANGED sent PROVE Tagged'
  BY <1>2
<1>3. ASSUME NEW j \in Jobs, EnqueueJob(j) PROVE Tagged'
  <2>1. \A m \in InFlight' : m \in InFlight \/ m.tag = sent'
    BY <1>3 DEF EnqueueJob, InFlight, workVars, Running
  <2> QED
    BY <1>1, <1>3, <2>1 DEF EnqueueJob
<1>4. ASSUME NEW w \in Workers, Running(w), Abort(w) PROVE Tagged'
  <2>1. \A v \in Workers : Running(v)' => Running(v) /\ worker'[v].msg = worker[v].msg
    BY <1>4 DEF Abort, Step, TypeOK, Running
  <2>2. \A m \in InFlight' :
          m \in InFlight \/ (m.tag = sent + 1 /\ sent' = sent + 1)
    BY <1>4, <2>1 DEF Abort, InFlight
  <2>3. sent' \in Nat /\ sent' >= sent
    BY <1>1, <1>4 DEF Abort
  <2>4. ASSUME NEW m \in InFlight' PROVE m.tag <= sent'
    <3>1. CASE m \in InFlight
      <4>1. m.tag <= sent /\ m.tag \in Nat
        BY <1>1, <3>1
      <4> QED
        BY <1>1, <2>3, <4>1
    <3> QED
      BY <1>1, <2>2, <2>4, <3>1
  <2> QED
    BY <2>4
<1>5. ASSUME UNCHANGED <<worker, ready, unacked, sent>> PROVE Tagged'
  BY <1>5 DEF InFlight, Running
<1>6. ASSUME NEW j \in Jobs,
             SubmitJob(j) \/ EnqueueFails(j) \/ DeleteJob(j) \/ AgeJob(j)
      PROVE  Tagged'
  BY <1>5, <1>6 DEF SubmitJob, EnqueueFails, DeleteJob, AgeJob, brokerVars, workVars
<1>7. CASE RestartApi \/ SelectStale \/ MarkStale \/ UNCHANGED vars
  BY <1>5, <1>7 DEF RestartApi, SelectStale, MarkStale, brokerVars, workVars, vars
<1>8. ASSUME NEW m \in ready, NEW w \in Workers, Receive(w, m) PROVE Tagged'
  <2>1. InFlight' \subseteq InFlight
    BY <1>8 DEF Receive, InFlight, Running, TypeOK
  <2> QED
    BY <1>2, <1>8, <2>1 DEF Receive
<1>9. ASSUME NEW m \in unacked, Redeliver(m) \/ RedeliverHeld(m) PROVE Tagged'
  <2>1. InFlight' \subseteq InFlight
    BY <1>9 DEF Redeliver, RedeliverHeld, InFlight, Running, workVars
  <2> QED
    BY <1>2, <1>9, <2>1 DEF Redeliver, RedeliverHeld
<1>10. CASE WorkersCrash
  <2>1. InFlight' \subseteq InFlight
    BY <1>10 DEF WorkersCrash, InFlight, Running, Idle, brokerVars
  <2> QED
    BY <1>2, <1>10, <2>1 DEF WorkersCrash, brokerVars
<1>11. ASSUME NEW w \in Workers, Process(w) \/ RunFails(w) \/ ChildKilled(w)
       PROVE  Tagged'
  <2>1. Running(w)
    BY <1>11 DEF Process, RunFails, ChildKilled, LoadJob, LoadMissingJob,
       OpenSource, OpenFails, ReadFrame, AnalyseBox, EndFrame, CommitProgress,
       EndOfVideo, CommitDone, CommitFails, Ack, FrameDone, Running
  <2>2. Abort(w) \/ WorkerMoves(w) \/ WorkerStops(w)
    BY <1>11, WorkerSteps
  <2>3. CASE WorkerMoves(w) \/ WorkerStops(w)
    <3>1. InFlight' \subseteq InFlight
      BY <2>1, <2>3 DEF WorkerMoves, WorkerStops, InFlight, Running
    <3> QED
      BY <1>2, <2>3, <3>1 DEF WorkerMoves, WorkerStops
  <2> QED
    BY <1>4, <2>1, <2>2, <2>3
<1> QED
  BY <1>3, <1>6, <1>7, <1>8, <1>9, <1>10, <1>11 DEF Next

\* Only a run that is not over can fail.
LEMMA AbortAnalysing ==
  ASSUME TypeOK, NEW w \in Workers, Process(w) \/ RunFails(w) \/ ChildKilled(w),
         Abort(w), ~WorkerMoves(w), ~WorkerStops(w)
  PROVE  Analysing(w)
<1>1. CASE LoadMissingJob(w) \/ CommitFails(w) \/ RunFails(w) \/ CommitProgress(w)
  BY <1>1 DEF LoadMissingJob, CommitFails, RunFails, CommitProgress, FrameDone,
     Analysing, Running
<1>2. CASE Ack(w) \/ ChildKilled(w)
  BY <1>2 DEF Ack, ChildKilled, Step, TypeOK, WorkerStops, Running, Idle
<1>3. CASE LoadJob(w) \/ OpenSource(w) \/ OpenFails(w) \/ ReadFrame(w)
           \/ AnalyseBox(w) \/ EndFrame(w) \/ EndOfVideo(w) \/ CommitDone(w)
  BY <1>3 DEF LoadJob, OpenSource, OpenFails, ReadFrame, AnalyseBox, EndFrame,
     FrameDone, EndOfVideo, CommitDone, Analysing, Running
<1> QED
  BY <1>1, <1>2, <1>3 DEF Process

LEMMA DeliveryInit == ASSUME JobAssumption, Init PROVE DeliveryInv
<1>1. \A f \in Faults : budget[f] <= Budget[f]
  BY DEF Init, JobAssumption
<1>2. InFlight = {} /\ OneDelivery
  BY DEF Init, InFlight, OneDelivery, Running, Idle
<1> QED
  BY <1>1, <1>2 DEF DeliveryInv

\* A step that leaves the queue and the workers' messages alone.
LEMMA DeliveryMoves ==
  ASSUME OneDelivery, UNCHANGED <<ready, unacked>>,
         \A v \in Workers :
           /\ Running(v)' <=> Running(v)
           /\ Running(v) => worker'[v].msg = worker[v].msg
           /\ Analysing(v)' => Analysing(v)
  PROVE  OneDelivery'
<1>1. InFlight' \subseteq InFlight
  BY DEF InFlight
<1>2. \A m : Live(m)' => Live(m)
  BY DEF Live, Analysing
<1>3. (\A m \in unacked : Held(m))'
  BY DEF OneDelivery, Held
<1>4. (\A m, n \in InFlight : Live(m) /\ Live(n) /\ m.job = n.job => m = n)'
  BY <1>1, <1>2 DEF OneDelivery
<1> QED
  BY <1>3, <1>4 DEF OneDelivery

LEMMA DeliveryEnqueue ==
  ASSUME TypeOK, EnqueuedOnly, Tagged, OneDelivery, NEW j \in Jobs, EnqueueJob(j)
  PROVE  OneDelivery'
<1> DEFINE n == [tag |-> sent + 1, job |-> j, retries |-> 0]
<1>1. /\ ready' = ready \union {n} /\ UNCHANGED <<unacked, worker>>
      /\ submit[j] = "committed"
  BY DEF EnqueueJob, workVars
<1>2. InFlight' = InFlight \union {n}
  BY <1>1 DEF InFlight, Running
<1>3. n.job = j /\ \A m \in InFlight : m.job # j
  BY <1>1 DEF EnqueuedOnly
<1> HIDE DEF n
<1>4. n \notin InFlight
  BY <1>3
<1>5. \A m : Live(m)' => Live(m) \/ m = n
  BY <1>1 DEF Live, Analysing, Running
<1>6. n \notin unacked
  BY <1>4 DEF InFlight
<1>7. (\A l, m \in InFlight : Live(l) /\ Live(m) /\ l.job = m.job => l = m)'
  BY <1>2, <1>3, <1>5 DEF OneDelivery
<1> QED
  BY <1>1, <1>6, <1>7 DEF OneDelivery, Held, Running

LEMMA DeliveryReceive ==
  ASSUME TypeOK, OneDelivery, NEW m \in ready, NEW w \in Workers, Receive(w, m)
  PROVE  OneDelivery'
<1>1. /\ ready' = ready \ {m} /\ unacked' = unacked \union {m} /\ ~Running(w)
      /\ \A v \in Workers : v # w => worker'[v] = worker[v]
      /\ worker'[w].pc = "loading" /\ worker'[w].msg = m
  BY DEF Receive, TypeOK
<1>2. Running(w)' /\ \A v \in Workers : v # w => (Running(v)' <=> Running(v))
  BY <1>1 DEF Running
<1>3. InFlight' \subseteq InFlight
  BY <1>1, <1>2 DEF InFlight
<1>4. \A n : Live(n)' => Live(n)
  BY <1>1, <1>2 DEF Live, Analysing
<1>5. (\A n \in unacked : Held(n))'
  <2> SUFFICES ASSUME NEW n \in unacked' PROVE Held(n)'
    OBVIOUS
  <2>1. CASE n = m
    BY <1>1, <1>2, <2>1 DEF Held
  <2>2. CASE n \in unacked
    BY <1>1, <1>2, <2>2 DEF Held, OneDelivery
  <2> QED
    BY <1>1, <2>1, <2>2
<1>6. (\A l, n \in InFlight : Live(l) /\ Live(n) /\ l.job = n.job => l = n)'
  BY <1>3, <1>4 DEF OneDelivery
<1>7. \A v \in Workers : Running(v) => worker[v].msg \in unacked /\ worker[v].msg # m
  BY DEF OneDelivery
<1> QED
  BY <1>1, <1>2, <1>5, <1>6, <1>7 DEF OneDelivery

LEMMA DeliveryStops ==
  ASSUME OneDelivery, NEW w \in Workers, Running(w), WorkerStops(w)
  PROVE  OneDelivery'
<1>1. \A v \in Workers :
        /\ Running(v)' => v # w /\ Running(v) /\ worker'[v] = worker[v]
        /\ v # w /\ Running(v) => Running(v)'
  BY DEF WorkerStops, Running
<1>2. InFlight' \subseteq InFlight
  BY <1>1 DEF InFlight, WorkerStops
<1>3. \A m : Live(m)' => Live(m)
  BY <1>1 DEF Live, Analysing, WorkerStops
<1>4. (\A m, n \in InFlight : Live(m) /\ Live(n) /\ m.job = n.job => m = n)'
  BY <1>2, <1>3 DEF OneDelivery
<1>5. \A v \in Workers : v # w /\ Running(v) => worker[v].msg # worker[w].msg
  BY DEF OneDelivery
<1> QED
  BY <1>1, <1>4, <1>5 DEF OneDelivery, Held, WorkerStops

\* The retry is published before the failed message is acknowledged; the
\* failed run is over, so only the copy is live.
LEMMA DeliveryAbort ==
  ASSUME TypeOK, Tagged, OneDelivery, NEW w \in Workers, Analysing(w), Abort(w)
  PROVE  OneDelivery'
<1> DEFINE old == worker[w].msg
           n == [tag |-> sent + 1, job |-> old.job, retries |-> old.retries + 1]
<1>1. /\ \A v \in Workers : v # w => worker'[v] = worker[v]
      /\ (~Analysing(w))' /\ Running(w)
  BY AbortQuiet DEF Analysing
<1>2. Running(w)' /\ worker'[w].msg = old
  <2>1. worker[w] \in Work
    BY <1>1, WorkerCases DEF Running
  <2> QED
    BY <2>1 DEF Abort, Step, TypeOK, Work, Running
<1>3. \A v \in Workers : (Running(v)' <=> Running(v))
                         /\ worker'[v].msg = worker[v].msg
                         /\ (Analysing(v)' => Analysing(v) /\ v # w)
  BY <1>1, <1>2 DEF Running, Analysing
<1>4. CASE ready' = ready
  BY <1>3, <1>4, DeliveryMoves DEF Abort
<1>5. CASE ready' = ready \union {n}
  <2>1. UNCHANGED unacked
    BY DEF Abort
  <2>2. n.job = old.job /\ n.tag = sent + 1
    OBVIOUS
  <2>3. n \notin InFlight
    <3>1. sent \in Nat
      BY DEF TypeOK
    <3> QED
      BY <2>2, <3>1 DEF Tagged
  <2> HIDE DEF n
  <2>4. InFlight' = InFlight \union {n}
    BY <1>3, <1>5, <2>1 DEF InFlight
  <2>5. old \in InFlight /\ Live(old) /\ old \notin ready
    BY <1>1 DEF InFlight, Live, OneDelivery
  <2>6. /\ old \notin ready'
        /\ \A v \in Workers : Analysing(v)' => worker'[v].msg # old
    <3>1. \A v \in Workers : Running(v) /\ v # w => worker[v].msg # old
      BY <1>1 DEF OneDelivery
    <3>2. \A v \in Workers : Analysing(v)' => worker'[v].msg # old
      BY <1>3, <3>1 DEF Analysing
    <3> QED
      BY <1>5, <2>3, <2>5, <3>2
  <2>7. \A m \in InFlight : Live(m)' => Live(m) /\ m # old
    <3>1. \A m \in InFlight : m \in ready' => m \in ready
      BY <1>5, <2>3
    <3>2. \A m : (\E v \in Workers : Analysing(v) /\ worker[v].msg = m)'
                 => \E v \in Workers : Analysing(v) /\ worker[v].msg = m
      BY <1>3
    <3> QED
      BY <2>6, <3>1, <3>2, <1>3 DEF Live
  <2>8. (\A l, m \in InFlight : Live(l) /\ Live(m) /\ l.job = m.job => l = m)'
    BY <2>2, <2>4, <2>5, <2>7 DEF OneDelivery
  <2>9. n \notin unacked
    BY <2>3 DEF InFlight
  <2>10. (\A m \in unacked : Held(m))'
    BY <1>3, <2>1 DEF OneDelivery, Held
  <2> QED
    BY <1>3, <1>5, <2>1, <2>8, <2>9, <2>10 DEF OneDelivery
<1> QED
  BY <1>4, <1>5 DEF Abort

LEMMA DeliveryNext ==
  ASSUME TypeOK, TypeOK', JobAssumption, EnqueuedOnly, DeliveryInv, [Next]_vars
  PROVE  DeliveryInv'
<1>1. Tagged'
  BY TaggedStep DEF DeliveryInv, Tagged
<1>2. /\ \A f \in Faults : budget'[f] <= Budget[f]
      /\ Undisturbed' => /\ Undisturbed
                         /\ budget'["crash"] = budget["crash"]
                         /\ budget'["timeout"] = budget["timeout"]
  BY BudgetStep, UndisturbedBefore DEF DeliveryInv, TypeOK
<1>3. ASSUME Undisturbed' PROVE OneDelivery'
  <2>1. OneDelivery /\ Tagged
    BY <1>2, <1>3 DEF DeliveryInv, Tagged
  <2>2. ~Spend("crash") /\ ~Spend("timeout")
    <3>1. "crash" \in Faults /\ "timeout" \in Faults
      BY DEF Faults
    <3>2. budget["crash"] \in Nat /\ budget["timeout"] \in Nat
      BY <3>1 DEF TypeOK
    <3>3. Spend("crash") => budget'["crash"] < budget["crash"]
      BY <3>1, SpendLess
    <3>4. Spend("timeout") => budget'["timeout"] < budget["timeout"]
      BY <3>1, SpendLess
    <3> QED
      BY <1>2, <1>3, <3>2, <3>3, <3>4
  <2>3. CASE UNCHANGED <<worker, ready, unacked>>
    BY <2>1, <2>3, DeliveryMoves DEF Running, Analysing
  <2>4. ASSUME NEW j \in Jobs, SubmitJob(j) \/ EnqueueJob(j) \/ EnqueueFails(j)
                               \/ DeleteJob(j) \/ AgeJob(j)
        PROVE  OneDelivery'
    BY <2>1, <2>3, <2>4, DeliveryEnqueue DEF SubmitJob, EnqueueFails, DeleteJob,
       AgeJob, brokerVars, workVars
  <2>5. CASE RestartApi \/ SelectStale \/ MarkStale \/ UNCHANGED vars
    BY <2>3, <2>5 DEF RestartApi, SelectStale, MarkStale, brokerVars, workVars, vars
  <2>6. ASSUME NEW m \in ready, NEW w \in Workers, Receive(w, m) PROVE OneDelivery'
    BY <2>1, <2>6, DeliveryReceive
  <2>7. ASSUME NEW m \in unacked PROVE ~Redeliver(m) /\ ~RedeliverHeld(m)
    BY <2>1, <2>2, <2>7 DEF OneDelivery, Redeliver, RedeliverHeld
  <2>8. ~WorkersCrash
    BY <2>2 DEF WorkersCrash
  <2>9. ASSUME NEW w \in Workers, Process(w) \/ RunFails(w) \/ ChildKilled(w)
        PROVE  OneDelivery'
    <3>1. Running(w)
      BY <2>9 DEF Process, RunFails, ChildKilled, LoadJob, LoadMissingJob,
         OpenSource, OpenFails, ReadFrame, AnalyseBox, EndFrame, CommitProgress,
         EndOfVideo, CommitDone, CommitFails, Ack, FrameDone, Running
    <3>2. CASE WorkerStops(w)
      BY <2>1, <3>1, <3>2, DeliveryStops
    <3>3. CASE WorkerMoves(w)
      BY <2>1, <3>1, <3>3, DeliveryMoves DEF WorkerMoves, Running, Analysing
    <3>4. CASE Abort(w) /\ ~WorkerMoves(w) /\ ~WorkerStops(w)
      BY <2>1, <2>9, <3>4, DeliveryAbort, AbortAnalysing
    <3> QED
      BY <2>9, <3>2, <3>3, <3>4, WorkerSteps
  <2> QED
    BY <2>4, <2>5, <2>6, <2>7, <2>8, <2>9 DEF Next
<1> QED
  BY <1>1, <1>2, <1>3 DEF DeliveryInv, Tagged

\* While no container crashes and no running task is redelivered, two worker
\* processes never analyse the same job, whatever is retried, killed or lost.
THEOREM OneRunAtATime == Spec => []OneRunPerJob
<1>1. Init => DeliveryInv
  BY DeliveryInit, JobAssumption
<1>2. TypeOK /\ TypeOK' /\ CoverInv /\ DeliveryInv /\ [Next]_vars => DeliveryInv'
  BY DeliveryNext, JobAssumption DEF CoverInv
<1>3. DeliveryInv => OneRunPerJob
  <2> SUFFICES ASSUME OneDelivery,
                      NEW v \in Workers, NEW w \in Workers, v # w,
                      Analysing(v), Analysing(w)
               PROVE  JobOf(v) # JobOf(w)
    BY DEF DeliveryInv, OneRunPerJob
  <2>1. Running(v) /\ Running(w)
    BY DEF Analysing
  <2>2. Live(worker[v].msg) /\ Live(worker[w].msg)
    BY DEF Live
  <2>3. worker[v].msg # worker[w].msg
    BY <2>1 DEF OneDelivery
  <2> QED
    BY <2>1, <2>2, <2>3, HeldInFlight DEF OneDelivery, JobOf
<1> QED
  BY <1>1, <1>2, <1>3, TypeCorrect, CoverAlways, PTL DEF Spec

\* The uploaded file is removed by a run whose detections, committed or about
\* to be, cover the whole video.
THEOREM FileGoesLast == Spec => UnlinkAfterAnalysis
<1> DEFINE A == \A j \in source \ source' :
                  \/ ~Exists(j)
                  \/ \E w \in Workers :
                       /\ Running(w) /\ JobOf(w) = j
                       /\ Covers(j, Committed(j) \union worker[w].pending)
<1>1. ASSUME TypeOK, CoverInv, NEW w \in Workers, EndOfVideo(w) PROVE A
  <2>1. Analysing(w) /\ Running(w) /\ worker[w].pc # "boxes"
    BY <1>1 DEF EndOfVideo, Analysing, Running
  <2>2. Covers(JobOf(w), worker[w].seen)
    BY <1>1, <2>1 DEF CoverInv, LoopCovers, EndOfVideo, Covers
  <2>3. Exists(JobOf(w)) =>
          Covers(JobOf(w), Committed(JobOf(w)) \union worker[w].pending)
    <3>1. Exists(JobOf(w)) =>
            worker[w].seen \subseteq Committed(JobOf(w)) \union worker[w].pending
      BY <1>1, <2>1 DEF CoverInv, SeenIsKept
    <3> QED
      BY <2>2, <3>1, CoversMono DEF Covers
  <2>4. source \ source' \subseteq {JobOf(w)}
    BY <1>1 DEF EndOfVideo
  <2> QED
    BY <2>1, <2>3, <2>4
<1>2. ASSUME source \ source' = {} PROVE A
  BY <1>2
<1>3. ASSUME TypeOK, CoverInv, Next PROVE A
  <2>1. ASSUME NEW w \in Workers, Process(w), ~EndOfVideo(w) PROVE source' = source
    BY <2>1 DEF Process, LoadJob, LoadMissingJob, OpenSource, OpenFails,
       ReadFrame, AnalyseBox, EndFrame, CommitProgress, CommitDone, CommitFails,
       Ack, jobVars
  <2>2. ASSUME NEW w \in Workers, RunFails(w) \/ ChildKilled(w)
        PROVE  source' = source
    BY <2>2 DEF RunFails, ChildKilled, jobVars
  <2>3. ASSUME NEW j \in Jobs, SubmitJob(j) \/ EnqueueJob(j) \/ EnqueueFails(j)
                               \/ DeleteJob(j) \/ AgeJob(j)
        PROVE  source \subseteq source'
    BY <2>3 DEF SubmitJob, EnqueueJob, EnqueueFails, DeleteJob, AgeJob, jobVars
  <2>4. CASE RestartApi \/ SelectStale \/ MarkStale \/ WorkersCrash
    BY <1>2, <2>4 DEF RestartApi, SelectStale, MarkStale, WorkersCrash, jobVars
  <2>5. ASSUME NEW m, \/ \E w \in Workers : Receive(w, m)
                      \/ Redeliver(m) \/ RedeliverHeld(m)
        PROVE  source' = source
    BY <2>5 DEF Receive, Redeliver, RedeliverHeld, jobVars
  <2> QED
    BY <1>1, <1>2, <1>3, <2>1, <2>2, <2>3, <2>4, <2>5 DEF Next
<1>4. TypeOK /\ CoverInv /\ [Next]_vars => [A]_source
  BY <1>3 DEF vars, jobVars
<1> QED
  BY <1>4, TypeCorrect, CoverAlways, PTL DEF Spec, UnlinkAfterAnalysis

(***************************************************************************)
(* The counter of a job.                                                   *)
(***************************************************************************)
Recorded(j) == {d \in detections : d.job = j}

\* A run counts what it has seen.
Counted(w) ==
  /\ IsFiniteSet(worker[w].seen) /\ IsFiniteSet(worker[w].pending)
  /\ worker[w].count = Cardinality(worker[w].seen)

CounterInv ==
  /\ IsFiniteSet(detections)
  /\ \A w \in Workers : Running(w) => Counted(w)
  /\ CounterBacked

LEMMA PositionsOfRecords ==
  ASSUME NEW S, IsFiniteSet(S)
  PROVE  /\ IsFiniteSet({d.pos : d \in S})
         /\ Cardinality({d.pos : d \in S}) <= Cardinality(S)
<1> DEFINE T == {d.pos : d \in S}
           f == [d \in S |-> d.pos]
<1>1. f \in [S -> T]
  OBVIOUS
<1>2. \A t \in T : \E d \in S : f[d] = t
  OBVIOUS
<1>3. f \in Surjection(S, T)
  BY <1>1, <1>2 DEF Surjection
<1> HIDE DEF f, T
<1>4. IsFiniteSet(T) /\ Cardinality(T) <= Cardinality(S)
  BY <1>3, FS_Surjection
<1> QED
  BY <1>4 DEF T

RecordsOf(j, r, P) == {[job |-> j, run |-> r, pos |-> p] : p \in P}

LEMMA FiniteRecords ==
  ASSUME NEW P, IsFiniteSet(P), NEW j, NEW r
  PROVE  IsFiniteSet(RecordsOf(j, r, P))
<1> DEFINE T == RecordsOf(j, r, P)
           f == [p \in P |-> [job |-> j, run |-> r, pos |-> p]]
<1>1. f \in [P -> T]
  BY DEF RecordsOf
<1>2. \A t \in T : \E p \in P : f[p] = t
  BY DEF RecordsOf
<1>3. f \in Surjection(P, T)
  BY <1>1, <1>2 DEF Surjection
<1> HIDE DEF f, T
<1>4. IsFiniteSet(T)
  BY <1>3, FS_Surjection
<1> QED
  BY <1>4 DEF T

\* More rows back a counter that does not change.
LEMMA StillBacked ==
  ASSUME IsFiniteSet(detections'), NEW j, Recorded(j) \subseteq Recorded(j)',
         NEW n \in Nat, n <= Cardinality(Recorded(j))
  PROVE  n <= Cardinality(Recorded(j)')
<1> DEFINE S == Recorded(j)
           T == Recorded(j)'
<1>1. IsFiniteSet(T)
  BY FS_Subset DEF Recorded
<1>2. IsFiniteSet(S) /\ Cardinality(S) <= Cardinality(T)
  BY <1>1, FS_Subset
<1>3. Cardinality(S) \in Nat /\ Cardinality(T) \in Nat
  BY <1>1, <1>2, FS_CardinalityType
<1> HIDE DEF S, T
<1>4. n <= Cardinality(T)
  <2>1. n <= Cardinality(S)
    BY DEF S
  <2> QED
    BY <1>2, <1>3, <2>1
<1> QED
  BY <1>4 DEF T

LEMMA CommitBacked ==
  ASSUME JobAssumption, TypeOK, NEW w \in Workers, worker[w] \in Work,
         NEW new \in Row, Commit(w, new), SeenIsKept(w), Counted(w),
         IsFiniteSet(detections), CounterBacked,
         new.detections \in {worker[w].snap.detections, worker[w].count}
  PROVE  IsFiniteSet(detections') /\ CounterBacked'
<1> PICK k : k = JobOf(w)
  OBVIOUS
<1>1. /\ k \in Jobs /\ worker[w].snap \in Row
      /\ IsFiniteSet(worker[w].seen) /\ IsFiniteSet(worker[w].pending)
      /\ worker[w].count = Cardinality(worker[w].seen) /\ worker[w].count \in Nat
  BY DEF Work, Message, JobOf, Counted
<1>2. IsFiniteSet(detections')
  <2> DEFINE D == RecordsOf(k, worker[w].run, worker[w].pending)
  <2>1. IsFiniteSet(D)
    BY <1>1, FiniteRecords
  <2>2. detections' = detections \union D
    BY DEF Commit, RecordsOf
  <2> HIDE DEF D
  <2> QED
    BY <2>1, <2>2, FS_Union
<1>3. ASSUME NEW j \in Jobs, Exists(j)'
      PROVE  row'[j].detections <= Cardinality(Recorded(j)')
  <2>1. Exists(j) /\ row[j] \in Row /\ row[j].detections \in Nat
    BY <1>3, CommitRows DEF Exists, TypeOK, Row
  <2>2. row[j].detections <= Cardinality(Recorded(j))
    BY <2>1 DEF CounterBacked, Recorded
  <2>3. Recorded(j) \subseteq Recorded(j)'
    BY DEF Recorded, Commit
  <2>4. row[j].detections <= Cardinality(Recorded(j)')
    BY <1>2, <2>1, <2>2, <2>3, StillBacked
  <2>5. CASE row'[j].detections = row[j].detections
    BY <2>4, <2>5
  <2>6. CASE row'[j].detections # row[j].detections
    <3>1. j = k
      BY <2>6 DEF Commit, TypeOK
    <3>2. row'[k] = Merged(row[k], worker[w].snap, new)
      BY <1>1, <2>1, <3>1 DEF Commit, TypeOK
    <3>3. row'[k].detections = worker[w].count
      BY <2>6, <3>1, <3>2 DEF Merged, Merge
    <3> DEFINE P == {d.pos : d \in Recorded(k)'}
    <3>4. worker[w].seen \subseteq P
      <4>1. Committed(k) \subseteq P
        BY <2>3, <3>1 DEF Committed, Recorded
      <4>2. \A p \in worker[w].pending : p \in P
        BY CommitStores DEF Recorded
      <4> QED
        BY <2>1, <3>1, <4>1, <4>2 DEF SeenIsKept
    <3>5. IsFiniteSet(Recorded(k)')
      BY <1>2, FS_Subset DEF Recorded
    <3>6. IsFiniteSet(P) /\ Cardinality(P) <= Cardinality(Recorded(k)')
      BY <3>5, PositionsOfRecords
    <3> HIDE DEF P
    <3>7. Cardinality(worker[w].seen) <= Cardinality(P)
      BY <3>4, <3>6, FS_Subset
    <3>8. Cardinality(P) \in Nat /\ Cardinality(Recorded(k)') \in Nat
      BY <3>5, <3>6, FS_CardinalityType
    <3>9. row'[k].detections \in Nat /\ row'[k].detections <= Cardinality(P)
      BY <1>1, <3>3, <3>7
    <3> QED
      BY <3>1, <3>6, <3>8, <3>9
  <2> QED
    BY <2>5, <2>6
<1> QED
  BY <1>2, <1>3 DEF CounterBacked, Recorded

\* A step that commits nothing: rows keep their counter or start with none.
LEMMA BackedOtherwise ==
  ASSUME TypeOK, TypeOK', IsFiniteSet(detections), CounterBacked,
         detections' \subseteq detections,
         \A j \in Jobs : Exists(j)' =>
           /\ Recorded(j)' = Recorded(j)
           /\ \/ Exists(j) /\ row'[j].detections = row[j].detections
              \/ row'[j].detections = 0
  PROVE  IsFiniteSet(detections') /\ CounterBacked'
<1>1. IsFiniteSet(detections')
  BY FS_Subset
<1>2. ASSUME NEW j \in Jobs, Exists(j)'
      PROVE  row'[j].detections <= Cardinality(Recorded(j)')
  <2>1. CASE Exists(j) /\ row'[j].detections = row[j].detections
    BY <1>2, <2>1 DEF CounterBacked, Recorded
  <2>2. CASE row'[j].detections = 0
    <3>1. IsFiniteSet(Recorded(j)')
      BY <1>1, FS_Subset DEF Recorded
    <3>2. Cardinality(Recorded(j)') \in Nat
      BY <3>1, FS_CardinalityType
    <3> QED
      BY <2>2, <3>2
  <2> QED
    BY <1>2, <2>1, <2>2
<1> QED
  BY <1>1, <1>2 DEF CounterBacked, Recorded

LEMMA CountedKept ==
  ASSUME NEW w, Counted(w),
         worker'[w].seen = worker[w].seen, worker'[w].count = worker[w].count,
         worker'[w].pending \subseteq worker[w].pending
  PROVE  Counted(w)'
<1>1. IsFiniteSet(worker'[w].pending)
  BY FS_Subset DEF Counted
<1> QED
  BY <1>1 DEF Counted

LEMMA CountedAnew ==
  ASSUME NEW w, worker'[w].seen = {}, worker'[w].pending = {}, worker'[w].count = 0
  PROVE  Counted(w)'
BY FS_EmptySet DEF Counted

\* A box is counted when it is recorded, and it is not recorded twice.
LEMMA CountedBox ==
  ASSUME JobAssumption, TypeOK, CoverInv, NEW w \in Workers, Counted(w), AnalyseBox(w)
  PROVE  Counted(w)'
<1> DEFINE r == worker[w]
           j == JobOf(w)
<1>1. r \in Work /\ Running(w) /\ Analysing(w) /\ r.pc = "boxes"
  BY WorkerCases DEF AnalyseBox, Running, Analysing
<1>2. CASE ~Records(w)
  <2>1. worker'[w] = [r EXCEPT !.box = @ + 1]
    BY <1>2 DEF AnalyseBox, Step, TypeOK
  <2>2. /\ worker'[w].seen = r.seen /\ worker'[w].count = r.count
        /\ worker'[w].pending = r.pending
    BY <1>1, <2>1 DEF Work
  <2> QED
    BY <2>2, CountedKept
<1>3. CASE Records(w)
  <2>1. worker'[w] = [r EXCEPT !.box = @ + 1, !.seen = @ \union {Here(w)},
                               !.pending = @ \union {Here(w)}, !.count = @ + 1]
    BY <1>3 DEF AnalyseBox, Step, TypeOK
  <2>2. /\ worker'[w].seen = r.seen \union {Here(w)}
        /\ worker'[w].pending = r.pending \union {Here(w)}
        /\ worker'[w].count = r.count + 1
    BY <1>1, <2>1 DEF Work
  <2>3. BoxAt(j, Here(w)) \in Box
    <3>1. j \in Jobs
      BY <1>1, JobOfType
    <3>2. Video[j] \in Seq(Seq(Box)) /\ Len(Video[j]) \in Nat
      BY <3>1 DEF JobAssumption
    <3>3. r.frame \in 1..Len(Video[j]) /\ r.box \in 1..(Len(Boxes(w)) + 1)
      BY <1>1, <3>2 DEF CoverInv, LoopCovers
    <3>4. Boxes(w) \in Seq(Box)
      BY <3>2, <3>3 DEF Boxes
    <3>5. r.box \in 1..Len(Video[j][r.frame])
      BY <3>3, <3>4 DEF AnalyseBox, Boxes
    <3> QED
      BY <3>1, <3>3, <3>5, BoxAtType DEF Here
  <2>4. Here(w) \notin r.seen
    BY <1>3, <2>3, SameSpotReflexive DEF Records
  <2>5. /\ IsFiniteSet(r.seen \union {Here(w)})
        /\ IsFiniteSet(r.pending \union {Here(w)})
        /\ Cardinality(r.seen \union {Here(w)}) = Cardinality(r.seen) + 1
    BY <2>4, FS_AddElement DEF Counted
  <2> QED
    BY <2>2, <2>5 DEF Counted
<1> QED
  BY <1>2, <1>3

\* The other steps of a worker keep the count or start a new one.
LEMMA CountedStep ==
  ASSUME TypeOK, NEW w \in Workers, Counted(w),
         Process(w) \/ RunFails(w) \/ ChildKilled(w), ~AnalyseBox(w), Running(w)'
  PROVE  Counted(w)'
<1> DEFINE r == worker[w]
<1>1. r \in Work
  BY WorkerCases DEF Process, RunFails, ChildKilled, LoadJob, LoadMissingJob,
     OpenSource, OpenFails, ReadFrame, AnalyseBox, EndFrame, CommitProgress,
     EndOfVideo, CommitDone, CommitFails, Ack, FrameDone, Running
<1>2. \A s : Step(w, s) => worker'[w] = s
  BY DEF Step, TypeOK
<1>3. CASE Abort(w) \/ CommitDone(w)
  <2>1. \E pc \in {"acking", "closing"} :
          Step(w, [r EXCEPT !.pc = pc, !.seen = {}, !.pending = {},
                            !.count = 0, !.frame = 0, !.box = 0,
                            !.run = 0, !.snap = NoRow])
    BY <1>3 DEF Abort, CommitDone
  <2>2. worker'[w].seen = {} /\ worker'[w].pending = {} /\ worker'[w].count = 0
    BY <1>1, <1>2, <2>1 DEF Work
  <2> QED
    BY <2>2, CountedAnew
<1>4. CASE LoadJob(w)
  <2> DEFINE s == [r EXCEPT !.pc = "opening", !.run = runs + 1,
                            !.snap = row[JobOf(w)]]
  <2>1. Step(w, s)
    BY <1>4 DEF LoadJob
  <2>2. s.seen = r.seen /\ s.count = r.count /\ s.pending = r.pending
    BY <1>1 DEF Work
  <2> QED
    BY <1>2, <2>1, <2>2, CountedKept
<1>5. CASE OpenSource(w)
  <2>1. \A snap : LET s == [r EXCEPT !.pc = "reading", !.snap = snap]
                  IN  s.seen = r.seen /\ s.count = r.count /\ s.pending = r.pending
    BY <1>1 DEF Work
  <2> QED
    BY <1>2, <1>5, <2>1, CountedKept DEF OpenSource
<1>6. CASE OpenFails(w)
  <2>1. LET s == [r EXCEPT !.pc = "closing", !.snap = NoRow, !.run = 0]
        IN  s.seen = r.seen /\ s.count = r.count /\ s.pending = r.pending
    BY <1>1 DEF Work
  <2> QED
    BY <1>2, <1>6, <2>1, CountedKept DEF OpenFails
<1>7. CASE ReadFrame(w)
  <2> DEFINE pc == IF Analysed(r.frame + 1) THEN "boxes" ELSE "reading"
             s == [r EXCEPT !.frame = @ + 1, !.box = 1, !.pc = pc]
  <2>1. Step(w, s)
    BY <1>7 DEF ReadFrame
  <2> HIDE DEF pc
  <2>2. s.seen = r.seen /\ s.count = r.count /\ s.pending = r.pending
    BY <1>1 DEF Work
  <2> QED
    BY <1>2, <2>1, <2>2, CountedKept
<1>8. CASE EndFrame(w)
  <2>1. LET s == [r EXCEPT !.pc = "reading", !.box = 0]
        IN  s.seen = r.seen /\ s.count = r.count /\ s.pending = r.pending
    BY <1>1 DEF Work
  <2> QED
    BY <1>2, <1>8, <2>1, CountedKept DEF EndFrame
<1>9. CASE CommitProgress(w) /\ ~Abort(w)
  <2>1. \A snap : LET s == [r EXCEPT !.pc = "reading", !.box = 0,
                                     !.pending = {}, !.snap = snap]
                  IN  s.seen = r.seen /\ s.count = r.count /\ s.pending = {}
    BY <1>1 DEF Work
  <2> QED
    BY <1>2, <1>9, <2>1, CountedKept DEF CommitProgress
<1>10. CASE EndOfVideo(w)
  <2>1. LET s == [r EXCEPT !.pc = "unlinked"]
        IN  s.seen = r.seen /\ s.count = r.count /\ s.pending = r.pending
    BY <1>1 DEF Work
  <2> QED
    BY <1>2, <1>10, <2>1, CountedKept DEF EndOfVideo
<1>11. ~Ack(w) /\ ~ChildKilled(w)
  BY <1>2 DEF Ack, ChildKilled, Running, Idle
<1> QED
  BY <1>3, <1>4, <1>5, <1>6, <1>7, <1>8, <1>9, <1>10, <1>11
     DEF Process, LoadMissingJob, CommitFails, RunFails

LEMMA CounterInit == ASSUME Init PROVE CounterInv
BY FS_EmptySet DEF Init, CounterInv, CounterBacked, Running, Idle, Exists, NoRow

LEMMA CounterApi ==
  ASSUME TypeOK, TypeOK', CounterInv,
         \/ \E j \in Jobs : SubmitJob(j) \/ EnqueueJob(j) \/ EnqueueFails(j)
                            \/ DeleteJob(j) \/ AgeJob(j)
         \/ RestartApi \/ SelectStale \/ MarkStale
  PROVE  CounterInv'
<1>1. UNCHANGED worker
  BY DEF SubmitJob, EnqueueJob, EnqueueFails, DeleteJob, AgeJob, RestartApi,
     SelectStale, MarkStale, workVars
<1>2. (\A w \in Workers : Running(w) => Counted(w))'
  BY <1>1 DEF CounterInv, Running, Counted
<1>3. CASE UNCHANGED <<row, detections>>
  BY <1>2, <1>3 DEF CounterInv, CounterBacked, Exists
<1>4. ASSUME NEW j \in Jobs, SubmitJob(j) PROVE CounterInv'
  <2>1. \A k \in Jobs : row'[k] = row[k] \/ row'[k].detections = 0
    BY <1>4 DEF SubmitJob, TypeOK, NoRow
  <2>2. UNCHANGED detections
    BY <1>4 DEF SubmitJob
  <2>3. IsFiniteSet(detections') /\ CounterBacked'
    BY <2>1, <2>2, BackedOtherwise DEF CounterInv, Recorded, Exists
  <2> QED
    BY <1>2, <2>3 DEF CounterInv
<1>5. ASSUME NEW j \in Jobs, DeleteJob(j) PROVE CounterInv'
  <2>1. \A k \in Jobs : k # j => row'[k] = row[k]
    BY <1>5 DEF DeleteJob, TypeOK
  <2>2. (~Exists(j))' /\ detections' = {d \in detections : d.job # j}
    BY <1>5 DEF DeleteJob, TypeOK, Exists, NoRow
  <2>3. \A k \in Jobs : k # j => Recorded(k)' = Recorded(k)
    BY <2>2 DEF Recorded
  <2>4. IsFiniteSet(detections') /\ CounterBacked'
    BY <2>1, <2>2, <2>3, BackedOtherwise DEF CounterInv, Exists
  <2> QED
    BY <1>2, <2>4 DEF CounterInv
<1>6. CASE MarkStale
  <2>1. UNCHANGED detections
    BY <1>6 DEF MarkStale
  <2>2. ASSUME NEW j \in Jobs
        PROVE  row'[j].detections = row[j].detections /\ (Exists(j)' => Exists(j))
    <3>1. row[j] \in Row
      BY DEF TypeOK
    <3>2. MarkedStale(j).detections = row[j].detections
      BY <3>1 DEF MarkedStale, Row
    <3>3. row'[j] = row[j] \/ (Exists(j) /\ row'[j] = MarkedStale(j))
      BY <1>6 DEF MarkStale
    <3> QED
      BY <3>2, <3>3 DEF Exists
  <2>3. IsFiniteSet(detections') /\ CounterBacked'
    BY <2>1, <2>2, BackedOtherwise DEF CounterInv, Recorded
  <2> QED
    BY <1>2, <2>3 DEF CounterInv
<1> QED
  BY <1>3, <1>4, <1>5, <1>6 DEF EnqueueJob, EnqueueFails, AgeJob, RestartApi,
     SelectStale, jobVars

LEMMA CounterBroker ==
  ASSUME TypeOK, CounterInv,
         \/ \E m \in ready : \E w \in Workers : Receive(w, m)
         \/ \E m \in unacked : Redeliver(m) \/ RedeliverHeld(m)
         \/ WorkersCrash
  PROVE  CounterInv'
<1>1. UNCHANGED <<row, detections>>
  BY DEF Receive, Redeliver, RedeliverHeld, WorkersCrash, jobVars
<1>2. ASSUME NEW v \in Workers, Running(v)' PROVE Counted(v)'
  <2>1. CASE worker'[v] = worker[v]
    BY <1>2, <2>1 DEF CounterInv, Running, Counted
  <2>2. ASSUME NEW m, NEW w \in Workers, Receive(w, m) PROVE Counted(v)'
    <3>1. CASE v = w
      <4>1. worker'[w].seen = {} /\ worker'[w].pending = {} /\ worker'[w].count = 0
        BY <2>2 DEF Receive, TypeOK
      <4> QED
        BY <3>1, <4>1, CountedAnew
    <3>2. CASE v # w
      BY <2>1, <2>2, <3>2 DEF Receive, TypeOK
    <3> QED
      BY <3>1, <3>2
  <2>3. ~WorkersCrash
    BY <1>2 DEF WorkersCrash, Running, Idle
  <2> QED
    BY <2>1, <2>2, <2>3 DEF Redeliver, RedeliverHeld, workVars
<1> QED
  BY <1>1, <1>2 DEF CounterInv, CounterBacked, Exists

LEMMA CounterWork ==
  ASSUME JobAssumption, TypeOK, TypeOK', CoverInv, CounterInv, NEW w \in Workers,
         Process(w) \/ RunFails(w) \/ ChildKilled(w)
  PROVE  CounterInv'
<1>1. Running(w)
  BY DEF Process, RunFails, ChildKilled, LoadJob, LoadMissingJob,
     OpenSource, OpenFails, ReadFrame, AnalyseBox, EndFrame, CommitProgress,
     EndOfVideo, CommitDone, CommitFails, Ack, FrameDone, Running
<1>2. worker[w] \in Work /\ Counted(w)
  BY <1>1, WorkerCases DEF CounterInv, Running
<1>3. Running(w)' => Counted(w)'
  BY <1>2, CountedBox, CountedStep DEF CounterInv
<1>4. \A v \in Workers : v # w => worker'[v] = worker[v]
  BY <1>1, AbortQuiet, WorkerSteps DEF WorkerMoves, WorkerStops
<1>5. (\A v \in Workers : Running(v) => Counted(v))'
  BY <1>3, <1>4 DEF CounterInv, Running, Counted
<1>6. CASE UNCHANGED <<row, detections>>
  BY <1>5, <1>6 DEF CounterInv, CounterBacked, Exists
<1>7. ASSUME Analysing(w), NEW new \in Row, Commit(w, new),
             new.detections \in {worker[w].snap.detections, worker[w].count}
      PROVE  CounterInv'
  <2>1. SeenIsKept(w)
    BY <1>7 DEF CoverInv
  <2>2. IsFiniteSet(detections') /\ CounterBacked'
    BY <1>2, <1>7, <2>1, CommitBacked DEF CounterInv
  <2> QED
    BY <1>5, <2>2 DEF CounterInv
<1>8. CASE OpenSource(w) \/ OpenFails(w) \/ CommitProgress(w) \/ CommitDone(w)
  <2>1. /\ Opened(w) \in Row /\ Unopened(w) \in Row
        /\ Progress(w) \in Row /\ Finished(w) \in Row /\ worker[w].snap \in Row
    BY <1>2, NewRowTypes DEF Work
  <2>2. /\ Opened(w).detections = worker[w].snap.detections
        /\ Unopened(w).detections = worker[w].snap.detections
        /\ Progress(w).detections = worker[w].count
    BY <2>1 DEF Opened, Unopened, Progress, Row
  <2>3. Finished(w).detections = worker[w].count
    BY <2>1, <2>2 DEF Finished, Row
  <2>4. Analysing(w)
    BY <1>1, <1>8 DEF OpenSource, OpenFails, CommitProgress, CommitDone, FrameDone,
       Analysing
  <2> QED
    BY <1>7, <1>8, <2>1, <2>2, <2>3, <2>4 DEF OpenSource, OpenFails, CommitProgress,
       CommitDone
<1> QED
  BY <1>6, <1>8 DEF Process, RunFails, ChildKilled, LoadJob, LoadMissingJob,
     ReadFrame, AnalyseBox, EndFrame, EndOfVideo, CommitFails, Ack, jobVars

LEMMA CounterNext ==
  ASSUME JobAssumption, TypeOK, TypeOK', CoverInv, CounterInv, [Next]_vars
  PROVE  CounterInv'
<1>1. CASE UNCHANGED vars
  BY <1>1 DEF vars, jobVars, workVars, CounterInv, CounterBacked, Exists, Running,
     Counted
<1> QED
  BY <1>1, CounterApi, CounterBroker, CounterWork DEF Next

\* The counter of a job never claims more than the table holds, whichever of the
\* runs of the job commits last and however many of its columns it leaves alone.
THEOREM CountersAreBacked == Spec => []CounterBacked
<1>1. Init => CounterInv
  BY CounterInit
<1>2. TypeOK /\ TypeOK' /\ CoverInv /\ CounterInv /\ [Next]_vars => CounterInv'
  BY CounterNext, JobAssumption
<1>3. CounterInv => CounterBacked
  BY DEF CounterInv
<1> QED
  BY <1>1, <1>2, <1>3, TypeCorrect, CoverAlways, PTL DEF Spec

(***************************************************************************)
(* A finished job stays finished.                                          *)
(***************************************************************************)
LEMMA OnlyTheEnd ==
  ASSUME JobAssumption, TypeOK, NEW w \in Workers,
         OpenSource(w) \/ OpenFails(w) \/ CommitProgress(w),
         NEW j \in Jobs, row'[j].status = "done"
  PROVE  row[j].status = "done"
<1>1. worker[w] \in Work
  BY WorkerCases DEF OpenSource, OpenFails, CommitProgress, FrameDone
<1>2. /\ Opened(w) \in Row /\ Unopened(w) \in Row /\ Progress(w) \in Row
      /\ worker[w].snap \in Row
  BY <1>1, NewRowTypes DEF Work
<1>3. /\ Opened(w).status = "processing" /\ Unopened(w).status = "failed"
      /\ Progress(w).status = worker[w].snap.status
  BY <1>2 DEF Opened, Unopened, Progress, Row
<1>4. CASE OpenSource(w)
  BY <1>1, <1>2, <1>3, <1>4, CommitRows DEF OpenSource
<1>5. CASE OpenFails(w)
  BY <1>1, <1>2, <1>3, <1>5, CommitRows DEF OpenFails
<1>6. CASE CommitProgress(w)
  BY <1>1, <1>2, <1>3, <1>6, CommitRows DEF CommitProgress
<1> QED
  BY <1>4, <1>5, <1>6

LEMMA BecomesDone ==
  ASSUME JobAssumption, TypeOK, [Next]_vars, NEW j \in Jobs, row'[j].status = "done"
  PROVE  row[j].status = "done" \/ \E w \in Workers : CommitDone(w) /\ JobOf(w) = j
<1>1. CASE UNCHANGED row
  BY <1>1
<1>2. ASSUME NEW k \in Jobs, SubmitJob(k) \/ DeleteJob(k) PROVE row[j].status = "done"
  <2>1. NoRow.status = "absent" /\ [NoRow EXCEPT !.status = "pending"].status = "pending"
    BY DEF NoRow
  <2>2. \/ row' = [row EXCEPT ![k] = NoRow]
        \/ row' = [row EXCEPT ![k] = [NoRow EXCEPT !.status = "pending"]]
    BY <1>2 DEF SubmitJob, DeleteJob
  <2>3. \/ row'[j] = row[j] \/ row'[j] = NoRow
        \/ row'[j] = [NoRow EXCEPT !.status = "pending"]
    BY <2>2 DEF TypeOK
  <2> QED
    BY <2>1, <2>3
<1>3. CASE MarkStale
  <2>1. row[j] \in Row
    BY DEF TypeOK
  <2>2. MarkedStale(j).status = "failed"
    BY <2>1 DEF MarkedStale, Row
  <2>3. row'[j] = row[j] \/ row'[j] = MarkedStale(j)
    BY <1>3 DEF MarkStale
  <2> QED
    BY <2>2, <2>3
<1>4. ASSUME NEW w \in Workers, CommitDone(w)
      PROVE  row[j].status = "done" \/ JobOf(w) = j
  <2>1. worker[w] \in Work
    BY <1>4, WorkerCases DEF CommitDone
  <2> QED
    BY <1>4, <2>1, NewRowTypes, CommitRows DEF CommitDone
<1>5. ASSUME NEW w \in Workers, Process(w), ~CommitDone(w)
      PROVE  row[j].status = "done"
  BY <1>1, <1>5, OnlyTheEnd DEF Process, LoadJob, LoadMissingJob, ReadFrame,
     AnalyseBox, EndFrame, EndOfVideo, CommitFails, Ack, jobVars
<1>6. ASSUME NEW w \in Workers, RunFails(w) \/ ChildKilled(w) PROVE row' = row
  BY <1>6 DEF RunFails, ChildKilled, jobVars
<1>7. ASSUME NEW k \in Jobs, EnqueueJob(k) \/ EnqueueFails(k) \/ AgeJob(k)
      PROVE  row' = row
  BY <1>7 DEF EnqueueJob, EnqueueFails, AgeJob, jobVars
<1>8. CASE RestartApi \/ SelectStale \/ WorkersCrash \/ UNCHANGED vars
  BY <1>1, <1>8 DEF RestartApi, SelectStale, WorkersCrash, jobVars, vars
<1>9. ASSUME NEW m, \/ \E w \in Workers : Receive(w, m)
                    \/ Redeliver(m) \/ RedeliverHeld(m)
      PROVE  row' = row
  BY <1>9 DEF Receive, Redeliver, RedeliverHeld, jobVars
<1> QED
  BY <1>1, <1>2, <1>3, <1>4, <1>5, <1>6, <1>7, <1>8, <1>9 DEF Next

LEMMA StaysSubmitted ==
  ASSUME TypeOK, [Next]_vars, NEW j \in Jobs, submit[j] # "new"
  PROVE  submit'[j] # "new"
<1>1. CASE UNCHANGED submit
  BY <1>1
<1>2. ASSUME NEW k \in Jobs, SubmitJob(k) \/ EnqueueJob(k) \/ EnqueueFails(k)
                             \/ DeleteJob(k) \/ AgeJob(k)
      PROVE  submit'[j] # "new"
  BY <1>2 DEF SubmitJob, EnqueueJob, EnqueueFails, DeleteJob, AgeJob, apiVars, TypeOK
<1>3. CASE RestartApi
  BY <1>3 DEF RestartApi
<1>4. CASE SelectStale \/ MarkStale \/ WorkersCrash \/ UNCHANGED vars
  BY <1>1, <1>4 DEF SelectStale, MarkStale, WorkersCrash, apiVars, vars
<1>5. ASSUME NEW w \in Workers, Process(w) \/ RunFails(w) \/ ChildKilled(w)
      PROVE  submit' = submit
  BY <1>5 DEF Process, LoadJob, LoadMissingJob, OpenSource, OpenFails, ReadFrame,
     AnalyseBox, EndFrame, CommitProgress, EndOfVideo, CommitDone, CommitFails, Ack,
     RunFails, ChildKilled, apiVars
<1>6. ASSUME NEW m, \/ \E w \in Workers : Receive(w, m)
                    \/ Redeliver(m) \/ RedeliverHeld(m)
      PROVE  submit' = submit
  BY <1>6 DEF Receive, Redeliver, RedeliverHeld, apiVars
<1> QED
  BY <1>1, <1>2, <1>3, <1>4, <1>5, <1>6 DEF Next

\* Only submit_job writes the file of a job.
LEMMA SourceStep ==
  ASSUME TypeOK, [Next]_vars, NEW j \in Jobs, submit[j] # "new", j \notin source
  PROVE  j \notin source'
<1>1. CASE source' \subseteq source
  BY <1>1
<1>2. ASSUME NEW k \in Jobs, SubmitJob(k) PROVE j \notin source'
  BY <1>2 DEF SubmitJob
<1>3. ASSUME NEW k \in Jobs, \/ EnqueueJob(k) \/ EnqueueFails(k)
                             \/ DeleteJob(k) \/ AgeJob(k)
      PROVE  source' = source
  BY <1>3 DEF EnqueueJob, EnqueueFails, DeleteJob, AgeJob, jobVars
<1>4. CASE RestartApi \/ SelectStale \/ MarkStale \/ WorkersCrash \/ UNCHANGED vars
  BY <1>1, <1>4 DEF RestartApi, SelectStale, MarkStale, WorkersCrash, jobVars, vars
<1>5. ASSUME NEW w \in Workers, Process(w) \/ RunFails(w) \/ ChildKilled(w)
      PROVE  source' \subseteq source
  BY <1>5 DEF Process, LoadJob, LoadMissingJob, OpenSource, OpenFails, ReadFrame,
     AnalyseBox, EndFrame, CommitProgress, EndOfVideo, CommitDone, CommitFails, Ack,
     RunFails, ChildKilled, jobVars
<1>6. ASSUME NEW m, \/ \E w \in Workers : Receive(w, m)
                    \/ Redeliver(m) \/ RedeliverHeld(m)
      PROVE  source' = source
  BY <1>6 DEF Receive, Redeliver, RedeliverHeld, jobVars
<1> QED
  BY <1>1, <1>2, <1>3, <1>4, <1>5, <1>6 DEF Next

\* A worker gets past the last frame only by removing the file.
LEMMA UnlinkStep ==
  ASSUME TypeOK, [Next]_vars, NEW w \in Workers, worker'[w].pc = "unlinked"
  PROVE  \/ worker'[w] = worker[w]
         \/ JobOf(w)' \notin source'
<1>1. CASE worker'[w] = worker[w]
  BY <1>1
<1>2. ASSUME NEW v \in Workers, Process(v) \/ RunFails(v) \/ ChildKilled(v)
      PROVE  worker'[w] = worker[w] \/ JobOf(w)' \notin source'
  <2>1. CASE v # w
    BY <1>2, <2>1 DEF Process, LoadJob, LoadMissingJob, OpenSource, OpenFails,
       ReadFrame, AnalyseBox, EndFrame, CommitProgress, EndOfVideo, CommitDone,
       CommitFails, Ack, RunFails, ChildKilled, Abort, Step, TypeOK
  <2>2. CASE v = w /\ EndOfVideo(w)
    <3>1. worker[w] \in Work
      BY <2>2, WorkerCases DEF EndOfVideo
    <3>2. worker'[w].msg = worker[w].msg
      BY <2>2, <3>1 DEF EndOfVideo, Step, TypeOK, Work
    <3> QED
      BY <2>2, <3>2 DEF EndOfVideo, JobOf
  <2>3. CASE v = w /\ Abort(w)
    <3>1. worker[w] \in Work
      BY <1>2, <2>3, BusyWorker
    <3> QED
      BY <2>3, <3>1 DEF Abort, Step, TypeOK, Work
  <2>4. CASE v = w /\ ~EndOfVideo(w) /\ ~Abort(w)
    <3>1. worker[w] \in Work
      BY <1>2, <2>4, BusyWorker
    <3>2. ~Ack(w) /\ ~ChildKilled(w)
      BY DEF Ack, ChildKilled, Step, TypeOK, Idle
    <3>3. CASE AnalyseBox(w)
      BY <3>1, <3>2, <3>3 DEF AnalyseBox, Step, TypeOK, Work
    <3>4. CASE ReadFrame(w)
      <4>1. worker'[w].pc = IF Analysed(worker[w].frame + 1) THEN "boxes" ELSE "reading"
        BY <3>1, <3>2, <3>4 DEF ReadFrame, Step, TypeOK, Work
      <4> QED
        BY <4>1
    <3>5. CASE LoadJob(w) \/ OpenSource(w) \/ EndFrame(w)
      BY <3>1, <3>5 DEF LoadJob, OpenSource, EndFrame, Step, TypeOK, Work
    <3>7. CASE OpenFails(w)
      BY <3>1, <3>7 DEF OpenFails, Step, TypeOK, Work
    <3>8. CASE CommitDone(w)
      BY <3>1, <3>8 DEF CommitDone, Step, TypeOK, Work
    <3>6. CASE CommitProgress(w)
      BY <2>4, <3>1, <3>2, <3>6 DEF CommitProgress, Step, TypeOK, Work
    <3> QED
      BY <1>2, <2>4, <3>2, <3>3, <3>4, <3>5, <3>6, <3>7, <3>8
      DEF Process, LoadMissingJob, CommitFails, RunFails
  <2> QED
    BY <1>2, <2>1, <2>2, <2>3, <2>4
<1>3. ASSUME NEW m \in ready, NEW v \in Workers, Receive(v, m)
      PROVE  worker'[w] = worker[w]
  BY <1>3 DEF Receive, TypeOK
<1>4. ~WorkersCrash
  BY DEF WorkersCrash, Idle
<1>5. ASSUME \/ \E j \in Jobs : SubmitJob(j) \/ EnqueueJob(j) \/ EnqueueFails(j)
                               \/ DeleteJob(j) \/ AgeJob(j)
             \/ RestartApi \/ SelectStale \/ MarkStale
             \/ \E m \in unacked : Redeliver(m) \/ RedeliverHeld(m)
             \/ UNCHANGED vars
      PROVE  worker' = worker
  BY <1>5 DEF SubmitJob, EnqueueJob, EnqueueFails, DeleteJob, AgeJob, RestartApi,
     SelectStale, MarkStale, Redeliver, RedeliverHeld, workVars, vars
<1> QED
  BY <1>2, <1>3, <1>4, <1>5 DEF Next

LEMMA UnlinkedNext ==
  ASSUME JobAssumption, TypeOK, EnqueuedOnly, EnqueuedOnly', TypeOK', Unlinked,
         [Next]_vars
  PROVE  Unlinked'
<1>1. ASSUME NEW w \in Workers, Running(w)
      PROVE  JobOf(w) \in Jobs /\ submit[JobOf(w)] # "new"
  BY <1>1, JobOfType, HeldInFlight DEF EnqueuedOnly, JobOf
<1>2. ASSUME NEW w \in Workers, worker'[w].pc = "unlinked"
      PROVE  JobOf(w)' \notin source'
  <2>1. CASE worker'[w] = worker[w]
    <3>1. Running(w) /\ JobOf(w) \notin source /\ JobOf(w)' = JobOf(w)
      BY <1>2, <2>1 DEF Unlinked, Running, JobOf
    <3> QED
      BY <1>1, <3>1, SourceStep
  <2> QED
    BY <1>2, <2>1, UnlinkStep
<1>3. ASSUME NEW j \in Jobs, row'[j].status = "done"
      PROVE  j \notin source' /\ submit'[j] # "new"
  <2>1. j \notin source /\ submit[j] # "new"
    <3>1. CASE row[j].status = "done"
      BY <3>1 DEF Unlinked
    <3>2. ASSUME NEW w \in Workers, CommitDone(w), JobOf(w) = j
          PROVE  j \notin source /\ submit[j] # "new"
      BY <1>1, <3>2 DEF Unlinked, CommitDone, Running
    <3> QED
      BY <1>3, <3>1, <3>2, BecomesDone
  <2> QED
    BY <2>1, SourceStep, StaysSubmitted
<1> QED
  BY <1>2, <1>3 DEF Unlinked

\* A commit writes the status only if it changed it: the one that would make a
\* done job "processing" again is the one that has opened the file.
LEMMA ReopensOnlyByOpening ==
  ASSUME JobAssumption, TypeOK, NEW w \in Workers,
         OpenFails(w) \/ CommitProgress(w) \/ CommitDone(w),
         NEW j \in Jobs, row[j].status = "done"
  PROVE  row'[j].status \notin {"pending", "processing"}
<1>1. worker[w] \in Work
  BY WorkerCases DEF OpenFails, CommitProgress, CommitDone, FrameDone
<1>2. /\ Unopened(w) \in Row /\ Progress(w) \in Row /\ Finished(w) \in Row
      /\ worker[w].snap \in Row
  BY <1>1, NewRowTypes DEF Work
<1>3. /\ Unopened(w).status = "failed" /\ Finished(w).status = "done"
      /\ Progress(w).status = worker[w].snap.status
  BY <1>2 DEF Unopened, Progress, Finished, Row
<1>4. PICK new \in {Unopened(w), Progress(w), Finished(w)} : Commit(w, new)
  BY DEF OpenFails, CommitProgress, CommitDone
<1>5. new.status \in {"failed", "done"} \/ new.status = worker[w].snap.status
  BY <1>3
<1>6. row'[j] = row[j] \/ row'[j] = Merged(row[j], worker[w].snap, new)
  BY <1>4 DEF Commit, TypeOK
<1>7. Merged(row[j], worker[w].snap, new).status \in {"done", "failed"}
  BY <1>5 DEF Merged, Merge
<1> QED
  BY <1>6, <1>7

\* Whatever is retried, redelivered, crashed or run twice, a job that is done
\* does not go back to being analysed: its file is gone before it is done
\* (Unlinked), and nothing but submit_job, which runs once, writes it.
THEOREM DoneIsNeverReopened == Spec => NeverReopened
<1> DEFINE A == \A j \in Jobs : row[j].status = "done" =>
                  row'[j].status \notin {"pending", "processing"}
<1>1. ASSUME JobAssumption, TypeOK, Unlinked, Next, NEW j \in Jobs, row[j].status = "done"
      PROVE  row'[j].status \notin {"pending", "processing"}
  <2>1. j \notin source /\ submit[j] # "new"
    BY <1>1 DEF Unlinked
  <2>2. CASE row'[j] = row[j]
    BY <1>1, <2>2
  <2>3. ASSUME NEW k \in Jobs, SubmitJob(k) \/ DeleteJob(k)
        PROVE  row'[j].status \notin {"pending", "processing"}
    <3>1. k # j \/ row'[j] = NoRow
      BY <1>1, <2>1, <2>3 DEF SubmitJob, DeleteJob, TypeOK
    <3>2. k # j => row'[j] = row[j]
      BY <1>1, <2>3 DEF SubmitJob, DeleteJob, TypeOK
    <3> QED
      BY <1>1, <3>1, <3>2 DEF NoRow
  <2>4. CASE MarkStale
    <3>1. row[j] \in Row
      BY <1>1 DEF TypeOK
    <3>2. MarkedStale(j).status = "failed"
      BY <3>1 DEF MarkedStale, Row
    <3> QED
      BY <1>1, <2>4, <3>2 DEF MarkStale
  <2>5. ASSUME NEW w \in Workers, OpenSource(w)
        PROVE  row'[j].status \notin {"pending", "processing"}
    <3>1. JobOf(w) # j
      BY <2>1, <2>5 DEF OpenSource, Opens
    <3>2. row'[j] = row[j]
      BY <1>1, <2>5, <3>1 DEF OpenSource, Commit, TypeOK
    <3> QED
      BY <2>2, <3>2
  <2>6. ASSUME NEW w \in Workers, OpenFails(w) \/ CommitProgress(w) \/ CommitDone(w)
        PROVE  row'[j].status \notin {"pending", "processing"}
    BY <1>1, <2>6, ReopensOnlyByOpening
  <2>7. ASSUME NEW w \in Workers, ~OpenSource(w), ~OpenFails(w), ~CommitProgress(w),
               ~CommitDone(w), Process(w) \/ RunFails(w) \/ ChildKilled(w)
        PROVE  row' = row
    BY <2>7 DEF Process, RunFails, ChildKilled, LoadJob, LoadMissingJob,
       ReadFrame, AnalyseBox, EndFrame, EndOfVideo, CommitFails, Ack, jobVars
  <2>8. ASSUME NEW k \in Jobs, EnqueueJob(k) \/ EnqueueFails(k) \/ AgeJob(k)
        PROVE  row' = row
    BY <2>8 DEF EnqueueJob, EnqueueFails, AgeJob, jobVars
  <2>9. CASE RestartApi \/ SelectStale \/ WorkersCrash
    BY <2>2, <2>9 DEF RestartApi, SelectStale, WorkersCrash, jobVars
  <2>10. ASSUME NEW m, \/ \E w \in Workers : Receive(w, m)
                       \/ Redeliver(m) \/ RedeliverHeld(m)
         PROVE  row' = row
    BY <2>10 DEF Receive, Redeliver, RedeliverHeld, jobVars
  <2> QED
    BY <1>1, <2>2, <2>3, <2>4, <2>5, <2>6, <2>7, <2>8, <2>9, <2>10 DEF Next
<1>2. TypeOK /\ Unlinked /\ [Next]_vars => [A]_row
  BY <1>1, JobAssumption DEF vars, jobVars
<1>3. Init => Unlinked
  BY DEF Init, Unlinked, Idle, NoRow
<1>4. TypeOK /\ TypeOK' /\ CoverInv /\ CoverInv' /\ Unlinked /\ [Next]_vars => Unlinked'
  BY UnlinkedNext, JobAssumption DEF CoverInv
<1> QED
  BY <1>2, <1>3, <1>4, TypeCorrect, CoverAlways, PTL DEF Spec, NeverReopened
=============================================================================
