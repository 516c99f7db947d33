---------------------------- MODULE TablesProofs ----------------------------
(***************************************************************************)
(* Proofs about the small tables of the API: SignalementVotes, for any     *)
(* reports, requests and threshold, and SettingsTables, for any clients,   *)
(* codes, radii and numbers of requests and starts.                        *)
(***************************************************************************)
EXTENDS SignalementVotes, SettingsTables, FiniteSetTheorems, TLAPS

(***************************************************************************)
(* Rows.                                                                   *)
(***************************************************************************)
LEMMA RowsAreRows ==
  ASSUME NEW x \in Row \union {NotYet, Deleted}
  PROVE  /\ x.status \in Statuses <=> x \in Row
         /\ x.status \in Withdrawn => x \in Row
         /\ x.status = "actif" => x \in Row
         /\ x \in Row => x # NotYet /\ x # Deleted
<1>1. NotYet.status = "not yet" /\ Deleted.status = "deleted"
  BY DEF NotYet, Deleted
<1>2. x \in Row => x.status \in Statuses
  BY DEF Row
<1>3. NotYet.status \notin Statuses /\ Deleted.status \notin Statuses
  BY <1>1 DEF Statuses, Withdrawn
<1>4. x.status \in Statuses => x \in Row
  BY <1>3
<1>5. Withdrawn \subseteq Statuses /\ "actif" \in Statuses
  BY DEF Statuses
<1> QED
  BY <1>2, <1>3, <1>4, <1>5

LEMMA NewIsARow == New \in Row
BY DEF New, Row, Statuses, Withdrawn, Kinds

\* What a request knows.
LEMMA RequestsAreTyped ==
  ASSUME VotesTypeOK, NEW r \in Requests, req[r] # Idle
  PROVE  /\ req[r] \in Request
         /\ req[r].report \in Reports /\ req[r].kind \in Kinds
         /\ req[r].read \in Row
         /\ req[r].decision \in Withdrawn
         /\ row[req[r].report] \in Row \union {NotYet, Deleted}
BY DEF VotesTypeOK, Request

LEMMA IdleIsIdle ==
  ASSUME VotesTypeOK, NEW r \in Requests,
         req[r].pc \in {"vote", "moderate", "delete"}
  PROVE  req[r] # Idle
BY DEF Idle

(***************************************************************************)
(* The steps, seen by one report and one request.                          *)
(***************************************************************************)
\* A step that answers a request leaves the others as they are.
LEMMA AnswerKeepsOthers ==
  ASSUME VotesTypeOK, NEW r \in Requests, Answer(r), NEW q \in Requests
  PROVE  /\ q # r => req'[q] = req[q]
         /\ q = r => req'[q] = Idle
         /\ req' \in [Requests -> Request \union {Idle}]
         /\ left' = left
BY DEF Answer, VotesTypeOK

\* The row a vote commits.
LEMMA CommittedVote ==
  ASSUME VotesTypeOK, NEW r \in Requests, CommitVote(r)
  PROVE  LET s == req[r].report
             k == req[r].kind
         IN  /\ req[r] # Idle /\ row[s] \in Row /\ row'[s] \in Row
             /\ row'[s].count[k] = req[r].read.count[k] + 1
             /\ \A l \in Kinds : l # k => row'[s].count[l] = row[s].count[l]
             /\ row'[s].moderation = row[s].moderation
             /\ row'[s].status = Written(req[r].read.status, NewStatus(r), row[s].status)
             /\ \A t \in Reports : t # s => row'[t] = row[t]
             /\ cast'[s][k] = cast[s][k] + 1
             /\ rounds'[s][k] = IF counted[s][k] THEN rounds[s][k] ELSE rounds[s][k] + 1
             /\ counted'[s][k] = OthersVote(r)
             /\ \A t \in Reports, l \in Kinds : t # s \/ l # k =>
                  /\ cast'[t][l] = cast[t][l] /\ rounds'[t][l] = rounds[t][l]
                  /\ counted'[t][l] = counted[t][l]
             /\ cast' \in [Reports -> [Kinds -> Nat]]
             /\ rounds' \in [Reports -> [Kinds -> Nat]]
             /\ counted' \in [Reports -> [Kinds -> BOOLEAN]]
             /\ row' \in [Reports -> Row \union {NotYet, Deleted}]
<1> DEFINE s == req[r].report
           k == req[r].kind
<1>1. req[r] # Idle
  BY DEF CommitVote, Idle
<1>2. s \in Reports /\ k \in Kinds /\ req[r].read \in Row
      /\ row[s] \in Row \union {NotYet, Deleted}
  BY <1>1, RequestsAreTyped
<1>3. row[s] \in Row
  BY <1>2, RowsAreRows DEF CommitVote, Exists
<1>4. req[r].read.count[k] + 1 \in Nat /\ row[s].count \in [Kinds -> Nat]
      /\ row[s].status \in Statuses
  BY <1>2, <1>3 DEF Row
<1>5. Written(req[r].read.status, NewStatus(r), row[s].status) \in Statuses
  BY <1>2, <1>4 DEF Written, NewStatus, Row, Statuses, Withdrawn
<1> DEFINE new == [row[s] EXCEPT
             !.count[k] = NewCount(r),
             !.status = Written(req[r].read.status, NewStatus(r), row[s].status)]
<1>6. row' = [row EXCEPT ![s] = new]
  BY <1>2, <1>3 DEF CommitVote, VotesTypeOK, Row
<1>7. new \in Row /\ new.count[k] = req[r].read.count[k] + 1
      /\ new.moderation = row[s].moderation
      /\ new.status = Written(req[r].read.status, NewStatus(r), row[s].status)
      /\ \A l \in Kinds : l # k => new.count[l] = row[s].count[l]
  BY <1>2, <1>3, <1>4, <1>5 DEF Row, NewCount
<1> HIDE DEF new
<1>8. /\ row'[s] = new
      /\ \A t \in Reports : t # s => row'[t] = row[t]
      /\ row' \in [Reports -> Row \union {NotYet, Deleted}]
  BY <1>2, <1>6, <1>7 DEF VotesTypeOK
<1>9. /\ cast'[s][k] = cast[s][k] + 1
      /\ \A t \in Reports, l \in Kinds : t # s \/ l # k => cast'[t][l] = cast[t][l]
      /\ cast' \in [Reports -> [Kinds -> Nat]]
  BY <1>2 DEF CommitVote, VotesTypeOK
<1>10. /\ rounds'[s][k] = IF counted[s][k] THEN rounds[s][k] ELSE rounds[s][k] + 1
       /\ \A t \in Reports, l \in Kinds : t # s \/ l # k => rounds'[t][l] = rounds[t][l]
       /\ rounds' \in [Reports -> [Kinds -> Nat]]
  BY <1>2 DEF CommitVote, VotesTypeOK
<1>11. OthersVote(r) \in BOOLEAN
  BY DEF OthersVote
<1>12. /\ counted'[s][k] = OthersVote(r)
       /\ \A t \in Reports, l \in Kinds : t # s \/ l # k => counted'[t][l] = counted[t][l]
       /\ counted' \in [Reports -> [Kinds -> BOOLEAN]]
  BY <1>2, <1>11 DEF CommitVote, EndOfGroup, VotesTypeOK
<1> QED
  BY <1>1, <1>3, <1>7, <1>8, <1>9, <1>10, <1>12

\* What the votes of a kind look like once one of them is over.
LEMMA VoteLeaves ==
  ASSUME VotesTypeOK, NEW r \in Requests, req[r].pc = "vote", Answer(r),
         NEW q \in Requests, req'[q].pc = "vote",
         req[q].report = req[r].report, req[q].kind = req[r].kind
  PROVE  OthersVote(r) /\ q # r /\ req'[q] = req[q]
<1>1. q # r /\ req'[q] = req[q]
  BY AnswerKeepsOthers DEF Idle
<1> QED
  BY <1>1 DEF OthersVote, Voting

-----------------------------------------------------------------------------
LEMMA InitHolds == ASSUME VotesAssumption, VotesInit PROVE VotesInv
<1>1. VotesTypeOK
  BY DEF VotesAssumption, VotesInit, VotesTypeOK
<1>2. \A s \in Reports : ~Exists(s) /\ row[s].status \notin Withdrawn
  BY DEF VotesInit, Exists, NotYet, Statuses, Withdrawn
<1>3. \A r \in Requests : req[r] = Idle /\ req[r].pc = "idle"
  BY DEF VotesInit, Idle
<1>4. NothingYet
  BY DEF VotesInit, NothingYet
<1> QED
  BY <1>1, <1>2, <1>3, <1>4
     DEF VotesInv, EveryRoundCounts, VotesSawRounds, WithdrawnIsKept,
         CountWithdraws, WithdrawnForAReason

\* A step that commits a row of Row for s and answers r, or answers only.
LEMMA CommitVoteKeeps ==
  ASSUME VotesAssumption, VotesInv, NEW r \in Requests, CommitVote(r)
  PROVE  VotesInv'
<1> DEFINE s == req[r].report
           k == req[r].kind
<1> USE DEF VotesInv
<1>1. /\ req[r] # Idle /\ req[r] \in Request
      /\ s \in Reports /\ k \in Kinds /\ req[r].read \in Row
      /\ req[r].pc = "vote" /\ Exists(s)
  BY CommittedVote, RequestsAreTyped DEF CommitVote
<1>2. Answer(r)
  BY DEF CommitVote
<1>3. /\ row[s] \in Row /\ row'[s] \in Row
      /\ row'[s].count[k] = req[r].read.count[k] + 1
      /\ \A l \in Kinds : l # k => row'[s].count[l] = row[s].count[l]
      /\ row'[s].moderation = row[s].moderation
      /\ row'[s].status = Written(req[r].read.status, NewStatus(r), row[s].status)
      /\ \A t \in Reports : t # s => row'[t] = row[t]
      /\ cast'[s][k] = cast[s][k] + 1
      /\ rounds'[s][k] = IF counted[s][k] THEN rounds[s][k] ELSE rounds[s][k] + 1
      /\ counted'[s][k] = OthersVote(r)
      /\ \A t \in Reports, l \in Kinds : t # s \/ l # k =>
           /\ cast'[t][l] = cast[t][l] /\ rounds'[t][l] = rounds[t][l]
           /\ counted'[t][l] = counted[t][l]
  BY CommittedVote
<1>4. VotesTypeOK'
  BY CommittedVote, <1>2, AnswerKeepsOthers DEF VotesTypeOK, Answer
<1>5. \A t \in Reports, l \in Kinds :
         /\ cast[t][l] \in Nat /\ rounds[t][l] \in Nat
         /\ cast'[t][l] \in Nat /\ rounds'[t][l] \in Nat
         /\ counted[t][l] \in BOOLEAN /\ counted'[t][l] \in BOOLEAN
  BY <1>4 DEF VotesTypeOK
<1>6. /\ Before(s, k) <= req[r].read.count[k]
      /\ req[r].read.count[k] <= cast[s][k]
      /\ req[r].read.count[k] \in Nat
  BY <1>1 DEF VotesSawRounds, Row
<1>7. rounds'[s][k] = Before(s, k) + 1
  BY <1>1, <1>3, <1>5 DEF Before
<1>8. \A t \in Reports : Exists(t)' <=> Exists(t)
  BY <1>1, <1>3, RowsAreRows DEF Exists, VotesTypeOK
<1>9. EveryRoundCounts'
  <2> SUFFICES ASSUME NEW t \in Reports, NEW l \in Kinds, Exists(t)'
               PROVE  /\ rounds'[t][l] <= row'[t].count[l]
                      /\ row'[t].count[l] <= cast'[t][l]
    BY DEF EveryRoundCounts
  <2>1. CASE t = s /\ l = k
    BY <2>1, <1>1, <1>3, <1>5, <1>6, <1>7 DEF Before
  <2>2. CASE ~(t = s /\ l = k)
    <3>1. rounds[t][l] <= row[t].count[l] /\ row[t].count[l] <= cast[t][l]
      BY <1>8 DEF EveryRoundCounts
    <3>2. row'[t].count[l] = row[t].count[l]
      BY <2>2, <1>3
    <3> QED
      BY <3>1, <3>2, <2>2, <1>3
  <2> QED
    BY <2>1, <2>2
<1>10. VotesSawRounds'
  <2> SUFFICES ASSUME NEW q \in Requests, req'[q].pc = "vote",
                      row'[req'[q].report].status \in Statuses,
                      NEW t, NEW l, t = req'[q].report, l = req'[q].kind
               PROVE  /\ Before(t, l)' <= req'[q].read.count[l]
                      /\ req'[q].read.count[l] <= cast'[t][l]
    BY DEF VotesSawRounds, Before, Exists
  <2>1. q # r /\ req'[q] = req[q]
    BY <1>2, AnswerKeepsOthers DEF Idle
  <2>2. t \in Reports /\ l \in Kinds /\ req[q].read.count[l] \in Nat
    BY <2>1, IdleIsIdle, RequestsAreTyped DEF Row
  <2>3. Before(t, l) <= req[q].read.count[l] /\ req[q].read.count[l] <= cast[t][l]
    BY <2>1, <2>2, <1>8 DEF VotesSawRounds, Exists
  <2>4. CASE t = s /\ l = k
    <3>4. OthersVote(r)
      BY <2>4, <2>1, <1>1, <1>2, VoteLeaves
    <3>5. OthersVote(r) = TRUE
      BY <3>4 DEF OthersVote
    <3>1. counted'[t][l] = TRUE
      BY <2>4, <1>3, <3>5
    <3>2. rounds'[t][l] = Before(t, l) + 1 /\ rounds'[t][l] \in Int
          /\ Before(t, l) \in Int
      BY <2>4, <2>2, <1>5, <1>7 DEF Before
    <3>3. Before(t, l)' = rounds'[t][l] - 1
      BY <3>1 DEF Before
    <3> QED
      BY <3>2, <3>3, <2>1, <2>2, <2>3, <2>4, <1>3, <1>5
  <2>5. CASE ~(t = s /\ l = k)
    <3>1. Before(t, l)' = Before(t, l) /\ cast'[t][l] = cast[t][l]
      BY <2>5, <2>2, <1>3 DEF Before
    <3> QED
      BY <3>1, <2>1, <2>3
  <2> QED
    BY <2>4, <2>5
<1>11. row[s].status \in Withdrawn => row'[s].status \in Withdrawn
  <2>1. req[r].read.status \in Withdrawn => row[s].status \in Withdrawn
    BY <1>1, <1>3 DEF WithdrawnIsKept, Row, Statuses
  <2> QED
    BY <1>3 DEF Written, NewStatus, Withdrawn
<1>12. WithdrawnIsKept'
  <2> SUFFICES ASSUME NEW q \in Requests, req'[q] # Idle
               PROVE  /\ row'[req'[q].report] # NotYet
                      /\ req'[q].read.status \in Withdrawn
                           => row'[req'[q].report].status # "actif"
    BY DEF WithdrawnIsKept
  <2>1. q # r /\ req'[q] = req[q]
    BY <1>2, AnswerKeepsOthers
  <2>2. req[q].report \in Reports
    BY <2>1, RequestsAreTyped
  <2>3. CASE req[q].report = s
    <3>1. row[s].status # "actif" => row'[s].status # "actif"
      BY <1>3, <1>11 DEF Row, Statuses, Withdrawn
    <3> QED
      BY <3>1, <2>1, <2>3, <1>3, RowsAreRows DEF WithdrawnIsKept
  <2>4. CASE req[q].report # s
    BY <2>1, <2>2, <2>4, <1>3 DEF WithdrawnIsKept
  <2> QED
    BY <2>3, <2>4
<1>13. NothingYet'
  <2> SUFFICES ASSUME NEW t \in Reports, NEW l \in Kinds, row'[t] = NotYet
               PROVE  rounds'[t][l] = 0
    BY DEF NothingYet
  <2>1. t # s
    BY <1>3, RowsAreRows
  <2> QED
    BY <2>1, <1>3 DEF NothingYet
<1>14. CountWithdraws'
  <2> SUFFICES ASSUME NEW t \in Reports, Exists(t)',
                      row'[t].count["not_there_votes"] >= Threshold
               PROVE  row'[t].status \in Withdrawn
    BY DEF CountWithdraws
  <2>1. CASE t # s
    BY <2>1, <1>3, <1>8 DEF CountWithdraws
  <2>2. CASE t = s /\ k # "not_there_votes"
    <3>1. row[s].count["not_there_votes"] >= Threshold
      BY <2>2, <1>3 DEF Kinds
    <3> QED
      BY <3>1, <2>2, <1>1, <1>11 DEF CountWithdraws
  <2>3. CASE t = s /\ k = "not_there_votes"
    <3>1. Enough(r)
      BY <2>3, <1>3 DEF Enough, NewCount
    <3>2. req[r].read.status = "annule" => row[s].status \in Withdrawn
      BY <1>1, <1>3 DEF WithdrawnIsKept, Row, Statuses, Withdrawn
    <3> QED
      BY <3>1, <3>2, <2>3, <1>3 DEF NewStatus, Written, Withdrawn
  <2> QED
    BY <2>1, <2>2, <2>3
<1>15. WithdrawnForAReason'
  <2> SUFFICES ASSUME NEW t \in Reports, row'[t].status \in Withdrawn,
                      row'[t].moderation = "none"
               PROVE  /\ row'[t].status = "annule"
                      /\ cast'[t]["not_there_votes"] >= Threshold
    BY DEF WithdrawnForAReason
  <2>1. CASE t # s
    BY <2>1, <1>3 DEF WithdrawnForAReason, Kinds
  <2>2. CASE t = s /\ row'[s].status = row[s].status
    <3>1. row[s].status = "annule" /\ cast[s]["not_there_votes"] >= Threshold
      BY <2>2, <1>3 DEF WithdrawnForAReason
    <3>2. cast'[s]["not_there_votes"] >= cast[s]["not_there_votes"]
      BY <1>1, <1>3, <1>5 DEF Kinds
    <3>3. Threshold \in Nat /\ cast[s]["not_there_votes"] \in Nat /\ cast'[s]["not_there_votes"] \in Nat
      BY <1>1, <1>5 DEF Kinds, VotesAssumption
    <3> QED
      BY <3>1, <3>2, <3>3, <2>2
  <2>3. CASE t = s /\ row'[s].status # row[s].status
    <3>1. Enough(r) /\ row'[s].status = "annule"
      BY <2>3, <1>3 DEF Written, NewStatus
    <3>2. Threshold \in Nat /\ cast'[s][k] >= Threshold /\ k = "not_there_votes"
      BY <3>1, <1>1, <1>3, <1>5, <1>6 DEF Enough, NewCount, VotesAssumption
    <3> QED
      BY <3>1, <3>2, <2>3
  <2> QED
    BY <2>1, <2>2, <2>3
<1> QED
  BY <1>4, <1>9, <1>10, <1>12, <1>13, <1>14, <1>15

\* The other steps leave the tally of the votes, but for the group that ends.
LEMMA OthersKeepTally ==
  ASSUME VotesTypeOK,
         \/ UNCHANGED tally
         \/ /\ UNCHANGED <<cast, rounds>>
            /\ \E r \in Requests : req[r].pc = "vote" /\ Answer(r)
                 /\ EndOfGroup(r, counted[req[r].report][req[r].kind])
  PROVE  /\ cast' = cast /\ rounds' = rounds
         /\ counted' \in [Reports -> [Kinds -> BOOLEAN]]
         /\ \A q \in Requests : req'[q].pc = "vote" /\ req'[q] = req[q] =>
              counted'[req[q].report][req[q].kind] = counted[req[q].report][req[q].kind]
<1>1. CASE UNCHANGED tally
  BY <1>1 DEF tally, VotesTypeOK
<1>2. CASE /\ UNCHANGED <<cast, rounds>>
           /\ \E r \in Requests : req[r].pc = "vote" /\ Answer(r)
                /\ EndOfGroup(r, counted[req[r].report][req[r].kind])
  <2>1. PICK r \in Requests : req[r].pc = "vote" /\ Answer(r)
                /\ EndOfGroup(r, counted[req[r].report][req[r].kind])
    BY <1>2
  <2> DEFINE s == req[r].report
             k == req[r].kind
  <2>2. s \in Reports /\ k \in Kinds
    BY <2>1, IdleIsIdle, RequestsAreTyped
  <2>3. counted[s][k] \in BOOLEAN /\ OthersVote(r) \in BOOLEAN
    BY <2>2 DEF VotesTypeOK, OthersVote
  <2>4. counted' = [counted EXCEPT ![s][k] = counted[s][k] /\ OthersVote(r)]
    BY <2>1 DEF EndOfGroup
  <2>5. counted' \in [Reports -> [Kinds -> BOOLEAN]]
    BY <2>2, <2>3, <2>4 DEF VotesTypeOK
  <2>6. ASSUME NEW q \in Requests, req'[q].pc = "vote", req'[q] = req[q]
        PROVE  counted'[req[q].report][req[q].kind] = counted[req[q].report][req[q].kind]
    <3>1. req[q].report \in Reports /\ req[q].kind \in Kinds
      BY <2>6, IdleIsIdle, RequestsAreTyped
    <3>2. CASE req[q].report = s /\ req[q].kind = k
      <4>1. OthersVote(r) = TRUE
        BY <2>1, <2>6, <3>2, <2>3, VoteLeaves
      <4> QED
        BY <4>1, <3>2, <2>2, <2>3, <2>4 DEF VotesTypeOK
    <3>3. CASE ~(req[q].report = s /\ req[q].kind = k)
      BY <3>1, <3>3, <2>2, <2>4 DEF VotesTypeOK
    <3> QED
      BY <3>2, <3>3
  <2> QED
    BY <1>2, <2>5, <2>6
<1> QED
  BY <1>1, <1>2

\* A step that casts no vote: every request is the same as before, or idle, or
\* has just read its row, and every row keeps its counters or is new, and a
\* withdrawn one stays so and has a reason.
Reads(q) ==
  /\ Exists(req'[q].report)
  /\ req'[q].read = row[req'[q].report] /\ row' = row
  /\ UNCHANGED tally

KeepsRow(s) ==
  \/ row'[s] = row[s]
  \/ row'[s] = Deleted /\ row[s] # NotYet
  \/ row[s] = NotYet /\ row'[s] = New
  \/ /\ row[s] \in Row /\ row'[s] \in Row
     /\ row'[s].count = row[s].count
     /\ row'[s].status \in Withdrawn /\ row'[s].moderation # "none"

LEMMA OthersKeep ==
  ASSUME VotesAssumption, VotesInv, VotesTypeOK',
         \A q \in Requests : req'[q] = Idle \/ req'[q] = req[q] \/ Reads(q),
         \A s \in Reports : KeepsRow(s),
         cast' = cast, rounds' = rounds,
         \A q \in Requests : req'[q].pc = "vote" /\ req'[q] = req[q] =>
           counted'[req[q].report][req[q].kind] = counted[req[q].report][req[q].kind]
  PROVE  VotesInv'
<1> USE DEF VotesInv
<1>1. ASSUME NEW s \in Reports
      PROVE  /\ row[s] \in Row \union {NotYet, Deleted}
             /\ row'[s] \in Row \union {NotYet, Deleted}
             /\ \A k \in Kinds : rounds[s][k] \in Nat /\ cast[s][k] \in Nat
  BY DEF VotesTypeOK
<1>2. ASSUME NEW s \in Reports, row'[s] \in Row
      PROVE  \/ row[s] = NotYet /\ row'[s] = New
             \/ row[s] \in Row /\ row'[s].count = row[s].count
  BY <1>1, <1>2, RowsAreRows DEF KeepsRow
<1>3. ASSUME NEW s \in Reports
      PROVE  Exists(s)' <=> row'[s] \in Row
  BY <1>1, RowsAreRows DEF Exists
<1>4. ASSUME NEW s \in Reports
      PROVE  Exists(s) <=> row[s] \in Row
  BY <1>1, RowsAreRows DEF Exists
<1>5. EveryRoundCounts'
  <2> SUFFICES ASSUME NEW s \in Reports, NEW k \in Kinds, row'[s] \in Row
               PROVE  rounds[s][k] <= row'[s].count[k] /\ row'[s].count[k] <= cast[s][k]
    BY <1>3 DEF EveryRoundCounts
  <2>1. CASE row[s] = NotYet /\ row'[s] = New
    BY <2>1, <1>1 DEF NothingYet, New
  <2>2. CASE row[s] \in Row /\ row'[s].count = row[s].count
    BY <2>2, <1>4 DEF EveryRoundCounts
  <2> QED
    BY <2>1, <2>2, <1>2
<1>6. VotesSawRounds'
  <2> SUFFICES ASSUME NEW q \in Requests, req'[q].pc = "vote",
                      row'[req'[q].report].status \in Statuses,
                      NEW t, NEW l, t = req'[q].report, l = req'[q].kind
               PROVE  /\ Before(t, l)' <= req'[q].read.count[l]
                      /\ req'[q].read.count[l] <= cast'[t][l]
    BY DEF VotesSawRounds, Before, Exists
  <2>1. req'[q] # Idle
    BY DEF Idle
  <2>2. t \in Reports /\ l \in Kinds /\ req'[q].read \in Row
    BY <2>1 DEF VotesTypeOK, Request
  <2>3. CASE req'[q] = req[q]
    <3>1. row[t] # NotYet /\ row'[t] \in Row
      BY <2>1, <2>2, <2>3, <1>3 DEF WithdrawnIsKept, Exists
    <3>2. Exists(t)
      BY <3>1, <2>2, <1>2, <1>4
    <3>3. Before(t, l)' = Before(t, l)
      BY <2>3 DEF Before
    <3> QED
      BY <3>2, <3>3, <2>3 DEF VotesSawRounds
  <2>4. CASE Reads(q)
    <3>1. rounds[t][l] <= row[t].count[l] /\ row[t].count[l] <= cast[t][l]
      BY <2>2, <2>4 DEF EveryRoundCounts, Reads
    <3>2. row[t].count[l] \in Nat /\ rounds[t][l] \in Nat /\ counted'[t][l] \in BOOLEAN
      BY <2>2, <2>4, <1>1 DEF Reads, Row, VotesTypeOK
    <3>3. Before(t, l)' <= rounds[t][l] /\ Before(t, l)' \in Int
      BY <3>2 DEF Before
    <3> QED
      BY <3>1, <3>2, <3>3, <2>4 DEF Reads
  <2> QED
    BY <2>1, <2>3, <2>4
<1>7. WithdrawnIsKept'
  <2> SUFFICES ASSUME NEW q \in Requests, req'[q] # Idle,
                      NEW t, t = req'[q].report
               PROVE  /\ row'[t] # NotYet
                      /\ req'[q].read.status \in Withdrawn => row'[t].status # "actif"
    BY DEF WithdrawnIsKept
  <2>1. t \in Reports
    BY DEF VotesTypeOK, Request
  <2>2. CASE req'[q] = req[q]
    <3>1. /\ row[t] # NotYet
          /\ req'[q].read.status \in Withdrawn => row[t].status # "actif"
      BY <2>2 DEF WithdrawnIsKept
    <3>2. \/ row'[t] = row[t]
          \/ row'[t] = Deleted
          \/ row'[t] \in Row /\ row'[t].status \in Withdrawn
      BY <2>1, <3>1 DEF KeepsRow
    <3>3. Deleted # NotYet /\ Deleted.status # "actif" /\ "actif" \notin Withdrawn
      BY DEF Deleted, NotYet, Withdrawn
    <3> QED
      BY <3>1, <3>2, <3>3, <1>1, <2>1, RowsAreRows
  <2>3. CASE Reads(q)
    BY <2>1, <2>3, <1>4, RowsAreRows DEF Reads, Withdrawn
  <2> QED
    BY <2>2, <2>3
<1>8. NothingYet'
  <2>1. NotYet # Deleted /\ NotYet # New
    BY DEF NotYet, Deleted, New
  <2>2. \A s \in Reports : row'[s] = NotYet => row[s] = NotYet
    BY <2>1, <1>1, RowsAreRows DEF KeepsRow
  <2> QED
    BY <2>2 DEF NothingYet
<1>9. CountWithdraws'
  <2> SUFFICES ASSUME NEW s \in Reports, row'[s] \in Row,
                      row'[s].count["not_there_votes"] >= Threshold
               PROVE  row'[s].status \in Withdrawn
    BY <1>3 DEF CountWithdraws
  <2>1. row[s] # NotYet \/ row'[s] # New
    BY DEF New, Kinds, VotesAssumption
  <2>2. row[s] \in Row /\ row'[s].count = row[s].count
    BY <2>1, <1>2
  <2>3. row[s].status \in Withdrawn
    BY <2>2, <1>4 DEF CountWithdraws
  <2>4. row'[s] = row[s] \/ row'[s].status \in Withdrawn
    BY <2>2, RowsAreRows DEF KeepsRow
  <2> QED
    BY <2>3, <2>4
<1>10. WithdrawnForAReason'
  <2> SUFFICES ASSUME NEW s \in Reports, row'[s].status \in Withdrawn,
                      row'[s].moderation = "none"
               PROVE  /\ row'[s].status = "annule"
                      /\ cast[s]["not_there_votes"] >= Threshold
    BY DEF WithdrawnForAReason
  <2>1. row'[s] = row[s]
    BY DEF KeepsRow, New, Deleted, Withdrawn
  <2> QED
    BY <2>1 DEF WithdrawnForAReason
<1> QED
  BY <1>5, <1>6, <1>7, <1>8, <1>9, <1>10

-----------------------------------------------------------------------------
LEMMA AnswerOnly ==
  ASSUME VotesTypeOK, NEW r \in Requests, Answer(r)
  PROVE  \A q \in Requests : req'[q] = Idle \/ req'[q] = req[q]
BY AnswerKeepsOthers

LEMMA CreateKeeps ==
  ASSUME VotesAssumption, VotesInv, NEW s \in Reports, Create(s)
  PROVE  VotesInv'
<1> USE DEF VotesInv
<1>1. VotesTypeOK'
  BY NewIsARow DEF Create, VotesTypeOK, tally
<1>2. \A t \in Reports : KeepsRow(t)
  BY DEF Create, KeepsRow, VotesTypeOK
<1>3. UNCHANGED tally /\ req' = req
  BY DEF Create
<1> QED
  BY <1>1, <1>2, <1>3, OthersKeep, OthersKeepTally

LEMMA ReadKeeps ==
  ASSUME VotesAssumption, VotesInv, NEW r \in Requests, NEW s \in Reports,
         NEW pc \in {"vote", "moderate", "delete"}, NEW k \in Kinds,
         NEW d \in Withdrawn, Read(r, s, pc, k, d)
  PROVE  VotesInv'
<1> USE DEF VotesInv
<1> DEFINE new == [pc |-> pc, report |-> s, read |-> row[s], kind |-> k, decision |-> d]
<1>1. row[s] \in Row
  BY RowsAreRows DEF Read, Exists, VotesTypeOK
<1>2. new \in Request /\ new.report = s /\ new.read = row[s]
  BY <1>1 DEF Request
<1>3. req' = [req EXCEPT ![r] = new] /\ UNCHANGED <<row, tally>> /\ left' = left - 1
      /\ left > 0
  BY DEF Read
<1> HIDE DEF new
<1>4. VotesTypeOK'
  BY <1>2, <1>3 DEF VotesTypeOK, tally
<1>5. \A q \in Requests : req'[q] = req[q] \/ Reads(q)
  <2> SUFFICES ASSUME NEW q \in Requests, q = r PROVE Reads(q)
    BY <1>3 DEF VotesTypeOK
  <2>1. req'[q] = new
    BY <1>3 DEF VotesTypeOK
  <2> QED
    BY <2>1, <1>2, <1>3 DEF Reads, Read
<1>6. \A t \in Reports : KeepsRow(t)
  BY <1>3 DEF KeepsRow
<1> QED
  BY <1>3, <1>4, <1>5, <1>6, OthersKeep, OthersKeepTally

LEMMA CommitModerationKeeps ==
  ASSUME VotesAssumption, VotesInv, NEW r \in Requests, CommitModeration(r)
  PROVE  VotesInv'
<1> USE DEF VotesInv
<1> DEFINE s == req[r].report
           new == [row[s] EXCEPT
                     !.status = Written(req[r].read.status, req[r].decision, row[s].status),
                     !.moderation = req[r].decision]
<1>1. req[r] # Idle /\ Answer(r) /\ UNCHANGED tally
  BY DEF CommitModeration, Idle
<1>2. /\ s \in Reports /\ req[r].read \in Row /\ req[r].decision \in Withdrawn
      /\ row[s] \in Row /\ Exists(s)
  BY <1>1, RequestsAreTyped, RowsAreRows DEF CommitModeration, Exists
<1>3. row' = [row EXCEPT ![s] = new]
  BY <1>2 DEF CommitModeration, VotesTypeOK, Row
<1>4. req[r].read.status \in Withdrawn => row[s].status \in Withdrawn
  BY <1>1, <1>2 DEF WithdrawnIsKept, Row, Statuses
<1>5. Written(req[r].read.status, req[r].decision, row[s].status) \in Withdrawn
  BY <1>2, <1>4 DEF Written
<1>6. /\ new \in Row /\ new.count = row[s].count
      /\ new.status \in Withdrawn /\ new.moderation # "none"
  BY <1>2, <1>5 DEF Row, Statuses, Withdrawn
<1> HIDE DEF new
<1>7. VotesTypeOK'
  BY <1>1, <1>2, <1>3, <1>6, AnswerKeepsOthers DEF VotesTypeOK, tally, Answer
<1>8. \A t \in Reports : KeepsRow(t)
  BY <1>2, <1>3, <1>6 DEF KeepsRow, VotesTypeOK
<1> QED
  BY <1>1, <1>7, <1>8, AnswerOnly, OthersKeep, OthersKeepTally

LEMMA CommitDeletionKeeps ==
  ASSUME VotesAssumption, VotesInv, NEW r \in Requests, CommitDeletion(r)
  PROVE  VotesInv'
<1> USE DEF VotesInv
<1>1. req[r] # Idle /\ Answer(r) /\ UNCHANGED tally
  BY DEF CommitDeletion, Idle
<1>2. req[r].report \in Reports /\ row[req[r].report] # NotYet
  BY <1>1, RequestsAreTyped DEF WithdrawnIsKept
<1>3. VotesTypeOK'
  BY <1>1, <1>2, AnswerKeepsOthers DEF CommitDeletion, VotesTypeOK, tally, Answer
<1>4. \A t \in Reports : KeepsRow(t)
  BY <1>2 DEF CommitDeletion, KeepsRow, VotesTypeOK
<1> QED
  BY <1>1, <1>3, <1>4, AnswerOnly, OthersKeep, OthersKeepTally

LEMMA FailKeeps ==
  ASSUME VotesAssumption, VotesInv, NEW r \in Requests, Fail(r)
  PROVE  VotesInv'
<1> USE DEF VotesInv
<1>1. \/ UNCHANGED tally
      \/ /\ UNCHANGED <<cast, rounds>>
         /\ \E q \in Requests : req[q].pc = "vote" /\ Answer(q)
              /\ EndOfGroup(q, counted[req[q].report][req[q].kind])
  BY DEF Fail, tally
<1>2. Answer(r) /\ UNCHANGED <<row, cast, rounds>>
  BY DEF Fail
<1>3. /\ counted' \in [Reports -> [Kinds -> BOOLEAN]]
      /\ \A q \in Requests : req'[q].pc = "vote" /\ req'[q] = req[q] =>
           counted'[req[q].report][req[q].kind] = counted[req[q].report][req[q].kind]
  BY <1>1, OthersKeepTally
<1>4. VotesTypeOK'
  BY <1>2, <1>3, AnswerKeepsOthers DEF VotesTypeOK
<1>5. \A t \in Reports : KeepsRow(t)
  BY <1>2 DEF KeepsRow
<1> QED
  BY <1>2, <1>3, <1>4, <1>5, AnswerOnly, OthersKeep

LEMMA StutterKeeps ==
  ASSUME VotesInv, UNCHANGED votesVars PROVE VotesInv'
BY DEF VotesInv, votesVars, tally, VotesTypeOK, EveryRoundCounts, VotesSawRounds,
       WithdrawnIsKept, NothingYet, CountWithdraws, WithdrawnForAReason, Exists,
       Before

LEMMA NextKeeps ==
  ASSUME VotesAssumption, VotesInv, [VotesNext]_votesVars
  PROVE  VotesInv'
<1>1. CASE UNCHANGED votesVars
  BY <1>1, StutterKeeps
<1>2. ASSUME NEW s \in Reports, Create(s) PROVE VotesInv'
  BY <1>2, CreateKeeps
<1>3. ASSUME NEW r \in Requests, NEW s \in Reports,
             ReadForVote(r, s) \/ ReadForModeration(r, s) \/ ReadForDeletion(r, s)
      PROVE  VotesInv'
  <2>1. "annule" \in Withdrawn /\ "confirmations" \in Kinds
    BY DEF Withdrawn, Kinds
  <2> QED
    BY <1>3, <2>1, ReadKeeps DEF ReadForVote, ReadForModeration, ReadForDeletion
<1>4. ASSUME NEW r \in Requests, Commit(r) \/ Fail(r) PROVE VotesInv'
  BY <1>4, CommitVoteKeeps, CommitModerationKeeps, CommitDeletionKeeps, FailKeeps
     DEF Commit
<1> QED
  BY <1>1, <1>2, <1>3, <1>4 DEF VotesNext

LEMMA InvHolds == VotesSpec => []VotesInv
<1>1. VotesInit => VotesInv
  BY VotesAssumption, InitHolds
<1>2. VotesInv /\ [VotesNext]_votesVars => VotesInv'
  BY VotesAssumption, NextKeeps
<1> QED
  BY <1>1, <1>2, PTL DEF VotesSpec

(***************************************************************************)
(* The theorems.                                                           *)
(***************************************************************************)
\* The rows, requests and tallies of the votes keep their types.
THEOREM VotesTypeCorrect == VotesSpec => []VotesTypeOK
BY InvHolds, PTL DEF VotesInv

\* The two counters of a report: however votes overlap and whichever of them
\* fail, at least one counts of each group, and no more than were committed.
THEOREM RoundsCount == VotesSpec => []EveryRoundCounts
BY InvHolds, PTL DEF VotesInv

\* signalements.py:107: as many votes as the threshold, one after the other,
\* take the report off the map, whatever overlaps with them.
THEOREM RoundsWithdraw == VotesSpec => []EnoughRoundsWithdraw
<1>1. VotesInv => EnoughRoundsWithdraw
  <2> SUFFICES ASSUME VotesInv, NEW s \in Reports, Exists(s),
                      rounds[s]["not_there_votes"] >= Threshold
               PROVE  row[s].status \in Withdrawn
    BY DEF EnoughRoundsWithdraw
  <2> DEFINE k == "not_there_votes"
  <2>1. k \in Kinds
    BY DEF Kinds
  <2>2. rounds[s][k] \in Nat /\ row[s].count[k] \in Nat /\ Threshold \in Nat
    BY <2>1, RowsAreRows, VotesAssumption
       DEF VotesInv, VotesTypeOK, Exists, Row, VotesAssumption
  <2>3. rounds[s][k] <= row[s].count[k]
    BY <2>1 DEF VotesInv, EveryRoundCounts
  <2> QED
    BY <2>2, <2>3 DEF VotesInv, CountWithdraws
<1> QED
  BY <1>1, InvHolds, PTL

\* A report nobody moderated is off the map only if enough people voted so.
THEOREM ReasonsAreGiven == VotesSpec => []WithdrawnForAReason
BY InvHolds, PTL DEF VotesInv

\* No vote or decision that read a row before brings a withdrawn report back to
\* the map, or a deleted one back to the table.
THEOREM WithdrawnForGood == VotesSpec => OffTheMapForGood
<1> DEFINE Keeps(s) ==
      /\ row[s].status \in Withdrawn => row'[s].status \in Withdrawn \union {"deleted"}
      /\ row[s] = Deleted => row'[s] = Deleted
<1>1. VotesInv /\ VotesInv' /\ [VotesNext]_votesVars => [\A s \in Reports : Keeps(s)]_row
  <2> SUFFICES ASSUME VotesInv, VotesInv', [VotesNext]_votesVars, row' # row,
                      NEW s \in Reports
               PROVE  Keeps(s)
    OBVIOUS
  <2> USE DEF VotesInv
  <2>1. row[s] \in Row \union {NotYet, Deleted} /\ ~(Deleted.status \in Statuses)
        /\ ~(NotYet.status \in Withdrawn) /\ NotYet # Deleted
    BY DEF VotesTypeOK, Deleted, NotYet, Statuses, Withdrawn
  <2>2. CASE \E t \in Reports : Create(t)
    BY <2>1, <2>2 DEF Create, VotesTypeOK
  <2>3. ASSUME NEW r \in Requests, CommitVote(r) PROVE Keeps(s)
    <3>1. req[r] # Idle /\ row[req[r].report] \in Row
          /\ row'[req[r].report].status
               = Written(req[r].read.status, NewStatus(r), row[req[r].report].status)
          /\ (s # req[r].report => row'[s] = row[s])
      BY <2>3, CommittedVote
    <3>2. req[r].read.status \in Statuses /\ row[req[r].report].status \in Statuses
      BY <3>1, RequestsAreTyped DEF Row
    <3>3. req[r].read.status \in Withdrawn => row[req[r].report].status \in Withdrawn
      BY <3>1, <3>2 DEF WithdrawnIsKept, Statuses
    <3>4. row[req[r].report].status \in Withdrawn => row'[req[r].report].status \in Withdrawn
      BY <3>1, <3>3 DEF Written, NewStatus, Withdrawn
    <3> QED
      BY <3>1, <3>4, RowsAreRows
  <2>4. ASSUME NEW r \in Requests, CommitModeration(r) PROVE Keeps(s)
    <3>1. req[r] # Idle /\ Exists(req[r].report)
      BY <2>4 DEF CommitModeration, Idle
    <3>2. /\ req[r].report \in Reports /\ req[r].read \in Row
          /\ req[r].decision \in Withdrawn /\ row[req[r].report] \in Row
      BY <3>1, RequestsAreTyped, RowsAreRows DEF Exists
    <3>3. row'[req[r].report].status
            = Written(req[r].read.status, req[r].decision, row[req[r].report].status)
          /\ (s # req[r].report => row'[s] = row[s])
      BY <2>4, <3>2 DEF CommitModeration, VotesTypeOK, Row
    <3>4. row[req[r].report].status \in Withdrawn => row'[req[r].report].status \in Withdrawn
      BY <3>2, <3>3 DEF Written
    <3> QED
      BY <3>2, <3>3, <3>4, RowsAreRows
  <2>5. ASSUME NEW r \in Requests, CommitDeletion(r) PROVE Keeps(s)
    BY <2>5, <2>1 DEF CommitDeletion, VotesTypeOK, Deleted
  <2> QED
    BY <2>2, <2>3, <2>4, <2>5
       DEF VotesNext, votesVars, ReadForVote, ReadForModeration, ReadForDeletion,
           Read, Commit, Fail
<1> QED
  BY <1>1, InvHolds, PTL DEF VotesSpec, OffTheMapForGood
-----------------------------------------------------------------------------
SettingsRequest == ConfigRequest \union ReasonRequest \union {Waiting}

(***************************************************************************)
(* Requests.                                                               *)
(***************************************************************************)
LEMMA RequestKinds ==
  ASSUME NEW w \in SettingsRequest
  PROVE  /\ w.pc \in {"create", "refresh", "write"} => w \in ConfigRequest
         /\ w.pc = "insert" => w \in ReasonRequest
         /\ w = Waiting => w.pc = "waiting"
BY DEF SettingsRequest, ConfigRequest, ReasonRequest, Waiting

LEMMA ConfigFields ==
  ASSUME NEW w \in ConfigRequest
  PROVE  /\ w.held \in Radii \union {Default, NoRow}
         /\ w.n \in Nat /\ w.before \in SUBSET Nat
         /\ \A pc \in {"create", "refresh", "write"},
               held \in Radii \union {Default, NoRow} :
              [pc |-> pc, held |-> held, n |-> w.n, before |-> w.before] \in ConfigRequest
BY DEF ConfigRequest

\* A request goes on; the others stay where they are.
LEMMA GoesOn ==
  ASSUME SettingsTypeOK, NEW q \in Clients, NEW work \in SettingsRequest, GoOn(q, work)
  PROVE  /\ client' \in [Clients -> SettingsRequest]
         /\ client'[q] = work
         /\ \A p \in Clients : p # q => client'[p] = client[p]
BY DEF SettingsTypeOK, GoOn, SettingsRequest

\* What GetRadius and PutRadius make of a request.
LEMMA AskType ==
  ASSUME SettingsTypeOK, NEW q \in Clients, NEW n \in Nat, Ask(q, n)
  PROVE  LET w == [pc |-> IF radius = NoRow THEN "create" ELSE "write",
                   held |-> radius, n |-> n, before |-> answered]
         IN  w \in ConfigRequest /\ GoOn(q, w)
<1>1. answered \in SUBSET Nat
  BY DEF SettingsTypeOK
<1> QED
  BY <1>1 DEF Ask, SettingsTypeOK, ConfigRequest

LEMMA TypeInit ==
  ASSUME SettingsAssumption, SettingsInit
  PROVE  SettingsTypeOK
<1>1. put \in Seq(Radii) /\ answered \subseteq DOMAIN put
  BY DEF SettingsInit
<1>2. quota \in [{"requests", "starts"} -> Nat]
  BY DEF SettingsAssumption, SettingsInit
<1> QED
  BY <1>1, <1>2 DEF SettingsInit, SettingsTypeOK

LEMMA SpendType ==
  ASSUME SettingsTypeOK, NEW kind \in {"requests", "starts"}, Spend(kind)
  PROVE  quota' \in [{"requests", "starts"} -> Nat]
BY DEF SettingsTypeOK, Spend

\* A PUT is the last one, and is not answered yet.
LEMMA NewPut ==
  ASSUME SettingsTypeOK, NEW v \in Radii, put' = Append(put, v)
  PROVE  /\ put' \in Seq(Radii)
         /\ Len(put) \in Nat /\ DOMAIN put = 1..Len(put)
         /\ DOMAIN put' = DOMAIN put \union {Len(put) + 1}
         /\ Len(put) + 1 \notin DOMAIN put
         /\ \A n \in DOMAIN put : put'[n] = put[n]
BY DEF SettingsTypeOK

\* Finitely many are past the check of a code.
LEMMA InsertingIsFinite ==
  ASSUME SettingsAssumption, NEW c
  PROVE  /\ IsFiniteSet(Inserting(c)) /\ IsFiniteSet(Inserting(c)')
         /\ Cardinality(Clients) \in Nat /\ Cardinality(Clients) >= 1
         /\ Cardinality(Inserting(c)) \in Nat /\ Cardinality(Inserting(c)') \in Nat
         /\ Cardinality(Inserting(c)') <= Cardinality(Clients)
<1>1. Inserting(c) \subseteq Clients /\ Inserting(c)' \subseteq Clients
  BY DEF Inserting
<1>2. Cardinality(Clients) # 0
  BY FS_EmptySet DEF SettingsAssumption
<1> QED
  BY <1>1, <1>2, FS_Subset, FS_CardinalityType DEF SettingsAssumption

LEMMA TypeStep ==
  ASSUME SettingsAssumption, SettingsTypeOK, PutsInOrder, SettingsNext
  PROVE  SettingsTypeOK'
<1> USE DEF SettingsTypeOK
<1>1. CASE Start
  BY <1>1, SpendType DEF Start
<1>2. CASE Stop
  BY <1>2 DEF Stop
<1>3. ASSUME NEW q \in Clients, GetRadius(q)
      PROVE  SettingsTypeOK'
  <2>1. quota' \in [{"requests", "starts"} -> Nat]
    BY <1>3, SpendType DEF GetRadius, Ready
  <2>2. client' \in [Clients -> SettingsRequest]
    BY <1>3, AskType, GoesOn DEF GetRadius, SettingsRequest
  <2> QED
    BY <1>3, <2>1, <2>2 DEF GetRadius, SettingsRequest
<1>4. ASSUME NEW q \in Clients, NEW v \in Radii, PutRadius(q, v)
      PROVE  SettingsTypeOK'
  <2>1. quota' \in [{"requests", "starts"} -> Nat]
    BY <1>4, SpendType DEF PutRadius, Ready
  <2>2. client' \in [Clients -> SettingsRequest]
    <3>1. Len(put) + 1 \in Nat /\ Ask(q, Len(put) + 1)
      BY <1>4 DEF PutRadius
    <3> QED
      BY <3>1, AskType, GoesOn DEF SettingsRequest
  <2>3. put' \in Seq(Radii) /\ answered' \subseteq DOMAIN put'
    BY <1>4, NewPut DEF PutRadius
  <2> QED
    BY <1>4, <2>1, <2>2, <2>3 DEF PutRadius, SettingsRequest
<1>5. ASSUME NEW q \in Clients, CreateRow(q)
      PROVE  SettingsTypeOK'
  <2>1. client[q] \in ConfigRequest
    BY <1>5, RequestKinds DEF CreateRow, SettingsRequest
  <2>2. [client[q] EXCEPT !.pc = "refresh"] \in SettingsRequest
    BY <2>1 DEF ConfigRequest, SettingsRequest
  <2>3. client' \in [Clients -> SettingsRequest]
    BY <1>5, <2>2, GoesOn DEF CreateRow
  <2> QED
    BY <1>5, <2>3 DEF CreateRow, SettingsRequest
<1>6. ASSUME NEW q \in Clients, Refresh(q)
      PROVE  SettingsTypeOK'
  <2>1. client[q] \in ConfigRequest
    BY <1>6, RequestKinds DEF Refresh, SettingsRequest
  <2>2. /\ [client[q] EXCEPT !.pc = "write", !.held = radius] \in SettingsRequest
        /\ Waiting \in SettingsRequest
    BY <2>1 DEF ConfigRequest, SettingsRequest
  <2>3. client' \in [Clients -> SettingsRequest]
    BY <1>6, <2>2, GoesOn DEF Refresh
  <2> QED
    BY <1>6, <2>3 DEF Refresh, SettingsRequest
<1>7. ASSUME NEW q \in Clients, NEW c \in Codes, PostReason(q, c)
      PROVE  SettingsTypeOK'
  <2>1. quota' \in [{"requests", "starts"} -> Nat]
    BY <1>7, SpendType DEF PostReason, Ready
  <2>2. client' \in [Clients -> SettingsRequest]
    BY <1>7, GoesOn DEF PostReason, SettingsRequest, ReasonRequest
  <2> QED
    BY <1>7, <2>1, <2>2 DEF PostReason, SettingsRequest
<1>8. ASSUME NEW q \in Clients, InsertReason(q)
      PROVE  SettingsTypeOK'
  <2>1. client' \in [Clients -> SettingsRequest]
    BY <1>8, GoesOn DEF InsertReason, SettingsRequest
  <2>2. client[q].code \in Codes
    BY <1>8, RequestKinds DEF InsertReason, SettingsRequest, ReasonRequest
  <2>3. reasons' \in [Codes -> Nat]
    BY <1>8, <2>2 DEF InsertReason
  <2>4. racers' \in [Codes -> Nat]
    BY <1>8, <2>2, InsertingIsFinite DEF InsertReason
  <2> QED
    BY <1>8, <2>1, <2>3, <2>4 DEF InsertReason, SettingsRequest
<1>9. ASSUME NEW q \in Clients, FailSetting(q)
      PROVE  SettingsTypeOK'
  <2>1. client' \in [Clients -> SettingsRequest]
    BY <1>9, GoesOn DEF FailSetting, SettingsRequest
  <2> QED
    BY <1>9, <2>1 DEF FailSetting, SettingsRequest
<1>10. ASSUME NEW q \in Clients, WriteRadius(q)
       PROVE  SettingsTypeOK'
  <2>1. client[q].n \in DOMAIN put
    BY <1>10 DEF WriteRadius, PutsInOrder, Putting, Configuring
  <2>2. put[client[q].n] \in Radii
    BY <2>1
  <2>3. client' \in [Clients -> SettingsRequest]
    BY <1>10, GoesOn DEF WriteRadius, SettingsRequest
  <2>4. radius' \in Radii \union {Default, NoRow}
    BY <1>10, <2>2 DEF WriteRadius
  <2>5. client[q].before \subseteq answered
    BY <1>10 DEF WriteRadius, PutsInOrder, Configuring
  <2>6. /\ answered' \subseteq DOMAIN put
        /\ superseded' \subseteq answered'
    BY <1>10, <2>1, <2>5 DEF WriteRadius
  <2> QED
    BY <1>10, <2>3, <2>4, <2>6 DEF WriteRadius, SettingsRequest
<1> QED
  BY <1>1, <1>2, <1>3, <1>4, <1>5, <1>6, <1>7, <1>8, <1>9, <1>10 DEF SettingsNext

(***************************************************************************)
(* Reasons: seeds are unique, and only racers repeat another code.         *)
(***************************************************************************)
\* A request that goes on, but not to an insert.
LEMMA NoNewInsert ==
  ASSUME SettingsTypeOK, NEW q \in Clients, NEW work \in SettingsRequest, GoOn(q, work),
         work.pc # "insert", NEW c
  PROVE  Inserting(c)' = Inserting(c) \ {q}
BY GoesOn DEF Inserting

\* What a step does to the table of reasons and to what is about to go in.
LEMMA ReasonSteps ==
  ASSUME SettingsTypeOK, SettingsNext
  PROVE  \/ Start \/ Stop
         \/ \E q \in Clients : InsertReason(q)
         \/ \E q \in Clients, c \in Codes : PostReason(q, c)
         \/ /\ UNCHANGED <<up, reasons, racers>>
            /\ \E q \in Clients : \A c : Inserting(c)' = Inserting(c) \ {q}
<1> DEFINE Other ==
      /\ UNCHANGED <<up, reasons, racers>>
      /\ \E q \in Clients : \A c : Inserting(c)' = Inserting(c) \ {q}
<1>1. ASSUME NEW q \in Clients, NEW work \in SettingsRequest, GoOn(q, work),
             work.pc # "insert", UNCHANGED <<up, reasons, racers>>
      PROVE  Other
  BY <1>1, NoNewInsert
<1>2. ASSUME NEW q \in Clients, NEW n \in Nat, Ask(q, n), UNCHANGED <<up, reasons, racers>>
      PROVE  Other
  <2> DEFINE w == [pc |-> IF radius = NoRow THEN "create" ELSE "write",
                   held |-> radius, n |-> n, before |-> answered]
  <2>1. w \in SettingsRequest /\ GoOn(q, w)
    BY <1>2, AskType DEF SettingsRequest
  <2>2. w.pc # "insert"
    OBVIOUS
  <2> HIDE DEF w
  <2> QED
    BY <1>1, <1>2, <2>1, <2>2
<1>3. ASSUME NEW q \in Clients, GetRadius(q)
      PROVE  Other
  BY <1>2, <1>3 DEF GetRadius
<1>4. ASSUME NEW q \in Clients, NEW v \in Radii, PutRadius(q, v)
      PROVE  Other
  <2>1. Len(put) + 1 \in Nat
    BY DEF SettingsTypeOK
  <2> QED
    BY <1>2, <1>4, <2>1 DEF PutRadius
<1>5. ASSUME NEW q \in Clients, CreateRow(q)
      PROVE  Other
  <2>1. client[q] \in ConfigRequest
    BY <1>5, RequestKinds DEF CreateRow, SettingsRequest, SettingsTypeOK
  <2>2. [client[q] EXCEPT !.pc = "refresh"] \in SettingsRequest
    BY <2>1 DEF ConfigRequest, SettingsRequest
  <2>3. [client[q] EXCEPT !.pc = "refresh"].pc = "refresh"
    BY <2>1 DEF ConfigRequest
  <2> QED
    BY <1>1, <1>5, <2>2, <2>3 DEF CreateRow
<1>6. Waiting \in SettingsRequest /\ Waiting.pc # "insert"
  BY DEF Waiting, SettingsRequest
<1>7. ASSUME NEW q \in Clients, Refresh(q)
      PROVE  Other
  <2> DEFINE w == [client[q] EXCEPT !.pc = "write", !.held = radius]
  <2>1. client[q] \in ConfigRequest
    BY <1>7, RequestKinds DEF Refresh, SettingsRequest, SettingsTypeOK
  <2>2. w \in SettingsRequest /\ w.pc = "write"
    BY <2>1 DEF ConfigRequest, SettingsRequest, SettingsTypeOK
  <2>3. GoOn(q, Waiting) \/ GoOn(q, w)
    BY <1>7 DEF Refresh
  <2> HIDE DEF w
  <2> QED
    BY <1>1, <1>6, <1>7, <2>2, <2>3 DEF Refresh
<1>8. ASSUME NEW q \in Clients, WriteRadius(q) \/ FailSetting(q)
      PROVE  Other
  BY <1>1, <1>6, <1>8 DEF WriteRadius, FailSetting
<1> QED
  BY <1>3, <1>4, <1>5, <1>7, <1>8 DEF SettingsNext

LEMMA SeedsStep ==
  ASSUME SettingsTypeOK, SeedsAreUnique, SeedsInPlace, SettingsNext
  PROVE  SeedsAreUnique' /\ SeedsInPlace'
<1> USE DEF SeedsAreUnique, SeedsInPlace
<1>1. CASE Start
  <2>1. \A c : Inserting(c)' = Inserting(c)
    BY <1>1 DEF Start, Inserting
  <2>2. \A c \in Seeds : reasons'[c] = 1
    BY <1>1 DEF Start, Codes
  <2> QED
    BY <2>1, <2>2
<1>2. CASE Stop
  BY <1>2 DEF Stop, Inserting, Waiting
<1>3. ASSUME NEW q \in Clients, InsertReason(q)
      PROVE  SeedsAreUnique' /\ SeedsInPlace'
  <2>1. client[q].code \notin Seeds
    <3> SUFFICES ASSUME client[q].code \in Seeds
                 PROVE  FALSE
      OBVIOUS
    <3>1. q \in Inserting(client[q].code)
      BY <1>3 DEF InsertReason, Inserting
    <3> QED
      BY <3>1
  <2>2. \A c : Inserting(c)' = Inserting(c) \ {q}
    BY <1>3, NoNewInsert DEF InsertReason, Waiting, SettingsRequest
  <2> QED
    BY <1>3, <2>1, <2>2 DEF InsertReason, SettingsTypeOK, Codes
<1>4. ASSUME NEW q \in Clients, NEW c \in Codes, PostReason(q, c)
      PROVE  SeedsAreUnique' /\ SeedsInPlace'
  <2>1. c \notin Seeds
    BY <1>4 DEF PostReason, Ready
  <2>2. [pc |-> "insert", code |-> c] \in SettingsRequest
    BY DEF SettingsRequest, ReasonRequest
  <2>3. \A b \in Seeds : Inserting(b)' = {}
    <3> SUFFICES ASSUME NEW b \in Seeds
                 PROVE  Inserting(b)' \subseteq Inserting(b)
      OBVIOUS
    <3> QED
      BY <1>4, <2>1, <2>2, GoesOn DEF PostReason, Inserting
  <2> QED
    BY <1>4, <2>3 DEF PostReason
<1>5. CASE /\ UNCHANGED <<up, reasons, racers>>
           /\ \E q \in Clients : \A c : Inserting(c)' = Inserting(c) \ {q}
  BY <1>5
<1> QED
  BY <1>1, <1>2, <1>3, <1>4, <1>5, ReasonSteps

LEMMA DuplicatesStep ==
  ASSUME SettingsAssumption, SettingsTypeOK, PutsInOrder, DuplicatesToCome, SettingsNext
  PROVE  DuplicatesToCome'
<1> SUFFICES ASSUME NEW c \in Custom
             PROVE  reasons'[c] = 0 \/ reasons'[c] + Cardinality(Inserting(c)') <= racers'[c]
  BY DEF DuplicatesToCome
<1>0. /\ c \in Codes /\ c \notin Seeds /\ reasons[c] \in Nat /\ racers[c] \in Nat
      /\ reasons[c] = 0 \/ reasons[c] + Cardinality(Inserting(c)) <= racers[c]
  BY DEF SettingsTypeOK, DuplicatesToCome, Codes, SettingsAssumption
<1> USE InsertingIsFinite
<1>1. ASSUME reasons'[c] = reasons[c], racers'[c] = racers[c], Inserting(c)' \subseteq Inserting(c)
      PROVE  reasons'[c] = 0 \/ reasons'[c] + Cardinality(Inserting(c)') <= racers'[c]
  <2>1. Cardinality(Inserting(c)') <= Cardinality(Inserting(c))
    BY <1>1, FS_Subset
  <2> QED
    BY <1>0, <1>1, <2>1
<1>2. CASE Start
  BY <1>0, <1>1, <1>2 DEF Start, PutsInOrder, Inserting, Waiting
<1>3. CASE Stop
  BY <1>1, <1>3 DEF Stop, Inserting, Waiting
<1>4. ASSUME NEW q \in Clients, InsertReason(q)
      PROVE  reasons'[c] = 0 \/ reasons'[c] + Cardinality(Inserting(c)') <= racers'[c]
  <2>1. Inserting(c)' = Inserting(c) \ {q}
    BY <1>4, NoNewInsert DEF InsertReason, Waiting, SettingsRequest
  <2>2. CASE c = client[q].code
    <3>1. q \in Inserting(c)
      BY <1>4, <2>2 DEF InsertReason, Inserting
    <3>2. Cardinality(Inserting(c)') = Cardinality(Inserting(c)) - 1
      BY <2>1, <3>1, FS_RemoveElement
    <3>3. /\ reasons'[c] = reasons[c] + 1
          /\ racers'[c] = IF reasons[c] = 0 THEN Cardinality(Inserting(c)) ELSE racers[c]
      BY <1>0, <1>4, <2>2 DEF InsertReason, SettingsTypeOK
    <3> QED
      BY <1>0, <3>2, <3>3
  <2>3. CASE c # client[q].code
    <3>1. reasons'[c] = reasons[c] /\ racers'[c] = racers[c]
      BY <1>0, <1>4, <2>3 DEF InsertReason, SettingsTypeOK
    <3> QED
      BY <1>1, <2>1, <3>1
  <2> QED
    BY <2>2, <2>3
<1>5. ASSUME NEW q \in Clients, NEW d \in Codes, PostReason(q, d)
      PROVE  reasons'[c] = 0 \/ reasons'[c] + Cardinality(Inserting(c)') <= racers'[c]
  <2>1. CASE c = d
    BY <1>5, <2>1 DEF PostReason
  <2>2. CASE c # d
    <3>1. [pc |-> "insert", code |-> d] \in SettingsRequest
      BY DEF SettingsRequest, ReasonRequest
    <3>2. Inserting(c)' \subseteq Inserting(c)
      BY <1>5, <2>2, <3>1, GoesOn DEF PostReason, Inserting
    <3> QED
      BY <1>1, <1>5, <3>2 DEF PostReason
  <2> QED
    BY <2>1, <2>2
<1>6. CASE /\ UNCHANGED <<up, reasons, racers>>
           /\ \E q \in Clients : \A b : Inserting(b)' = Inserting(b) \ {q}
  BY <1>1, <1>6
<1> QED
  BY <1>2, <1>3, <1>4, <1>5, <1>6, ReasonSteps

(***************************************************************************)
(* The radius: the last PUT stands.                                        *)
(***************************************************************************)
\* A request that goes on with the PUT it has, or with none.
LEMMA SamePuts ==
  ASSUME SettingsTypeOK, PutsInOrder, NEW q \in Clients, NEW work \in SettingsRequest,
         GoOn(q, work), up, up', UNCHANGED <<put, answered>>,
         radius # NoRow => radius' # NoRow,
         \/ work.pc \in {"waiting", "insert"}
         \/ /\ work.pc \in {"create", "refresh", "write"} /\ Configuring(q)
            /\ work.n = client[q].n /\ work.before = client[q].before
            /\ work.pc = "write" => work.n # 0
            /\ work.pc \in {"create", "refresh"} => work.before = {}
            /\ work.pc \in {"refresh", "write"} => radius' # NoRow
  PROVE  PutsInOrder'
<1>1. client'[q] = work /\ \A p \in Clients : p # q => client'[p] = client[p]
  BY GoesOn
<1> QED
  BY <1>1 DEF PutsInOrder, Configuring, Putting

\* A new one: a read of the row, or the PUT after the last.
LEMMA NewRequest ==
  ASSUME SettingsTypeOK, PutsInOrder, NEW q \in Clients, Ready(q), NEW n \in Nat,
         Ask(q, n), up', UNCHANGED <<radius, answered>>,
         radius = NoRow => answered = {},
         DOMAIN put \subseteq DOMAIN put',
         \/ n = 0 /\ radius = NoRow
         \/ n # 0 /\ n \in DOMAIN put' \ DOMAIN put
  PROVE  PutsInOrder'
<1> DEFINE w == [pc |-> IF radius = NoRow THEN "create" ELSE "write",
                 held |-> radius, n |-> n, before |-> answered]
<1>1. GoOn(q, w) /\ w \in SettingsRequest
  BY AskType DEF SettingsRequest
<1>2. /\ w.n = n /\ w.before = answered
      /\ w.pc = "create" <=> radius = NoRow
      /\ w.pc \in {"create", "write"}
  OBVIOUS
<1> HIDE DEF w
<1>3. client'[q] = w /\ \A p \in Clients : p # q => client'[p] = client[p]
  BY <1>1, GoesOn
<1>4. answered \subseteq DOMAIN put
  BY DEF SettingsTypeOK
<1> QED
  BY <1>2, <1>3, <1>4 DEF PutsInOrder, Configuring, Putting

\* Without a row no PUT was answered.
LEMMA RowBeforeAnswers ==
  ASSUME SettingsAssumption, SettingsTypeOK, RadiusHasAuthor, radius = NoRow
  PROVE  NothingPut
<1>1. \A w \in DOMAIN put : put[w] \in Nat
  <2>1. \A w \in DOMAIN put : put[w] \in Radii
    BY DEF SettingsTypeOK
  <2> QED
    BY <2>1 DEF SettingsAssumption
<1> QED
  BY <1>1 DEF RadiusHasAuthor, WrittenBy, NoRow

LEMMA OrderStep ==
  ASSUME SettingsAssumption, SettingsTypeOK, PutsInOrder, RadiusHasAuthor, SettingsNext
  PROVE  PutsInOrder'
<1>0. Waiting \in SettingsRequest /\ Waiting.pc = "waiting"
  BY DEF Waiting, SettingsRequest
<1>1. CASE Start
  BY <1>1 DEF Start, PutsInOrder, Configuring, Putting
<1>2. CASE Stop
  BY <1>2 DEF Stop, PutsInOrder, Configuring, Putting, Waiting
<1>3. ASSUME NEW q \in Clients, GetRadius(q)
      PROVE  PutsInOrder'
  BY <1>3, NewRequest, RowBeforeAnswers DEF GetRadius, Ready, NothingPut
<1>4. ASSUME NEW q \in Clients, NEW v \in Radii, PutRadius(q, v)
      PROVE  PutsInOrder'
  <2>1. /\ Len(put) + 1 \in Nat /\ Len(put) + 1 # 0
        /\ Len(put) + 1 \in DOMAIN put' \ DOMAIN put
        /\ DOMAIN put \subseteq DOMAIN put'
    BY <1>4, NewPut DEF PutRadius
  <2>2. /\ Ready(q) /\ Ask(q, Len(put) + 1)
        /\ up' /\ UNCHANGED <<radius, answered>>
    BY <1>4 DEF PutRadius, Ready
  <2>3. radius = NoRow => answered = {}
    BY RowBeforeAnswers DEF NothingPut
  <2> QED
    BY <2>1, <2>2, <2>3, NewRequest
<1>5. ASSUME NEW q \in Clients, CreateRow(q)
      PROVE  PutsInOrder'
  <2> DEFINE w == [client[q] EXCEPT !.pc = "refresh"]
  <2>1. client[q] \in ConfigRequest
    BY <1>5, RequestKinds DEF CreateRow, SettingsRequest, SettingsTypeOK
  <2>2. /\ w \in SettingsRequest /\ w.pc = "refresh"
        /\ w.n = client[q].n /\ w.before = client[q].before
    BY <2>1 DEF ConfigRequest, SettingsRequest
  <2>3. GoOn(q, w) /\ UNCHANGED <<up, put, answered>> /\ radius' = Default
    BY <1>5 DEF CreateRow
  <2>4. up /\ Configuring(q) /\ client[q].before = {}
    BY <1>5, <1>0 DEF CreateRow, PutsInOrder, Configuring
  <2>5. radius' # NoRow
    BY <2>3 DEF SettingsAssumption, NoRow
  <2> HIDE DEF w
  <2> QED
    BY <2>2, <2>3, <2>4, <2>5, SamePuts
<1>6. ASSUME NEW q \in Clients, Refresh(q)
      PROVE  PutsInOrder'
  <2> DEFINE w == [client[q] EXCEPT !.pc = "write", !.held = radius]
  <2>1. client[q] \in ConfigRequest
    BY <1>6, RequestKinds DEF Refresh, SettingsRequest, SettingsTypeOK
  <2>2. /\ w \in SettingsRequest /\ w.pc = "write"
        /\ w.n = client[q].n /\ w.before = client[q].before
    BY <2>1 DEF ConfigRequest, SettingsRequest, SettingsTypeOK
  <2>3. /\ \/ GoOn(q, Waiting)
           \/ GoOn(q, w) /\ client[q].n # 0
        /\ UNCHANGED <<up, radius, put, answered>>
    BY <1>6 DEF Refresh
  <2>4. up /\ Configuring(q) /\ radius # NoRow
    BY <1>6, <1>0 DEF Refresh, PutsInOrder, Configuring
  <2> HIDE DEF w
  <2> QED
    BY <1>0, <2>2, <2>3, <2>4, SamePuts
<1>7. ASSUME NEW q \in Clients, WriteRadius(q)
      PROVE  PutsInOrder'
  <2>1. /\ up /\ Putting(q) /\ radius # NoRow
        /\ client[q].n \in DOMAIN put
    BY <1>7, <1>0 DEF WriteRadius, PutsInOrder, Configuring, Putting
  <2>2. radius' # NoRow
    BY <1>7, <2>1 DEF WriteRadius, SettingsAssumption, SettingsTypeOK, NoRow
  <2>3. client'[q] = Waiting /\ \A p \in Clients : p # q => client'[p] = client[p]
    BY <1>7, <1>0, GoesOn DEF WriteRadius
  <2>4. /\ answered' = answered \union {client[q].n}
        /\ UNCHANGED <<up, put>>
    BY <1>7 DEF WriteRadius
  <2> QED
    BY <1>0, <2>1, <2>2, <2>3, <2>4 DEF PutsInOrder, Configuring, Putting
<1>8. ASSUME NEW q \in Clients, NEW c \in Codes, PostReason(q, c)
      PROVE  PutsInOrder'
  <2>1. [pc |-> "insert", code |-> c] \in SettingsRequest
    BY DEF SettingsRequest, ReasonRequest
  <2> QED
    BY <1>8, <2>1, SamePuts DEF PostReason, Ready
<1>9. ASSUME NEW q \in Clients, InsertReason(q) \/ FailSetting(q)
      PROVE  PutsInOrder'
  <2>1. up
    BY <1>9, <1>0 DEF InsertReason, FailSetting, PutsInOrder
  <2> QED
    BY <1>0, <1>9, <2>1, SamePuts DEF InsertReason, FailSetting
<1> QED
  BY <1>1, <1>2, <1>3, <1>4, <1>5, <1>6, <1>7, <1>8, <1>9 DEF SettingsNext

\* Whoever writes next has the radius of now, or what it had.
LEMMA AuthorStays ==
  ASSUME SettingsTypeOK, RadiusHasAuthor, UNCHANGED <<radius, answered, superseded>>,
         DOMAIN put \subseteq DOMAIN put', \A n \in DOMAIN put : put'[n] = put[n],
         \A p \in Clients : client'[p].pc = "write" =>
           client'[p] = client[p] \/ client'[p].held = radius
  PROVE  RadiusHasAuthor'
<1>1. CASE NothingPut
  <2>1. NothingPut'
    BY <1>1 DEF NothingPut
  <2> QED
    BY <2>1 DEF RadiusHasAuthor
<1>2. ASSUME NEW w \in DOMAIN put, WrittenBy(w)
      PROVE  RadiusHasAuthor'
  <2>1. WrittenBy(w)'
    BY <1>2 DEF WrittenBy
  <2> QED
    BY <2>1 DEF RadiusHasAuthor
<1> QED
  BY <1>1, <1>2 DEF RadiusHasAuthor

\* A PUT that ends with its radius in the row is the one that stands.
LEMMA NewAuthor ==
  ASSUME SettingsTypeOK, PutsInOrder, NEW q \in Clients, WriteRadius(q),
         NEW n, n = client[q].n, radius' = put[n]
  PROVE  RadiusHasAuthor'
<1>1. n \in DOMAIN put \ answered /\ client[q].before \subseteq answered
  BY DEF WriteRadius, PutsInOrder, Putting, Configuring
<1>2. client'[q] = Waiting /\ \A p \in Clients : p # q => client'[p] = client[p]
  BY GoesOn DEF WriteRadius, SettingsRequest
<1>3. put' = put /\ n \in answered' \ superseded'
  BY <1>1 DEF WriteRadius, SettingsTypeOK
<1>4. \A p \in Clients : client'[p].pc = "write" => n \notin client'[p].before
  BY <1>1, <1>2 DEF PutsInOrder, Configuring, Waiting
<1>5. WrittenBy(n)'
  BY <1>3, <1>4 DEF WrittenBy
<1> QED
  BY <1>1, <1>3, <1>5 DEF RadiusHasAuthor

LEMMA AuthorStep ==
  ASSUME SettingsAssumption, SettingsTypeOK, PutsInOrder, RadiusHasAuthor, SettingsNext
  PROVE  RadiusHasAuthor'
<1>0. Waiting \in SettingsRequest /\ Waiting.pc = "waiting"
  BY DEF Waiting, SettingsRequest
<1>1. CASE Start
  <2>1. UNCHANGED <<radius, client, put, answered, superseded>>
    BY <1>1 DEF Start
  <2> QED
    BY <2>1, AuthorStays
<1>2. CASE Stop
  <2>1. /\ UNCHANGED <<radius, put, answered, superseded>>
        /\ \A p \in Clients : client'[p].pc = "waiting"
    BY <1>0, <1>2 DEF Stop
  <2> QED
    BY <2>1, AuthorStays
<1>3. ASSUME NEW q \in Clients, NEW work \in SettingsRequest, GoOn(q, work),
             work.pc = "write" => work.held = radius,
             UNCHANGED <<radius, put, answered, superseded>>
      PROVE  RadiusHasAuthor'
  BY <1>3, GoesOn, AuthorStays
<1>4. ASSUME NEW q \in Clients, GetRadius(q)
      PROVE  RadiusHasAuthor'
  <2>1. Ask(q, 0)
    BY <1>4 DEF GetRadius
  <2> QED
    BY <1>3, <1>4, <2>1, AskType DEF GetRadius, SettingsRequest
<1>5. ASSUME NEW q \in Clients, NEW v \in Radii, PutRadius(q, v)
      PROVE  RadiusHasAuthor'
  <2> DEFINE w == [pc |-> IF radius = NoRow THEN "create" ELSE "write",
                   held |-> radius, n |-> Len(put) + 1, before |-> answered]
  <2>1. Len(put) + 1 \in Nat /\ Ask(q, Len(put) + 1)
    BY <1>5 DEF PutRadius, SettingsTypeOK
  <2>2. w \in SettingsRequest /\ GoOn(q, w)
    BY <2>1, AskType DEF SettingsRequest
  <2>3. w.held = radius
    OBVIOUS
  <2> HIDE DEF w
  <2>4. client'[q] = w /\ \A p \in Clients : p # q => client'[p] = client[p]
    BY <2>2, GoesOn
  <2>5. /\ DOMAIN put \subseteq DOMAIN put'
        /\ \A n \in DOMAIN put : put'[n] = put[n]
    BY <1>5, NewPut DEF PutRadius
  <2> QED
    BY <1>5, <2>3, <2>4, <2>5, AuthorStays DEF PutRadius
<1>6. ASSUME NEW q \in Clients, CreateRow(q)
      PROVE  RadiusHasAuthor'
  <2> DEFINE w == [client[q] EXCEPT !.pc = "refresh"]
  <2>1. client[q] \in ConfigRequest
    BY <1>6, RequestKinds DEF CreateRow, SettingsRequest, SettingsTypeOK
  <2>2. w \in SettingsRequest /\ w.pc = "refresh"
    BY <2>1 DEF ConfigRequest, SettingsRequest
  <2>3. GoOn(q, w)
    BY <1>6 DEF CreateRow
  <2> HIDE DEF w
  <2>4. client'[q] = w /\ \A p \in Clients : p # q => client'[p] = client[p]
    BY <2>2, <2>3, GoesOn
  <2>5. \A p \in Clients : client[p].pc # "write"
    BY <1>6 DEF CreateRow, PutsInOrder, Configuring
  <2>6. NothingPut'
    BY <1>6, <2>2, <2>4, <2>5, RowBeforeAnswers DEF CreateRow, NothingPut
  <2> QED
    BY <2>6 DEF RadiusHasAuthor
<1>7. ASSUME NEW q \in Clients, Refresh(q)
      PROVE  RadiusHasAuthor'
  <2> DEFINE w == [client[q] EXCEPT !.pc = "write", !.held = radius]
  <2>1. client[q] \in ConfigRequest
    BY <1>7, RequestKinds DEF Refresh, SettingsRequest, SettingsTypeOK
  <2>2. w \in SettingsRequest /\ w.held = radius
    BY <2>1 DEF ConfigRequest, SettingsRequest, SettingsTypeOK
  <2>3. GoOn(q, Waiting) \/ GoOn(q, w)
    BY <1>7 DEF Refresh
  <2> HIDE DEF w
  <2> QED
    BY <1>0, <1>3, <1>7, <2>2, <2>3 DEF Refresh
<1>8. ASSUME NEW q \in Clients, WriteRadius(q)
      PROVE  RadiusHasAuthor'
  <2> DEFINE c == client[q]
  <2>1. CASE put[c.n] = radius
    BY <1>8, <2>1, NewAuthor DEF WriteRadius
  <2>2. CASE put[c.n] # c.held
    BY <1>8, <2>2, NewAuthor DEF WriteRadius
  <2>3. CASE put[c.n] = c.held /\ c.held # radius
    <3>1. PICK w \in DOMAIN put : WrittenBy(w)
      BY <1>8, <2>3 DEF RadiusHasAuthor, NothingPut, WriteRadius
    <3>2. w \notin c.before
      BY <1>8, <2>3, <3>1 DEF WrittenBy, WriteRadius
    <3>3. client'[q] = Waiting /\ \A p \in Clients : p # q => client'[p] = client[p]
      BY <1>8, <1>0, GoesOn DEF WriteRadius
    <3>4. radius' = radius /\ put' = put /\ w \in answered' \ superseded'
      BY <1>8, <2>3, <3>1, <3>2 DEF WriteRadius, WrittenBy
    <3>5. WrittenBy(w)'
      BY <1>0, <3>1, <3>3, <3>4 DEF WrittenBy
    <3> QED
      BY <3>4, <3>5 DEF RadiusHasAuthor
  <2> QED
    BY <2>1, <2>2, <2>3
<1>9. ASSUME NEW q \in Clients, NEW c \in Codes, PostReason(q, c)
      PROVE  RadiusHasAuthor'
  <2>1. [pc |-> "insert", code |-> c] \in SettingsRequest
    BY DEF SettingsRequest, ReasonRequest
  <2> QED
    BY <1>3, <1>9, <2>1 DEF PostReason
<1>10. ASSUME NEW q \in Clients, InsertReason(q) \/ FailSetting(q)
       PROVE  RadiusHasAuthor'
  BY <1>0, <1>3, <1>10 DEF InsertReason, FailSetting
<1> QED
  BY <1>1, <1>2, <1>4, <1>5, <1>6, <1>7, <1>8, <1>9, <1>10 DEF SettingsNext

(***************************************************************************)
(* The theorems.                                                           *)
(***************************************************************************)
LEMMA SettingsInvInit ==
  ASSUME SettingsAssumption, SettingsInit
  PROVE  SettingsInv
<1>1. PutsInOrder /\ RadiusHasAuthor /\ SeedsAreUnique
  BY DEF SettingsInit, PutsInOrder, Configuring, Putting, Waiting, RadiusHasAuthor,
         NothingPut, SeedsAreUnique, Codes
<1>2. \A c : Inserting(c) = {}
  BY DEF SettingsInit, Inserting, Waiting
<1>3. SeedsInPlace
  BY <1>2 DEF SettingsInit, SeedsInPlace
<1>4. DuplicatesToCome
  BY <1>2 DEF SettingsInit, DuplicatesToCome, Codes
<1> QED
  BY <1>1, <1>3, <1>4, TypeInit DEF SettingsInv

LEMMA SettingsInvStep ==
  ASSUME SettingsAssumption, SettingsInv, [SettingsNext]_settingsVars
  PROVE  SettingsInv'
<1>1. CASE SettingsNext
  BY <1>1, TypeStep, OrderStep, AuthorStep, SeedsStep, DuplicatesStep DEF SettingsInv
<1>2. CASE UNCHANGED settingsVars
  <2> USE <1>2 DEF settingsVars, SettingsInv
  <2>1. SettingsTypeOK' /\ PutsInOrder' /\ SeedsAreUnique'
    BY DEF SettingsTypeOK, PutsInOrder, Configuring, Putting, SeedsAreUnique
  <2>2. RadiusHasAuthor'
    BY AuthorStays
  <2>3. \A c : Inserting(c)' = Inserting(c)
    BY DEF Inserting
  <2>4. SeedsInPlace' /\ DuplicatesToCome'
    BY <2>3 DEF SeedsInPlace, DuplicatesToCome
  <2> QED
    BY <2>1, <2>2, <2>4
<1> QED
  BY <1>1, <1>2

LEMMA SettingsInvAlways ==
  ASSUME SettingsAssumption
  PROVE  SettingsSpec => []SettingsInv
BY SettingsInvInit, SettingsInvStep, PTL DEF SettingsSpec

\* Every variable of the settings keeps its type.
THEOREM SettingsTypeCorrect ==
  ASSUME SettingsAssumption
  PROVE  SettingsSpec => []SettingsTypeOK
BY SettingsInvAlways, PTL DEF SettingsInv

\* The radius is that of a PUT that no later one has answered for, however many
\* readers make the row meanwhile and although a PUT of the radius it read
\* writes nothing.
THEOREM RadiusIsTheLastPut ==
  ASSUME SettingsAssumption
  PROVE  SettingsSpec => []LastPutStands
<1>1. SettingsInv => LastPutStands
  BY DEF SettingsInv, RadiusHasAuthor, NothingPut, WrittenBy, LastPutStands
<1> QED
  BY <1>1, SettingsInvAlways, PTL

\* For any number of clients a code is repeated only by requests that had found none
\* of it when its first row went in.
THEOREM OnlyRacersRepeat ==
  ASSUME SettingsAssumption
  PROVE  SettingsSpec => []OverlapBoundsDuplicates
<1>1. SettingsInv => OverlapBoundsDuplicates
  <2> SUFFICES ASSUME SettingsInv, NEW c \in Custom
               PROVE  reasons[c] <= racers[c]
    BY DEF OverlapBoundsDuplicates
  <2>1. /\ reasons[c] \in Nat /\ racers[c] \in Nat
        /\ reasons[c] = 0 \/ reasons[c] + Cardinality(Inserting(c)) <= racers[c]
    BY DEF SettingsInv, SettingsTypeOK, DuplicatesToCome, Codes
  <2> QED
    BY <2>1, InsertingIsFinite
<1> QED
  BY <1>1, SettingsInvAlways, PTL

\* No sequence of requests, starts and stops puts a seed there twice, so that
\* the look for it at the next start raises nothing.
THEOREM StartIsPossible ==
  ASSUME SettingsAssumption
  PROVE  SettingsSpec => []SeedsAreUnique
BY SettingsInvAlways, PTL DEF SettingsInv
==============================================================================
