-------------------------- MODULE SignalementVotes --------------------------
(***************************************************************************)
(* api/routes/signalements.py: what the community and the moderators do to *)
(* the reports on the map.  A vote reads the row, awaits, and commits the  *)
(* counter it read plus one; the session writes only the columns that it   *)
(* changed, against whatever the row is by then, and nothing is locked in  *)
(* between.  Searches only read.                                           *)
(***************************************************************************)
EXTENDS Integers

CONSTANTS
  Reports,     \* ids; a uuid names one report for ever
  Requests,    \* requests that may be served at once
  MaxRequests, \* how many there are in a behaviour
  Threshold    \* NOT_THERE_THRESHOLD

ASSUME VotesAssumption == Threshold \in Nat \ {0} /\ MaxRequests \in Nat

VARIABLES
  row,     \* signalements
  req,     \* what each request is doing
  left,
  cast,    \* cast[s][k]: votes of kind k committed
  rounds,  \* rounds[s][k]: groups of overlapping votes, at least one committed
  counted  \* counted[s][k]: one of the group that is open is committed

tally == <<cast, rounds, counted>>
votesVars == <<row, req, left, tally>>

Withdrawn == {"annule", "rejete"}
Statuses == Withdrawn \union {"actif"}

\* The two counters of a row, each with its route.
Kinds == {"confirmations", "not_there_votes"}

\* "moderation" stands for moderated_by, moderated_at and moderation_note: the
\* decision they were written with.
Row == [status : Statuses, count : [Kinds -> Nat], moderation : Withdrawn \union {"none"}]
New == [status |-> "actif", count |-> [k \in Kinds |-> 0], moderation |-> "none"]
NotYet == [status |-> "not yet"]
Deleted == [status |-> "deleted"]
Exists(s) == row[s].status \in Statuses

\* A request between its read and its commit: the row as it read it, and the
\* counter or the decision it is about.
Idle == [pc |-> "idle"]
Request == [pc : {"vote", "moderate", "delete"}, report : Reports, read : Row,
            kind : Kinds, decision : Withdrawn]

VotesTypeOK ==
  /\ row \in [Reports -> Row \union {NotYet, Deleted}]
  /\ req \in [Requests -> Request \union {Idle}]
  /\ left \in Nat
  /\ cast \in [Reports -> [Kinds -> Nat]]
  /\ rounds \in [Reports -> [Kinds -> Nat]]
  /\ counted \in [Reports -> [Kinds -> BOOLEAN]]

-----------------------------------------------------------------------------
Voting(r, s, k) == req[r].pc = "vote" /\ req[r].report = s /\ req[r].kind = k
OthersVote(r) ==
  \E q \in Requests \ {r} : Voting(q, req[r].report, req[r].kind)

\* The request is answered; a group of votes ends with its last one.
Answer(r) ==
  /\ req' = [req EXCEPT ![r] = Idle]
  /\ UNCHANGED left
EndOfGroup(r, done) ==
  counted' = [counted EXCEPT ![req[r].report][req[r].kind] = done /\ OthersVote(r)]

\* create_signalement: uploads and geocoding come before the only commit.
Create(s) ==
  /\ row[s] = NotYet /\ left > 0
  /\ row' = [row EXCEPT ![s] = New]
  /\ left' = left - 1
  /\ UNCHANGED <<req, tally>>

\* db.get; 404 and 422 change nothing and are left out.
Read(r, s, pc, k, d) ==
  /\ req[r] = Idle /\ left > 0
  /\ Exists(s)
  /\ req' = [req EXCEPT ![r] = [pc |-> pc, report |-> s, read |-> row[s],
                                kind |-> k, decision |-> d]]
  /\ left' = left - 1
  /\ UNCHANGED <<row, tally>>

ReadForVote(r, s) == \E k \in Kinds : Read(r, s, "vote", k, "annule")
ReadForModeration(r, s) ==
  \E d \in Withdrawn : Read(r, s, "moderate", "confirmations", d)
ReadForDeletion(r, s) == Read(r, s, "delete", "confirmations", "annule")

\* What the session writes: a column that keeps the value it read is left out.
Written(read, new, now) == IF new = read THEN now ELSE new

\* confirm_signalement and not_there_signalement: the columns they assign.
NewCount(r) == req[r].read.count[req[r].kind] + 1
\* Mutant of Enough: one vote more.
EnoughAndOne(r) == req[r].kind = "not_there_votes" /\ NewCount(r) > Threshold
Enough(r) == req[r].kind = "not_there_votes" /\ NewCount(r) >= Threshold
NewStatus(r) == IF Enough(r) THEN "annule" ELSE req[r].read.status

\* Mutant of CommitVote: all columns are written as they were read.
CommitWholeRow(r) ==
  LET s == req[r].report
      k == req[r].kind
  IN  /\ req[r].pc = "vote" /\ Exists(s)
      /\ row' = [row EXCEPT ![s] = [req[r].read EXCEPT !.status = NewStatus(r),
                                                       !.count[k] = NewCount(r)]]
      /\ cast' = [cast EXCEPT ![s][k] = @ + 1]
      /\ rounds' = [rounds EXCEPT ![s][k] = IF counted[s][k] THEN @ ELSE @ + 1]
      /\ EndOfGroup(r, TRUE)
      /\ Answer(r)

\* The session writes the columns it changed, whatever the row is by now.
CommitVote(r) ==
  LET s == req[r].report
      k == req[r].kind
  IN  /\ req[r].pc = "vote" /\ Exists(s)
      /\ row' = [row EXCEPT ![s].count[k] = NewCount(r),
                            ![s].status = Written(req[r].read.status, NewStatus(r), @)]
      /\ cast' = [cast EXCEPT ![s][k] = @ + 1]
      /\ rounds' = [rounds EXCEPT ![s][k] = IF counted[s][k] THEN @ ELSE @ + 1]
      /\ EndOfGroup(r, TRUE)
      /\ Answer(r)

\* moderate_signalement.
CommitModeration(r) ==
  LET s == req[r].report
  IN  /\ req[r].pc = "moderate" /\ Exists(s)
      /\ row' = [row EXCEPT
            ![s].status = Written(req[r].read.status, req[r].decision, @),
            ![s].moderation = req[r].decision]
      /\ Answer(r)
      /\ UNCHANGED tally

\* delete_signalement; a row that is gone already is only a warning.
CommitDeletion(r) ==
  /\ req[r].pc = "delete"
  /\ row' = [row EXCEPT ![req[r].report] = Deleted]
  /\ Answer(r)
  /\ UNCHANGED tally

\* The row is gone (the UPDATE matches nothing and raises), the database fails,
\* or the API process stops: the request changes nothing.
Fail(r) ==
  /\ req[r] # Idle
  /\ IF req[r].pc = "vote"
     THEN EndOfGroup(r, counted[req[r].report][req[r].kind])
     ELSE UNCHANGED counted
  /\ Answer(r)
  /\ UNCHANGED <<row, cast, rounds>>

-----------------------------------------------------------------------------
VotesInit ==
  /\ row = [s \in Reports |-> NotYet]
  /\ req = [r \in Requests |-> Idle]
  /\ left = MaxRequests
  /\ cast = [s \in Reports |-> [k \in Kinds |-> 0]]
  /\ rounds = cast
  /\ counted = [s \in Reports |-> [k \in Kinds |-> FALSE]]

Commit(r) == CommitVote(r) \/ CommitModeration(r) \/ CommitDeletion(r)

VotesNext ==
  \/ \E s \in Reports : Create(s)
  \/ \E r \in Requests, s \in Reports :
       ReadForVote(r, s) \/ ReadForModeration(r, s) \/ ReadForDeletion(r, s)
  \/ \E r \in Requests : Commit(r) \/ Fail(r)

VotesSpec == VotesInit /\ [][VotesNext]_votesVars

-----------------------------------------------------------------------------
\* Votes may be lost, and a counter may even go down: a vote that was slow to
\* commit writes back what it read.  Yet the two counters of a report stay
\* between the number of groups of overlapping votes and the number of votes.
EveryRoundCounts ==
  \A s \in Reports, k \in Kinds :
    Exists(s) => /\ rounds[s][k] <= row[s].count[k]
                 /\ row[s].count[k] <= cast[s][k]

\* signalements.py:107, "auto-remove after this many": that many "not there"
\* votes, one after the other, take a report off the map, whatever other votes
\* and decisions overlap with them.
EnoughRoundsWithdraw ==
  \A s \in Reports :
    Exists(s) /\ rounds[s]["not_there_votes"] >= Threshold =>
      row[s].status \in Withdrawn

\* A report is off the map because a moderator said so, or because as many
\* people as the threshold asks for did not see it.
WithdrawnForAReason ==
  \A s \in Reports :
    row[s].status \in Withdrawn =>
      \/ row[s].moderation # "none"
      \/ row[s].status = "annule" /\ cast[s]["not_there_votes"] >= Threshold

\* A report that was withdrawn or deleted is never on the map again: not by a
\* vote that read it before, and not by a counter that went down.
OffTheMapForGood ==
  [][\A s \in Reports :
       /\ row[s].status \in Withdrawn => row'[s].status \in Withdrawn \union {"deleted"}
       /\ row[s] = Deleted => row'[s] = Deleted]_row
-----------------------------------------------------------------------------
(***************************************************************************)
(* Why they hold: the inductive invariant the proofs use.                  *)
(***************************************************************************)
\* The rounds before the group that is open, which all its votes have seen.
Before(s, k) == rounds[s][k] - (IF counted[s][k] THEN 1 ELSE 0)

VotesSawRounds ==
  \A r \in Requests : req[r].pc = "vote" /\ Exists(req[r].report) =>
    LET s == req[r].report
        k == req[r].kind
    IN  /\ Before(s, k) <= req[r].read.count[k]
        /\ req[r].read.count[k] <= cast[s][k]

\* Whoever has read a withdrawn row commits to a withdrawn or deleted one.
WithdrawnIsKept ==
  \A r \in Requests : req[r] # Idle =>
    /\ row[req[r].report] # NotYet
    /\ req[r].read.status \in Withdrawn => row[req[r].report].status # "actif"

NothingYet ==
  \A s \in Reports, k \in Kinds : row[s] = NotYet => rounds[s][k] = 0

CountWithdraws ==
  \A s \in Reports :
    Exists(s) /\ row[s].count["not_there_votes"] >= Threshold =>
      row[s].status \in Withdrawn

VotesInv ==
  /\ VotesTypeOK /\ EveryRoundCounts /\ VotesSawRounds /\ WithdrawnIsKept
  /\ NothingYet /\ CountWithdraws /\ WithdrawnForAReason
=============================================================================
