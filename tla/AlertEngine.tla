----------------------------- MODULE AlertEngine -----------------------------
(***************************************************************************)
(* The pure part of the alert service: the level of a conflict and what    *)
(* one tick makes of the alert of a pair of vehicles.                      *)
(***************************************************************************)
EXTENDS Integers

CONSTANTS
  SafeTtc,        \* settings.ALERT_SAFE_TTC_S
  WarningTtc,     \* settings.ALERT_WARNING_TTC_S
  HighWarningTtc  \* settings.ALERT_HIGH_WARNING_TTC_S

ASSUME TtcAssumption ==
  /\ HighWarningTtc \in Nat /\ WarningTtc \in Nat /\ SafeTtc \in Nat
  /\ HighWarningTtc < WarningTtc /\ WarningTtc < SafeTtc

Levels == {"SAFE", "MONITOR", "WARNING", "HIGH_WARNING", "CRITICAL"}
Severity == [SAFE |-> 0, MONITOR |-> 1, WARNING |-> 2, HIGH_WARNING |-> 3,
             CRITICAL |-> 4]

Risks == {"NONE", "LOW", "MODERATE", "HIGH", "CRITICAL"}
RiskFloor == [NONE |-> "SAFE", LOW |-> "MONITOR", MODERATE |-> "WARNING",
              HIGH |-> "HIGH_WARNING", CRITICAL |-> "CRITICAL"]

\* A VehicleConflict: its risk and its time to closest approach, which may be
\* missing.
NoTtc == -1
Conflict == [risk : Risks, ttc : Nat \union {NoTtc}]

TtcLevel(ttc) ==
  IF ttc <= HighWarningTtc THEN "CRITICAL"
  ELSE IF ttc <= WarningTtc THEN "HIGH_WARNING"
  ELSE IF ttc <= SafeTtc THEN "WARNING"
  ELSE "MONITOR"

Worst(l, m) == IF Severity[l] >= Severity[m] THEN l ELSE m

ClassifyLevel(c) ==
  IF c.risk = "NONE" \/ c.ttc = NoTtc THEN RiskFloor[c.risk]
  ELSE Worst(TtcLevel(c.ttc), RiskFloor[c.risk])

Transitions == {"NEW", "ESCALATED", "DE_ESCALATED", "UNCHANGED", "RESOLVED"}

\* A ConflictAlert without its times and texts; first_detected_at changes with
\* the id.
Alert == [id : Nat, status : {"DETECTED", "ACTIVE", "RESOLVED"}, level : Levels,
          transition : Transitions, ttc : Nat \union {NoTtc}]
NoAlert == [id |-> 0, status |-> "absent", level |-> "SAFE",
            transition |-> "UNCHANGED", ttc |-> NoTtc]

WasActive(previous) == previous.status \in {"DETECTED", "ACTIVE"}

Change(before, after) ==
  IF Severity[after] > Severity[before] THEN "ESCALATED"
  ELSE IF Severity[after] < Severity[before] THEN "DE_ESCALATED"
  ELSE "UNCHANGED"

\* Mutant of Evaluate: a resolved conflict gets its id back.
EvaluateReusesId(c, previous, fresh) ==
  LET level == ClassifyLevel(c)
      was == WasActive(previous)
  IN  [id         |-> IF previous # NoAlert THEN previous.id ELSE fresh,
       status     |-> IF was THEN "ACTIVE" ELSE "DETECTED",
       level      |-> level,
       transition |-> IF was THEN Change(previous.level, level) ELSE "NEW",
       ttc        |-> c.ttc]

\* evaluate: fresh is the id a new conflict gets.
Evaluate(c, previous, fresh) ==
  LET level == ClassifyLevel(c)
      was == WasActive(previous)
      status == IF level = "SAFE" THEN "RESOLVED"
                ELSE IF was THEN "ACTIVE" ELSE "DETECTED"
  IN  [id         |-> IF was THEN previous.id ELSE fresh,
       status     |-> status,
       level      |-> level,
       transition |-> IF level = "SAFE"
                      THEN IF was THEN "RESOLVED" ELSE "UNCHANGED"
                      ELSE IF was THEN Change(previous.level, level) ELSE "NEW",
       ttc        |-> c.ttc]

\* resolve: only called for alerts that are still active.
Resolve(previous) ==
  [previous EXCEPT !.status = "RESOLVED", !.level = "SAFE",
                   !.transition = "RESOLVED"]
==============================================================================
