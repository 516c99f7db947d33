------------------------------ MODULE MCTables ------------------------------
(***************************************************************************)
(* Requests on the small tables of the API: a behaviour is one of the      *)
(* reports or one of the settings, which have nothing in common.           *)
(***************************************************************************)
EXTENDS SignalementVotes, SettingsTables, TLC

CONSTANTS s1, r1, r2, r3, q1, q2, q3

VARIABLE table

Init == VotesInit /\ SettingsInit /\ table \in {"signalements", "settings"}

Next ==
  \/ table = "signalements" /\ VotesNext /\ UNCHANGED <<settingsVars, table>>
  \/ table = "settings" /\ SettingsNext /\ UNCHANGED <<votesVars, table>>

Spec == Init /\ [][Next]_<<votesVars, settingsVars, table>>

RequestSymmetry == Permutations(Requests) \union Permutations(Clients)
==============================================================================
