---------------------------- MODULE MCWorldEdit ----------------------------
(* The instance of WorldEdit for TLC.                                      *)
EXTENDS WorldEdit, TLC

CONSTANTS level, u1, u2, u3, u4

MCInventories == {Slots, {}}
Scenario(activities, tiles, crashes_, faults_) ==
    [activities |-> activities, tiles |-> tiles, crashes |-> crashes_, faults |-> faults_]
MCScenarios == {Scenario({"grid"}, 2, 2, 0), Scenario({"grid"}, 1, 1, 1),
                Scenario({"import", "grid"}, 2, 0, 1),
                Scenario({"import", "grid"}, 1, 2, 0)}
=============================================================================
