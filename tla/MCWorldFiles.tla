---------------------------- MODULE MCWorldFiles ----------------------------
(* The instance of WorldFiles that TLC checks: the app, which may try to   *)
(* open a world twice, and the game.                                       *)
EXTENDS WorldFiles

CONSTANTS app1, app2, game1, App, Game

MCProcessOf == app1 :> App @@ app2 :> App @@ game1 :> Game

Budget(o, w, c, f, m, d, r) ==
    [opens |-> o, writes |-> w, crashes |-> c, faults |-> f, damages |-> m,
     destroys |-> d, repairs |-> r]

\* Ends of the process and of the machine; faults; the LOCK with three calls
\* and a DestroyDB(); repairs, of damaged tables too, that may be cut off.
MCBudgets == {Budget(3, 2, 1, 0, 0, 0, 0), Budget(2, 1, 2, 1, 0, 0, 0),
              Budget(3, 1, 0, 0, 0, 1, 0), Budget(2, 0, 1, 0, 0, 1, 0),
              Budget(2, 2, 0, 0, 1, 0, 1), Budget(2, 1, 1, 1, 0, 0, 1),
              Budget(2, 2, 2, 0, 0, 0, 2)}

\* Bound: once a world has two owners nothing more is looked at.
OneOwner == Cardinality(Owners) <= 1

HandleSymmetry == Permutations({app1, app2})
=============================================================================
