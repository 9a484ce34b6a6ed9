----------------------------- MODULE MCStorage ------------------------------
(* The instance of Storage that TLC checks.                                *)
EXTENDS Storage

Put(user) == Batch!Update(user, kTypeValue)
Delete(user) == Batch!Update(user, kTypeDeletion)

a  == <<1>>
ab == <<1, 2>>
c  == <<3>>
MCTargets == {a, ab, <<2>>, c}
MCGroups == {<<<<Put(a)>>>>, <<<<Put(ab)>>>>, <<<<Delete(ab)>>>>, <<<<Put(c)>>, <<Delete(a)>>>>}
MCHash(u) == IF u = a THEN 7 ELSE IF u = ab THEN 12 ELSE IF u = c THEN 2 ELSE 9

Budget(updates_, pads, tears, crashes, flushes, merges, reads) ==
    [updates |-> updates_, pads |-> pads, tears |-> tears, crashes |-> crashes,
     flushes |-> flushes, merges |-> merges, reads |-> reads]
MCBudgets == {Budget(2, 6, TRUE, 1, 0, 0, 0), Budget(4, 0, FALSE, 0, 1, 1, 1),
              Budget(3, 0, FALSE, 0, 2, 1, 1), Budget(2, 0, FALSE, 1, 1, 1, 1)}
=============================================================================
