------------------------------ MODULE MCScreens ------------------------------
(* The instance of WorldList, Paintings and NativeObject that TLC checks:   *)
(* the Java side of the app.  A behaviour is one of MainActivity, one of an *)
(* activity that paints, or one of threads that share the wrappers around   *)
(* a DB; they share no variable.                                            *)
EXTENDS WorldList, Paintings, NativeObject, TLC

CONSTANTS w1, w2, w3, bad, t1, t2, i1, i2, s1, b1

---------------------------------------------------------------------------
\* Of the pictures two are so thin that a scaled one may have no pixels, one is
\* smaller than a map, and one has more tiles than the inventory has slots.
MCShapes == {Size(1, 1), Size(3, 2), Size(6, 5), Size(2, 7), Size(9, 1)}
MCSittings == {[activity |-> "list", acts |-> 0], [activity |-> "grid", acts |-> 5], [activity |-> "import", acts |-> 4]}

\* Players with a list that is empty, with one tag of each kind, and with a text
\* that is longer than a signed length can say
Stack(n) == Tag(TagCompound, <<>>, <<ByteTag(Name["Count"], n), Tag(TagString, Name["Name"], <<n>>)>>)
Inventory == Tag(TagList, Name["Inventory"], [i \in 1 .. BEIBAO_COUNT |-> Stack(i)])
Kinds == <<Tag(11, <<31>>, <<Number(5, 4), Number(-1, 4)>>), Inventory,
           Tag(100, <<32>>, <<Number(7, 2)>>), Tag(6, <<33>>, Number(12345, 8))>>
EmptyList == Tag(TagList, <<30>>, <<>>)
LongText == Tag(TagString, <<34>>, [i \in 1 .. ByteBase * (ByteBase \div 2) |-> 1])
Player(tags) == Tag(TagCompound, <<>>, tags)
MCPlayers == {Player(Kinds), Player(<<EmptyList>> \o Kinds), Player(<<LongText, Inventory>>)}

\* In GridPicActivity only the player with all kinds of tags: there are thirteen
\* ways to write a list that is empty.
MCInit == /\ Init /\ PaintInit /\ ObjectsInit
          /\ sitting.activity # "import" => player = Player(Kinds)

\* The wrappers need not be run once for each activity.
MCNext == \/ In("list") /\ ObjectsInit /\ Next /\ UNCHANGED <<paintings, objectsVars>>
          \/ PaintNext /\ UNCHANGED <<vars, objectsVars>>
          \/ In("list") /\ Init /\ ObjectsNext /\ UNCHANGED <<vars, paintings>>
MCSpec == MCInit /\ [][MCNext]_<<vars, paintings, objectsVars>> /\ Fairness
=============================================================================
