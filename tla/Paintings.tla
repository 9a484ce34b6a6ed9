------------------------------ MODULE Paintings ------------------------------
(* What the two activities do with a picture: the user picks it and says   *)
(* how it is to be cut, and each tile becomes an item in a slot of the     *)
(* player's inventory and a map, both of them records of the world's db.   *)
(*                                                                         *)
(* How the db is opened, copied and left behind is in WorldEdit, where a   *)
(* tile is one step; here a record is the bytes that are put.  Reading the *)
(* record, editing it and putting it again is one step of the only thread  *)
(* that has the db open.                                                   *)
EXTENDS Nbt, Pictures

CONSTANTS Shapes,          \* the pictures to pick: their sizes
          Undecodable,     \* a file that is no picture
          MaxField,        \* bound: what is typed as a number of rows or columns;
                           \* the product of two such numbers fits an int
          Players,         \* the player's record at first: its root tag
          Sittings,        \* bounds: the activity, and what the user does in it
          NoFile

VARIABLES
    sitting,               \* the activity in front, and what the user may still do
    img, picture,          \* the file picked, as bytes and as a Bitmap
    fields,                \* the rows and columns, and the check box
    cut,                   \* bitmapArrayList, the grid shown, and history: of what
    worker,                \* summon_ing, and the next slot of the worker
    player,                \* history: the player's record at first
    record, maps,          \* the records ~local_player and map_<uuid>
    made, summoned         \* history: slots that got an item; the last grid done

ui == <<img, picture, fields, cut>>
world == <<record, maps, made>>
paintings == <<sitting, ui, worker, player, world, summoned>>

NoCut == [tiles |-> <<>>]
Resting == [summon_ing |-> FALSE]

---------------------------------------------------------------------------
(* summonMapItem()                                                         *)

Number(n, width) == Reverse(LittleEndian(n % (ByteBase ^ width), width))
ByteTag(name, n)  == Tag(TagByte, name, Number(n, 1))
ShortTag(name, n) == Tag(TagShort, name, Number(n, 2))
IntTag(name, n)   == Tag(TagInt, name, Number(n, 4))
LongTag(name, n)  == Tag(TagLong, name, Number(n, 8))

\* Names and texts are short here; that they differ is what matters.
NamesOf == <<"Inventory", "Count", "Damage", "Name", "Slot", "WasPickedUp", "tag", "map_is_init",
             "map_name_index", "map_uuid", "colors", "decorations", "dimension", "fullyExplored",
             "height", "mapId", "mapLocked", "parentMapId", "scale", "unlimitedTracking", "width",
             "xCenter", "zCenter">>
Name == [n \in Range(NamesOf) |-> <<CHOOSE i \in DOMAIN NamesOf : NamesOf[i] = n>>]
FilledMap == <<1, 1>>

\* getChildTagByKey(): the first, or none
Children(tag, name) == SelectSeq(tag.value, LAMBDA t : t.name = name)

ItemOf(slot, uuid) ==
    <<ByteTag(Name["Count"], 1), ShortTag(Name["Damage"], 6),
      Tag(TagString, Name["Name"], FilledMap), ByteTag(Name["Slot"], slot),
      ByteTag(Name["WasPickedUp"], 0),
      Tag(TagCompound, Name["tag"],
          <<ByteTag(Name["map_is_init"], 1), IntTag(Name["map_name_index"], slot + 1),
            LongTag(Name["map_uuid"], uuid)>>)>>

MapOf(colors, uuid) ==
    <<Tag(TagByteArray, Name["colors"], [k \in DOMAIN colors |-> <<colors[k]>>]),
      Tag(TagList, Name["decorations"], <<>>), ByteTag(Name["dimension"], -1),
      ByteTag(Name["fullyExplored"], 0), ShortTag(Name["height"], Unit),
      LongTag(Name["mapId"], uuid), ByteTag(Name["mapLocked"], 1),
      LongTag(Name["parentMapId"], -1), ByteTag(Name["scale"], 4),
      ByteTag(Name["unlimitedTracking"], 0), ShortTag(Name["width"], Unit),
      IntTag(Name["xCenter"], 0), IntTag(Name["zCenter"], 0)>>

\* What the code takes for granted of the record; if it is wrong, an exception
\* ends the method before anything is put.
Editable(data, slot) ==
    /\ data.ok /\ data.tags # <<>> /\ Head(data.tags).type = TagCompound
    /\ LET inventory == Children(Head(data.tags), Name["Inventory"])
       IN  /\ inventory # <<>> /\ Head(inventory).type = TagList
           /\ slot < Len(Head(inventory).value)
           /\ Head(inventory).value[slot + 1].type = TagCompound

\* The record's tags with slot's item made one of the map uuid
ItemAt(tags, slot) == Head(Children(Head(tags), Name["Inventory"])).value[slot + 1]
Edited(tags, slot, uuid) ==
    LET inventory == CHOOSE i \in DOMAIN Head(tags).value :
                        /\ Head(tags).value[i].name = Name["Inventory"]
                        /\ \A j \in 1 .. i - 1 : Head(tags).value[j].name # Name["Inventory"]
    IN  [tags EXCEPT ![1].value[inventory].value[slot + 1].value = ItemOf(slot, uuid)]

\* isFindEqualKey() is asked until a uuid is new; WorldEdit has the choice.
NewUuid == 1 + Cardinality(DOMAIN maps)

SummonMapItem(colors, slot) ==
    LET data == ReadData(record)
    IN  IF ~Editable(data, slot) THEN UNCHANGED world
        ELSE /\ record' = WriteData(Edited(data.tags, slot, NewUuid))
             /\ maps' = NewUuid :> WriteData(<<Tag(TagCompound, ItemAt(data.tags, slot).name,
                                                  MapOf(colors, NewUuid))>>) @@ maps
             /\ made' = made \cup {slot}

---------------------------------------------------------------------------
(* The user.  Each action is a call on the UI thread.                      *)

In(activity) == sitting.activity = activity
UserActs == /\ sitting.acts > 0
            /\ sitting' = [sitting EXCEPT !.acts = @ - 1]
            /\ summoned' = NoCut /\ UNCHANGED <<player, world>>
Rests == ~worker.summon_ing
Picked(file) == IF file = Undecodable THEN NoFile ELSE file

\* What preparePicTo() gives for these fields, and what the activity remembers
CutOf(size, f) ==
    [tiles |-> PreparePicTo(size, f.row, f.col), row |-> f.row, col |-> f.col, first |-> 0,
     exact |-> f.checked, of |-> img]

\* loadGridPic(): what may be shown after it, with these fields, when c was.  It
\* does nothing during a summon, without a picture, or for too many tiles, and
\* what is thrown in it leaves the last grid in place.
LoadGridPic(f, c) ==
    IF \/ worker.summon_ing \/ img \in {NoFile, Undecodable}
       \/ f.row = 0 \/ f.col = 0 \/ f.row * f.col > BEIBAO_COUNT
    THEN {c}
    ELSE {IF CutOf(s, f).tiles = <<>> THEN c ELSE CutOf(s, f) :
             s \in GridSizes(img, f.col * Unit, f.row * Unit, f.checked)}

SelectPic(file) ==
    /\ In("grid") /\ Rests /\ UserActs
    /\ img' = file /\ picture' = Picked(file) /\ cut' = NoCut
    /\ UNCHANGED <<fields, worker>>

\* convertPicTo() cannot read the file: img is null, and the rest stays.
SelectFails ==
    /\ In("grid") /\ Rests /\ UserActs
    /\ img' = NoFile /\ UNCHANGED <<picture, fields, cut, worker>>

\* A number is typed, or the check box clicked.
ChangeField(field, value) ==
    /\ In("grid") /\ UserActs
    /\ fields' = [fields EXCEPT ![field] = value]
    /\ cut' \in LoadGridPic(fields', cut)
    /\ UNCHANGED <<img, picture, worker>>

\* The proposal is written into the two fields one after the other.
ClickIntelligent ==
    /\ In("grid") /\ picture # NoFile /\ UserActs
    /\ \E p \in Proposals(picture) :
          LET rows == [fields EXCEPT !.row = p.h]
          IN  /\ fields' = [rows EXCEPT !.col = p.w]
              /\ \E c \in LoadGridPic(rows, cut) : cut' \in LoadGridPic(fields', c)
    /\ UNCHANGED <<img, picture, worker>>

SummonPicToMinecraft ==
    /\ In("grid") /\ Rests /\ cut.tiles # <<>> /\ UserActs
    /\ worker' = [summon_ing |-> TRUE, slot |-> 0]
    /\ UNCHANGED ui

\* ImportPicActivity, for a picture of one map.  When convertPicToMinecraft()
\* returns null, what shows the picture throws, and the process is gone.
ShowPic(file, checked) ==
    LET tile == IF file = Undecodable THEN NoBitmap ELSE ConvertPicToMinecraft(file, ~checked)
    IN  /\ fields' = [fields EXCEPT !.checked = checked /\ tile # NoBitmap]
        /\ IF tile = NoBitmap THEN img' = NoFile /\ cut' = NoCut
           ELSE /\ img' = file
                /\ cut' = [tiles |-> <<tile>>, row |-> 1, col |-> 1, first |-> 0,
                           exact |-> ~checked /\ ~Fits(file, Unit, Unit), of |-> file]
        /\ UNCHANGED <<picture, worker>>
ImportPic(file) == In("import") /\ UserActs /\ ShowPic(file, fields.checked)
CheckScall ==
    /\ In("import") /\ UserActs
    /\ IF img # NoFile THEN ShowPic(img, ~fields.checked)
       ELSE fields' = [fields EXCEPT !.checked = ~@] /\ UNCHANGED <<img, picture, cut, worker>>

SummonMap(slot) ==
    /\ In("import") /\ img # NoFile /\ sitting.acts > 0
    /\ sitting' = [sitting EXCEPT !.acts = @ - 1]
    /\ SummonMapItem(ToMinecraftMap(Head(cut.tiles)), slot)
    /\ summoned' = [cut EXCEPT !.first = slot]
    /\ UNCHANGED <<ui, worker, player>>

---------------------------------------------------------------------------
(* The worker of GridPicActivity                                           *)

SummonTile ==
    /\ worker.summon_ing /\ worker.slot < Len(cut.tiles)
    /\ SummonMapItem(ToMinecraftMap(cut.tiles[worker.slot + 1]), worker.slot)
    /\ worker' = [worker EXCEPT !.slot = @ + 1]
    /\ UNCHANGED <<sitting, ui, player, summoned>>

Completed ==
    /\ worker.summon_ing /\ worker.slot = Len(cut.tiles)
    /\ worker' = Resting /\ summoned' = cut
    /\ UNCHANGED <<sitting, ui, player, world>>

---------------------------------------------------------------------------
NoFields == [row |-> 0, col |-> 0, checked |-> FALSE]

PaintInit ==
    /\ sitting \in Sittings
    /\ img = NoFile /\ picture = NoFile /\ fields = NoFields /\ cut = NoCut
    /\ worker = Resting
    /\ player \in Players /\ record \in Encodings(player)
    /\ maps = <<>> /\ made = {} /\ summoned = NoCut

Pics == Shapes \cup {Undecodable}

PaintNext ==
    \/ \E file \in Pics : SelectPic(file) \/ ImportPic(file)
    \/ SelectFails \/ ClickIntelligent \/ CheckScall
    \/ \E n \in 0 .. MaxField : ChangeField("row", n) \/ ChangeField("col", n)
    \/ \E b \in BOOLEAN : ChangeField("checked", b)
    \/ SummonPicToMinecraft \/ SummonTile \/ Completed
    \/ \E slot \in 0 .. BEIBAO_COUNT - 1 : SummonMap(slot)

---------------------------------------------------------------------------
(* Properties                                                              *)

SlotsOf(root) == Head(Children(root, Name["Inventory"])).value
Value(tag, name) == Head(Children(tag, name)).value

\* The record is that of root: a tag that differs from the player's at first in
\* no more than the items of the slots that were given maps.
TheRestIsKept(root) ==
    /\ record \in Encodings(root)
    /\ [root EXCEPT !.value = <<>>] = [player EXCEPT !.value = <<>>]
    /\ Len(root.value) = Len(player.value)
    /\ \A i \in DOMAIN player.value :
          \/ player.value[i] = root.value[i]
          \/ player.value[i].name = Name["Inventory"] /\ root.value[i].name = Name["Inventory"]
    /\ DOMAIN SlotsOf(root) = DOMAIN SlotsOf(player)
    /\ \A i \in DOMAIN SlotsOf(player) :
          i - 1 \notin made => SlotsOf(root)[i] = SlotsOf(player)[i]

\* The wall that the maps of a grid make, hung up in the order of their slots:
\* the game looks up the map of each item, and the colors in it.
MapIn(item) == Unsigned(Reverse(Value(Head(Children(item, Name["tag"])), Name["map_uuid"])))
ColorsOf(uuid) == Value(Head(ReadData(maps[uuid]).tags), Name["colors"])
Wall(grid, items) ==
    LET colors == [k \in 0 .. grid.row * grid.col - 1 |-> ColorsOf(MapIn(items[grid.first + k + 1]))]
    IN  [p \in (0 .. grid.col * Unit - 1) \X (0 .. grid.row * Unit - 1) |->
            colors[(p[2] \div Unit) * grid.col + p[1] \div Unit]
                  [(p[2] % Unit) * Unit + (p[1] % Unit) + 1][1]]

\* The picture, whole, in its proportions and in the middle; when it was to be
\* stretched, without a pixel that has no color.
Near(m, n, d) == m - n <= d /\ n - m <= d
ShowsThePicture(grid, wall) ==
    LET shown == {p \in DOMAIN wall : wall[p] # NoColor}
        xs == {p[1] : p \in shown}
        ys == {p[2] : p \in shown}
        size == Size(Cardinality(xs), Cardinality(ys))
        outer == Size(grid.col * Unit, grid.row * Unit)
    IN  /\ shown = {p \in DOMAIN wall : p[1] - Min(xs) \in 0 .. size.w - 1
                                        /\ p[2] - Min(ys) \in 0 .. size.h - 1}
        /\ \A p \in shown : wall[p] = Color(p[1] - Min(xs), p[2] - Min(ys))
        /\ Near(2 * Min(xs) + size.w, outer.w, 1) /\ Near(2 * Min(ys) + size.h, outer.h, 1)
        /\ IF grid.exact THEN size = outer
           ELSE /\ Near(size.w * grid.of.h, size.h * grid.of.w, 2 * Max({grid.of.w, grid.of.h}))
                /\ \/ size = grid.of \/ size.w >= outer.w - 1 \/ size.h >= outer.h - 1

\* When the activity says that the maps were made, what the game reads shows the
\* picture, and the player has all the rest as it was.  A record that the app
\* cannot read (a text of more than 32767 bytes) it leaves alone.
TheGameSeesThePicture ==
    LET data == ReadData(record)
        root == Head(data.tags)
    IN  IF data.ok
        THEN /\ TheRestIsKept(root)
             /\ summoned # NoCut => ShowsThePicture(summoned, Wall(summoned, SlotsOf(root)))
        ELSE record \in Encodings(player) /\ maps = <<>> /\ made = {}
=============================================================================
