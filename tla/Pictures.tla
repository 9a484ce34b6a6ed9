------------------------------ MODULE Pictures ------------------------------
(* PicFactory and PicTool: a picture is scaled, put in the middle of a     *)
(* canvas, cut into tiles of Unit x Unit, and each tile becomes the colors *)
(* of a map; and the rows and columns that GridPicActivity proposes.       *)
(*                                                                         *)
(* Of a scaled picture a pixel is known by its place; what its color is    *)
(* made of is left to Android.  A bitmap is its size, and a color for each *)
(* place in it.                                                            *)
EXTENDS Integers, Sequences, FiniteSetsExt

CONSTANTS Unit,            \* the side of a map: 128
          BEIBAO_COUNT     \* the slots of the player's inventory: 36

NoColor == 0               \* a pixel that is transparent
Color(x, y) == 1 + x + Unit * BEIBAO_COUNT * y

Bitmap(w, h, At(_, _)) ==
    [w |-> w, h |-> h, at |-> [p \in (0 .. w - 1) \X (0 .. h - 1) |-> At(p[1], p[2])]]

\* Bitmap.createScaledBitmap(), which throws on a side of 0: NoBitmap
NoBitmap == [w |-> 0]
CreateScaledBitmap(size) ==
    IF size.w = 0 \/ size.h = 0 THEN NoBitmap ELSE Bitmap(size.w, size.h, Color)

Size(w, h) == [w |-> w, h |-> h]
Sizes(ws, hs) == {Size(w, h) : w \in ws, h \in hs}
Fits(size, width, height) == size.w <= width /\ size.h <= height

---------------------------------------------------------------------------
(* PicTool                                                                 *)

\* resizeImage(): a picture that is not too large stays as it is.  As Unit is
\* a power of 2, the quotient of floats is the one of the numbers.
ResizeImage(pic, forceSize) ==
    IF Fits(pic, Unit, Unit) THEN pic
    ELSE IF forceSize THEN Size(Unit, Unit)
    ELSE LET side == Max({pic.w, pic.h})
         IN  Size((pic.w * Unit) \div side, (pic.h * Unit) \div side)

\* Where mergeImages() puts a side on a longer one: the middle, rounded up
Middle(outer, inner) == (outer - inner + 1) \div 2

\* mergeImages() and drawNewImageInImage1(), on what generatePNG() made
Merged(width, height, pic) ==
    LET x0 == Middle(width, pic.w)
        y0 == Middle(height, pic.h)
    IN  Bitmap(width, height,
               LAMBDA x, y : IF <<x - x0, y - y0>> \in DOMAIN pic.at
                             THEN pic.at[<<x - x0, y - y0>>] ELSE NoColor)

---------------------------------------------------------------------------
(* PicFactory                                                              *)

\* (int)(side / scale) where scale is a rounded quotient: when n/d is a whole
\* number, what is truncated may be a little less.  (For 1 the scale is exact.)
Truncated(n, d) == {n \div d} \cup (IF n % d = 0 /\ n > d THEN {n \div d - 1} ELSE {})

\* pic scaled by target / side
Scaled(pic, target, side) == Sizes(Truncated(pic.w * target, side), Truncated(pic.h * target, side))

\* The sizes that preparePicTo() may scale pic to: by its width or, if that is
\* too high, by its height
GridSizes(pic, width, height, force) ==
    IF force THEN {Size(width, height)}
    ELSE UNION {IF Fits(s, width, height) THEN {s} ELSE Scaled(pic, height, pic.h) :
                   s \in Scaled(pic, width, pic.w)}

\* A tile of a canvas, and all of them, row by row
Tile(canvas, i, j) == Bitmap(Unit, Unit, LAMBDA x, y : canvas.at[<<i + x, j + y>>])
\* Mutant of Tiles: the loops are swapped, column by column.
TilesByColumn(canvas) ==
    LET row == canvas.h \div Unit
    IN  [k \in 1 .. row * (canvas.w \div Unit) |->
            Tile(canvas, Unit * ((k - 1) \div row), Unit * ((k - 1) % row))]

Tiles(canvas) ==
    LET col == canvas.w \div Unit
    IN  [k \in 1 .. col * (canvas.h \div Unit) |->
            Tile(canvas, Unit * ((k - 1) % col), Unit * ((k - 1) \div col))]

\* preparePicTo(): the tiles of pic when it is scaled to size; <<>> if that throws
PreparePicTo(size, row, col) ==
    LET pic == CreateScaledBitmap(size)
    IN  IF pic = NoBitmap THEN <<>> ELSE Tiles(Merged(col * Unit, row * Unit, pic))

\* convertPicToMinecraft(): one tile; NoBitmap if that throws
ConvertPicToMinecraft(pic, forceSize) ==
    LET small == CreateScaledBitmap(ResizeImage(pic, forceSize))
    IN  IF small = NoBitmap THEN NoBitmap ELSE Merged(Unit, Unit, small)

\* toMinecraftMap(): the pixels line by line, in an array for Unit x Unit of them
ToMinecraftMap(image) ==
    [k \in 1 .. Unit * Unit |->
        IF k <= image.w * image.h THEN image.at[<<(k - 1) % image.w, (k - 1) \div image.w>>]
        ELSE NoColor]

---------------------------------------------------------------------------
(* clickIntelligent()                                                      *)

\* "%1.0f" of a quotient that is rounded itself
Rounded(n, d) ==
    {(2 * n + d) \div (2 * d)} \cup (IF (2 * n) % (2 * d) = d THEN {n \div d} ELSE {})

\* The grids that pic may get when its longer side has n tiles
Wide(pic, n) == Sizes({n}, Rounded(pic.h * n, pic.w))
High(pic, n) == Sizes(Rounded(pic.w * n, pic.h), {n})

RECURSIVE Reduced(_, _)
Reduced(pic, count) ==
    IF count.w * count.h <= BEIBAO_COUNT THEN {count}
    ELSE UNION {Reduced(pic, c) : c \in IF count.w >= count.h THEN Wide(pic, count.w - 1)
                                        ELSE High(pic, count.h - 1)}

AtLeastOne(count) == Size(Max({1, count.w}), Max({1, count.h}))
Proposals(pic) ==
    LET first == IF pic.w >= pic.h THEN Wide(pic, pic.w \div Unit) ELSE High(pic, pic.h \div Unit)
    IN  {AtLeastOne(c) : c \in UNION {Reduced(pic, f) : f \in first}}
=============================================================================
