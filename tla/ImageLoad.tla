------------------------------ MODULE ImageLoad ------------------------------
(***************************************************************************)
(* CpuImage: a picture file becomes an array of RGBA texels, top row       *)
(* first.  FreeImage, which reads the file, keeps the bottom row first,    *)
(* pads rows to 4 bytes and orders the components by the kind of image.    *)
(*                                                                         *)
(* A component of the file is <<row, column, name>>; an address is in      *)
(* bytes in the source and in components in the destination.               *)
(***************************************************************************)
EXTENDS Integers, Sequences, FiniteSets, Sizes

CONSTANTS
  File,  \* the picture files
  None,  \* a file FreeImage cannot load
  NULL   \* data when nothing was allocated

GreyTypes == {"MINISWHITE", "MINISBLACK"}

(* FREE_IMAGE_TYPE.                                                        *)
ImageTypes ==
  {"UNKNOWN", "BITMAP", "UINT16", "INT16", "UINT32", "INT32", "FLOAT", "DOUBLE", "COMPLEX", "RGB16",
   "RGBA16", "RGBF", "RGBAF"}

ASSUME ImageLoadAssumption ==
  \A f \in File \ {None} :
    /\ f \in [type : ImageTypes, bpp : Nat, width : Nat \ {0}, height : Nat \ {0},
              colour : GreyTypes \cup {"PALETTE", "RGB", "RGBALPHA", "CMYK"}, transparent : BOOLEAN]
    /\ f.type = "BITMAP" => f.bpp \in {1, 4, 8, 16, 24, 32}
    /\ f.type = "FLOAT" => f.bpp = 32
    /\ f.type = "RGBF"  => f.bpp = 96
    /\ f.type = "RGBAF" => f.bpp = 128
    /\ f.transparent =>
         \/ f.type \in {"RGBA16", "RGBAF"}
         \/ f.type = "BITMAP" /\ f.bpp \in {1, 4, 8, 32}

VARIABLES
  file,     \* the file being loaded
  bitmap,   \* FreeImage's bitmap, <<>> when there is none
  image,    \* the CpuImage: format, width, height
  data,     \* what malloc returned, or NULL
  row,      \* y of the conversion
  touched,  \* the addresses the conversion of a row used
  pc

vars == <<file, bitmap, image, data, row, touched, pc>>

Undefined == <<0, 0, "undefined">>   \* what malloc leaves in the memory

-----------------------------------------------------------------------------
(* Sizes.                                                                  *)

getBytesPerPixel(format) ==
  CASE format = "RGBA32_FLOAT" -> 16 [] format = "RGBA16_FLOAT" -> 8 [] format = "RGBA8_UNORM_SRGB" -> 4

(* Mutant: the height of one row less.                                     *)
getSizeBytesRowShort(width, height, format) ==
  alignToNextMultiple(width * getBytesPerPixel(format), 4) * (height - 1)

getSizeBytes(width, height, format) ==
  alignToNextMultiple(width * getBytesPerPixel(format), 4) * height

(* FreeImage_GetPitch.                                                     *)
pitch(b) == alignToNextMultiple((b.width * b.bpp + 7) \div 8, 4)

-----------------------------------------------------------------------------
(* Loading.                                                                *)

Init ==
  /\ file \in File
  /\ bitmap = <<>>
  /\ image = [format |-> "RGBA16_FLOAT", width |-> 0, height |-> 0]
  /\ data = NULL
  /\ row = 0
  /\ touched = [read |-> {}, written |-> {}]
  /\ pc = "load"

GoTo(label) == pc' = label

Load ==
  /\ pc = "load"
  /\ IF file = None THEN GoTo("done") /\ UNCHANGED bitmap
     ELSE GoTo("convert") /\ bitmap' = file
  /\ UNCHANGED <<file, image, data, row, touched>>

IsPaletted(b) == b.colour \notin GreyTypes /\ (b.bpp < 8 \/ b.colour \in {"PALETTE", "CMYK"})

(* Grey images become 8-bit grey, palettes and CMYK RGB with alpha when    *)
(* they are transparent.                                                   *)
Converted(b) ==
  CASE b.type # "BITMAP" -> b
    [] b.type = "BITMAP" /\ b.colour \in GreyTypes -> [b EXCEPT !.bpp = 8]
    [] b.type = "BITMAP" /\ IsPaletted(b) -> [b EXCEPT !.bpp = IF b.transparent THEN 32 ELSE 24]
    [] OTHER -> b

Convert ==
  /\ pc = "convert"
  /\ bitmap' = Converted(bitmap)
  /\ GoTo("choose")
  /\ UNCHANGED <<file, image, data, row, touched>>

Rejected(b) ==
  \/ b.type \in {"UNKNOWN", "COMPLEX", "DOUBLE", "UINT16", "INT16", "RGB16", "RGBA16"}
  \/ b.type = "BITMAP" /\ b.bpp \in {8, 16}

(* The early returns leave data NULL, and FreeImage's bitmap loaded.       *)
Reject ==
  /\ pc = "choose" /\ Rejected(bitmap)
  /\ GoTo("done")
  /\ UNCHANGED <<file, bitmap, image, data, row, touched>>

(* 32-bit monochrome images only get a message and keep the format of the  *)
(* constructor.                                                            *)
Format(b) ==
  CASE b.type = "BITMAP" -> "RGBA8_UNORM_SRGB"
    [] b.type \in {"FLOAT", "RGBF", "RGBAF"} -> "RGBA32_FLOAT"
    [] b.type \in {"UINT32", "INT32"} -> image.format

Allocate ==
  /\ pc = "choose" /\ ~Rejected(bitmap)
  /\ LET format == Format(bitmap)
         bytes == getSizeBytes(bitmap.width, bitmap.height, format)
     IN  /\ image' = [format |-> format, width |-> bitmap.width, height |-> bitmap.height]
         /\ data' = [n \in 0 .. (bytes * 4) \div getBytesPerPixel(format) - 1 |-> Undefined]
  /\ GoTo(IF bitmap.type \in {"UINT32", "INT32"} THEN "unload" ELSE "rows")
  /\ UNCHANGED <<file, bitmap, row, touched>>

-----------------------------------------------------------------------------
(* The four conversions.                                                   *)

(* How FreeImage orders the components of a texel in memory.               *)
InMemory(b) ==
  CASE b.type = "BITMAP" /\ b.bpp = 24 -> <<"B", "G", "R">>
    [] b.type = "BITMAP" /\ b.bpp = 32 -> <<"B", "G", "R", "A">>
    [] b.type = "FLOAT" -> <<"L">>
    [] b.type = "RGBF"  -> <<"R", "G", "B">>
    [] b.type = "RGBAF" -> <<"R", "G", "B", "A">>

(* Which component in memory, from 1, each of r, g, b and a is read from;  *)
(* 0 for the constant one.                                                 *)
Conversion(b) ==
  CASE Len(InMemory(b)) = 4 -> <<3, 2, 1, 4>>   \* BGRANtoRGBAN
    [] Len(InMemory(b)) = 3 -> <<3, 2, 1, 0>>   \* RGB8toRGBA8, RGB32toRGBA32
    [] Len(InMemory(b)) = 1 -> <<1, 1, 1, 0>>   \* R32toRGBA32

ComponentBytes == IF bitmap.type = "BITMAP" THEN 1 ELSE 4
TexelBytes == Len(InMemory(bitmap)) * ComponentBytes

(* The float conversions take the width of the loop from the pitch.        *)
Columns ==
  CASE bitmap.type = "FLOAT" -> pitch(bitmap) \div 4
    [] bitmap.type = "RGBF"  -> (pitch(bitmap) \div 4) \div 3
    [] OTHER -> image.width

(* Mutant: a row starts where the last one ended, padding and all.         *)
SourceRowPacked(y) == y * image.width * TexelBytes

SourceRow(y) == y * pitch(bitmap)

(* The component FreeImage holds at an address.                            *)
At(address) ==
  LET y == address \div pitch(bitmap)
      inRow == address % pitch(bitmap)
      k == (inRow % TexelBytes) \div ComponentBytes
  IN  IF inRow \div TexelBytes < bitmap.width
      THEN <<y, inRow \div TexelBytes, InMemory(bitmap)[k + 1]>> ELSE Undefined

DestinationRow(y) == (image.height - y - 1) * image.width * 4

ConvertRow ==
  /\ pc = "rows" /\ row < image.height
  /\ LET convert == Conversion(bitmap)
         cells == {<<x, c>> : x \in 0 .. Columns - 1, c \in 1 .. 4}
         address(x, c) == SourceRow(row) + x * TexelBytes + (convert[c] - 1) * ComponentBytes
         value(x, c) == IF convert[c] = 0 THEN <<row, x, "one">> ELSE At(address(x, c))
         target(x, c) == DestinationRow(row) + 4 * x + c - 1
     IN  /\ touched' = [read |-> {address(p[1], p[2]) : p \in {p \in cells : convert[p[2]] # 0}},
                        written |-> {target(p[1], p[2]) : p \in cells}]
         /\ data' = [n \in DOMAIN data |->
                       IF \E p \in cells : target(p[1], p[2]) = n
                       THEN LET p == CHOOSE p \in cells : target(p[1], p[2]) = n IN value(p[1], p[2])
                       ELSE data[n]]
  /\ row' = row + 1
  /\ UNCHANGED <<file, bitmap, image, pc>>

EndRows ==
  /\ pc = "rows" /\ row = image.height
  /\ GoTo("unload")
  /\ UNCHANGED <<file, bitmap, image, data, row, touched>>

Unload ==
  /\ pc = "unload"
  /\ bitmap' = <<>>
  /\ GoTo("done")
  /\ UNCHANGED <<file, image, data, row, touched>>

Terminating == pc = "done" /\ UNCHANGED vars

Next == Load \/ Convert \/ Reject \/ Allocate \/ ConvertRow \/ EndRows \/ Unload \/ Terminating

Spec == Init /\ [][Next]_vars

-----------------------------------------------------------------------------

(* Every row is converted within the memory of the two images, whatever    *)
(* the padding: the last row and the last column included.                 *)
StaysInMemory ==
  /\ touched.written # {} => touched.written \subseteq DOMAIN data
  /\ bitmap # <<>> /\ touched.read # {} =>
       \A a \in touched.read : a \in 0 .. pitch(bitmap) * bitmap.height - ComponentBytes

Texel(y, x, c) == data[((file.height - 1 - y) * file.width + x) * 4 + c]

(* In an opaque picture alpha is one, whether FreeImage stores it or not.  *)
AlphaIsKept(y, x) ==
  \/ Texel(y, x, 3) = <<y, x, "A">>
  \/ ~file.transparent /\ Texel(y, x, 3) = <<y, x, "one">>
Loaded == pc = "done" /\ data # NULL

(* The red, green and blue of a texel of a bitmap are in this order.       *)
ColoursInOrder ==
  \A y \in 0 .. file.height - 1 : \A x \in 0 .. file.width - 1 : \A c \in 0 .. 2 :
    Texel(y, x, c) = <<y, x, IF file.type = "FLOAT" THEN "L" ELSE <<"R", "G", "B">>[c + 1]>>

(* What the encoders upload is the picture, whatever the padding of a row: *)
(* every texel is defined, of its own row and column and the right way up, *)
(* with its transparency, all of its colours and, in a bitmap, their       *)
(* order.                                                                  *)
PictureIsKept ==
  Loaded /\ file.type \in {"BITMAP", "FLOAT", "RGBF", "RGBAF"} =>
    /\ \A y \in 0 .. file.height - 1 : \A x \in 0 .. file.width - 1 :
         /\ AlphaIsKept(y, x)
         /\ {Texel(y, x, c) : c \in 0 .. 2} =
              {<<y, x, name>> : name \in IF file.type = "FLOAT" THEN {"L"} ELSE {"R", "G", "B"}}
    /\ file.type \in {"BITMAP", "FLOAT"} => ColoursInOrder

(* "float red;" comes first in FIRGBF and FIRGBAF of FreeImage.h: the      *)
(* colours of float pictures keep their order too.                         *)
FloatColoursInOrder == Loaded /\ file.type \in {"RGBF", "RGBAF"} => ColoursInOrder

(* "32 bpp Monochrome textures not supported": such a file leaves no data, *)
(* like the other unsupported ones.                                        *)
UnsupportedLeavesNoData ==
  pc = "done" /\ file # None /\ file.type \in {"UINT16", "INT16", "UINT32", "INT32"} => data = NULL
=============================================================================
