----------------------------- MODULE MCBlocks --------------------------------
(***************************************************************************)
(* Candidates for model checking the block layouts: every value of one     *)
(* channel with corner values of the other two, and one pixel that differs *)
(* from the rest.  A behaviour writes one block, of ETC, EAC or BC6H, and  *)
(* the machine of the other kind is idle.                                  *)
(***************************************************************************)
EXTENDS EtcBlocks, Bc6hBlock

CONSTANT Modes

Colours(r, g, b, corner) ==
  {<<x, y, z>> : x \in r, y \in corner, z \in corner}
  \cup {<<x, y, z>> : x \in corner, y \in g, z \in corner}
  \cup {<<x, y, z>> : x \in corner, y \in corner, z \in b}

Quantized == {quant4(v) : v \in 0 .. 255}
THColours == Colours(Quantized, Quantized, Quantized, {0, 95, 152, 255})

OneDiffers(rest) ==
  {[k \in Pixel |-> IF k = p THEN v ELSE rest] : p \in Pixel, v \in 0 .. 3}

AllSame(v) == [k \in Pixel |-> v]

TH(mode) ==
  [mode : {mode}, c0 : THColours, c1 : {<<0, 0, 0>>, <<255, 57, 152>>, <<114, 255, 38>>},
   distIdx : 0 .. 7, idx : {AllSame(1)}]
  \cup [mode : {mode}, c0 : {<<0, 19, 255>>}, c1 : {<<255, 57, 152>>},
        distIdx : {2}, idx : OneDiffers(0) \cup OneDiffers(3)]

Planar ==
  [mode : {"planar"}, cO : Colours(0 .. 63, 0 .. 127, 0 .. 63, {0, 5, 31, 32, 63}),
   cH : {<<0, 0, 0>>, <<63, 127, 63>>, <<21, 85, 42>>}, cV : {<<0, 0, 0>>, <<42, 45, 21>>}]
  \cup [mode : {"planar"}, cO : {<<9, 70, 33>>},
        cH : Colours(0 .. 63, 0 .. 127, 0 .. 63, {0, 32, 63}), cV : {<<0, 0, 0>>, <<21, 82, 42>>}]
  \cup [mode : {"planar"}, cO : {<<54, 6, 31>>}, cH : {<<63, 1, 32>>},
        cV : Colours(0 .. 63, 0 .. 127, 0 .. 63, {0, 37, 63})]

Differential ==
  {<<a, <<a[1] + d[1], a[2] + d[2], a[3] + d[3]>>>> :
     a \in Colours(0 .. 31, 0 .. 31, 0 .. 31, {4, 28}), d \in Colours(-4 .. 3, -4 .. 3, -4 .. 3, {-4, 3})}

InRange(limit, pairs) == {p \in pairs : \A s \in 1 .. 2 : \A i \in Channel : p[s][i] \in 0 .. limit}

Individual ==
  {<<a, b>> : a \in Colours(0 .. 15, 0 .. 15, 0 .. 15, {0, 15}),
              b \in Colours(0 .. 15, 0 .. 15, 0 .. 15, {6})}

Etc1 ==
  [mode : {"etc1"}, useColor4 : {FALSE}, flip : {TRUE}, rgb : InRange(31, Differential),
   inten : {<<2, 5>>}, selectors : {AllSame(0)}]
  \cup [mode : {"etc1"}, useColor4 : {TRUE}, flip : {FALSE}, rgb : Individual,
        inten : {<<7, 0>>}, selectors : {AllSame(3)}]
  \cup [mode : {"etc1"}, useColor4 : BOOLEAN, flip : BOOLEAN,
        rgb : {<<<<3, 9, 14>>, <<5, 6, 15>>>>}, inten : {<<i, j>> : i \in 0 .. 7, j \in 0 .. 7},
        selectors : OneDiffers(1)]

Solid ==
  UNION {[mode : {"solid"}, diff : {diff}, i : 0 .. 2,
          colour : LET v == IF diff THEN 0 .. 31 ELSE 0 .. 15 IN Colours(v, v, v, {0, 7, 15}),
          inten : 0 .. 7, selector : 0 .. 3] : diff \in BOOLEAN}

Eac ==
  [mode : {"eac"}, base : {0, 7, 128, 255}, multiplier : 0 .. 15, table : 0 .. 15,
   idx : {AllSame(5)}]
  \cup [mode : {"eac"}, base : {90}, multiplier : {9}, table : {6},
        idx : {[k \in Pixel |-> IF k = p THEN v ELSE rest] :
                 p \in Pixel, v \in 0 .. 7, rest \in {0, 7}}]
  \cup [mode : {"eac flat"}, base : 0 .. 255]

MCCandidate ==
  (IF "T" \in Modes THEN TH("T") ELSE {}) \cup (IF "H" \in Modes THEN TH("H") ELSE {})
  \cup (IF "planar" \in Modes THEN Planar ELSE {})
  \cup (IF "eac" \in Modes THEN Eac ELSE {})
  \cup (IF "etc1" \in Modes THEN Etc1 ELSE {}) \cup (IF "solid" \in Modes THEN Solid ELSE {})

-----------------------------------------------------------------------------
(* BC6H.  The candidates that can still be improved on are few, the ones   *)
(* no error is below are many.                                             *)

HalfCorners == {0, 31743}

(* Halves all over the range for one component, corners of the other two.  *)
HalfEnds ==
  LET some == {v * 769 : v \in 0 .. 41} \cup HalfCorners
  IN  Colours(some, some, some, HalfCorners)

AllAt(n) == [i \in HTexel |-> n]
OneAt(p, n, rest) == [AllAt(rest) EXCEPT ![p] = n]

MCP1Input ==
  [min : {<<1000, 9000, 0>>}, max : HalfEnds, at : {AllAt(0), AllAt(Steps)}, msle : {0}]
  \cup [min : {<<0, 20, 300>>}, max : {<<31743, 16000, 700>>}, msle : {0},
        at : {OneAt(p, n, rest) : p \in HTexel, n \in -1 .. Steps + 1, rest \in {0, Steps}}]
  \cup [min : {<<31743, 31743, 31743>>}, max : {<<31743, 31743, 31743>>},
        at : {AllAt(Steps)}, msle : {2}]

Subsets(ends0, ends1) == {<<a[1], a[2], b[1], b[2]>> : a \in ends0, b \in ends1}

P2Ends ==
  Subsets({<<<<5000, 6000, 7000>>, <<9000, 6500, 30000>>>>}, {<<<<0, 4000, 31000>>, c>> : c \in HalfEnds})
  \cup Subsets({<<<<0, 0, 0>>, c>> : c \in HalfEnds}, {<<<<2000, 1, 9>>, <<3000, 2000, 31743>>>>})

MCP2Input ==
  [pattern : {0, 13}, ends : P2Ends, at : {AllAt(0), AllAt(Steps)}, msle : {0}, layout : {"7.6", "9.5"}]
  \cup [pattern : 0 .. 31, layout : {"7.6"}, msle : {0},
        ends : {<<<<1, 2, 3>>, <<4000, 2, 30000>>, <<90, 90, 90>>, <<500, 600, 700>>>>},
        at : {OneAt(p, n, rest) : p \in {0, 1, 2, 3, 8, 9, 14, 15}, n \in {0, 5, 14, 15, 16, 22, Steps},
                                  rest \in {0, Steps}}]
  \cup [pattern : {0, 20}, layout : {"7.6", "9.5"}, msle : {1},
        ends : {<<<<31743, 31743, 31743>>, <<31743, 31743, 31743>>, <<0, 0, 0>>, <<0, 0, 0>>>>},
        at : {AllAt(Steps)}]

-----------------------------------------------------------------------------

(* A picture of four by three blocks, and one that touches none of its     *)
(* edges: nothing it gathers is clamped.                                   *)
MCPicture == <<16, 12>>
InnerBlock == {<<1, 1>>}
NoBlock == {}

NoEtcBlock == block = [mode |-> "none"] /\ header = <<>> /\ bits = {}
NoBc6h ==
  invocation = <<>> /\ gathered = <<>> /\ hblock = {} /\ blockMSLE = 0 /\ meant = <<>> /\ pattern = 0

MCInit ==
  \/ Init /\ NoBc6h
  \/ NoEtcBlock /\ Bc6hInit

MCNext ==
  \/ block.mode # "none" /\ Next /\ UNCHANGED bc6hVars
  \/ invocation # <<>> /\ Bc6hNext /\ UNCHANGED vars

MCSpec == MCInit /\ [][MCNext]_<<vars, bc6hVars>>
=============================================================================
