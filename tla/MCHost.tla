-------------------------------- MODULE MCHost --------------------------------
(***************************************************************************)
(* The host side of one compression, each part checked by itself: a        *)
(* behaviour is of the image loader, of the command line, of the include   *)
(* parser or of one dispatch, and the other three are idle.                *)
(***************************************************************************)
EXTENDS ImageLoad, CommandLine, IncludeParser, WorkGroups

CONSTANTS Bpps, Qualities

OtherBpp == [FLOAT |-> 32, RGBF |-> 96, RGBAF |-> 128, UINT32 |-> 32, INT32 |-> 32,
             UINT16 |-> 16, INT16 |-> 16, RGB16 |-> 48, RGBA16 |-> 64, DOUBLE |-> 64,
             COMPLEX |-> 128, UNKNOWN |-> 0]

(* Small pictures of every type, with every padding of a row.              *)
Bitmaps ==
  {f \in [type : {"BITMAP"}, bpp : Bpps, width : 1 .. 5, height : 1 .. 3,
          colour : GreyTypes \cup {"PALETTE", "RGB", "RGBALPHA", "CMYK"}, transparent : BOOLEAN] :
     /\ f.colour = "RGB" => f.bpp \in {16, 24, 32} /\ ~f.transparent
     /\ f.colour = "RGBALPHA" => f.bpp = 32 /\ f.transparent
     /\ f.colour = "PALETTE" => f.bpp \in {1, 4, 8}
     /\ f.colour = "CMYK" => f.bpp = 32 /\ ~f.transparent
     /\ f.colour \in GreyTypes => f.bpp \in {1, 4, 8} /\ ~f.transparent}

OtherTypes ==
  UNION {[type : {t}, bpp : {OtherBpp[t]}, width : 1 .. 5, height : 1 .. 3, colour : {"RGB"},
          transparent : {t = "RGBAF"}] : t \in DOMAIN OtherBpp}

MCFile == {None} \cup Bitmaps \cup OtherTypes

(* Up to four arguments of every kind.                                     *)
Argument ==
  [opt : {"codec"}, value : {"bc1", "etc2_rgb", "bc2"}]
  \cup [opt : {"quality"}, value : Qualities]
  \cup [opt : {"dither", "renderdoc", "help", "unknown"}, value : {""}]
  \cup [opt : {"file"}, value : {"in.png", "out.ktx"}]

MCCommandLines == SeqOf(Argument, 4)

(* Three files, the later ones included by the earlier.                    *)
Line(kind, name) == [kind |-> kind, name |-> name]
Links(names) == {Line("include", f) : f \in names} \cup {Line("comment", f) : f \in names}
RootFirst == {Line("version", "v"), Line("include", "a")}
RootLines == Links({"a", "b"}) \cup {Line("text", "r"), Line("include", "missing")}
ALines == Links({"b"}) \cup {Line("version", "v"), Line("text", "s"), Line("include", "missing"), Line("bad", "b")}
BFiles == {<<Line("version", "v"), Line("text", "t")>>, <<Line("text", "t"), Line("text", "u")>>}
OneOrTwo(lines) == {<<l>> : l \in lines} \cup {<<l, m>> : l \in lines, m \in lines}

MCTree ==
  {[f \in {"root", "a", "b"} |-> CASE f = "root" -> <<first>> \o rest [] f = "a" -> a [] f = "b" -> b] :
     first \in RootFirst, rest \in OneOrTwo(RootLines), a \in OneOrTwo(ALines), b \in BFiles}

-----------------------------------------------------------------------------

NoPicture ==
  /\ file = None /\ bitmap = <<>> /\ image = <<>> /\ data = NULL /\ row = 0
  /\ touched = [read |-> {}, written |-> {}] /\ pc = "idle"
NoLine == args = <<>> /\ next = 1 /\ params = <<>> /\ verdict = "idle"
NoSource == tree = <<>> /\ source = <<>> /\ at = 1 /\ parsed = "idle"
NoDispatch == grid = <<>> /\ stores = <<>>

MCInit ==
  \/ Init /\ NoLine /\ NoSource /\ NoDispatch
  \/ NoPicture /\ CmdInit /\ NoSource /\ NoDispatch
  \/ NoPicture /\ NoLine /\ ParserInit /\ NoDispatch
  \/ NoPicture /\ NoLine /\ NoSource /\ GridInit

hostVars == <<vars, cmdVars, parserVars, gridVars>>

Ended ==
  /\ pc = "idle" /\ verdict # "parsing" /\ parsed # "reading" /\ (grid = <<>> \/ stores # <<>>)
  /\ UNCHANGED hostVars

MCNext ==
  \/ Next /\ UNCHANGED <<cmdVars, parserVars, gridVars>>
  \/ CmdNext /\ UNCHANGED <<vars, parserVars, gridVars>>
  \/ ParserNext /\ UNCHANGED <<vars, cmdVars, gridVars>>
  \/ grid # <<>> /\ Dispatch /\ UNCHANGED <<vars, cmdVars, parserVars>>
  \/ Ended

MCSpec == MCInit /\ [][MCNext]_hostVars /\ WF_hostVars(ParserNext /\ UNCHANGED <<vars, cmdVars, gridVars>>)
=============================================================================
