------------------------------ MODULE HostProofs ------------------------------
(***************************************************************************)
(* The host side, proved for every size of picture, every command line and *)
(* every file: the dispatches reach each block once, parseCmdLine returns  *)
(* what was asked, and CpuImage converts within its memory.                *)
(***************************************************************************)
EXTENDS WorkGroups, CommandLine, ImageLoad, FiniteSetTheorems, TLAPS

-----------------------------------------------------------------------------
(* WorkGroups.                                                             *)

(* A group has as many pixels as its blocks have.                          *)
LEMMA PixelsOfGroups ==
  ASSUME NEW shader \in Shader, NEW axis \in 1 .. 2
  PROVE  /\ GroupBlocks[shader][axis] \in {1, 2, 4, 8}
         /\ GroupPixels[shader][axis] = 4 * GroupBlocks[shader][axis]
<1>1. shader \in {"dither555", "bc1", "bc6h", "etc2_rgb_selector", "etc2_rgba_stitch", "etc1", "bc4",
                  "etc2_p", "etc2_th_find_best_c0c1_k_means", "eac", "etc2_th"}
  BY DEF Shader, GroupBlocks
<1>2. axis = 1 \/ axis = 2
  OBVIOUS
<1> QED
  BY <1>1, <1>2 DEF GroupBlocks, GroupPixels

(* One thread along an axis stores to each coordinate of the target.       *)
LEMMA OneStores ==
  ASSUME NEW shader \in Shader, NEW axis \in 1 .. 2, NEW side \in Nat \ {0},
         NEW uv \in 0 .. getBlockSide(side) - 1
  PROVE  Cardinality(Storing(shader, axis, side, uv)) = 1
<1> DEFINE G == GroupBlocks[shader][axis]
           n == groups(shader, axis, side)
<1>1. G \in {1, 2, 4, 8} /\ n = (side + 4 * G - 1) \div (4 * G)
  <2>1. G \in {1, 2, 4, 8} /\ GroupPixels[shader][axis] = 4 * G
    BY PixelsOfGroups
  <2>2. n = (((side + 4 * G - 1) \div (4 * G)) * (4 * G)) \div (4 * G)
    BY <2>1 DEF groups, alignToNextMultiple
  <2> HIDE DEF G, n
  <2> QED
    BY <2>1, <2>2
<1>2. uv \in Nat /\ 4 * uv <= side - 1
  BY DEF getBlockSide
<1>3. Storing(shader, axis, side, uv) = {t \in (0 .. n - 1) \X (0 .. G - 1) : t[1] * G + t[2] = uv}
  BY DEF Storing
<1> HIDE DEF G, n
<1> DEFINE the == <<uv \div G, uv % G>>
<1>4. uv \div G \in 0 .. n - 1 /\ uv % G \in 0 .. G - 1
  BY <1>1, <1>2
<1>5. the[1] * G + the[2] = uv
  BY <1>1, <1>2
<1>6. \A a \in 0 .. n - 1, c \in 0 .. G - 1 : a * G + c = uv => a = uv \div G /\ c = uv % G
  BY <1>1, <1>2
<1>7. Storing(shader, axis, side, uv) = {the}
  BY <1>3, <1>4, <1>5, <1>6
<1> QED
  BY <1>7, FS_Singleton

(* Whatever the sides of a picture, every block of it is stored by one     *)
(* thread, for each of the shaders.                                        *)
THEOREM GroupsCoverThePicture == GridSpec => []EveryBlockIsStoredOnce
<1> DEFINE Inv == grid \in [shader : Shader, width : Side, height : Side] /\ EveryBlockIsStoredOnce
<1>1. GridInit => Inv
  BY DEF GridInit, EveryBlockIsStoredOnce
<1>2. ASSUME Inv, [Dispatch]_gridVars PROVE Inv'
  <2>1. CASE UNCHANGED gridVars
    BY <1>2, <2>1 DEF gridVars, EveryBlockIsStoredOnce
  <2>2. CASE Dispatch
    <3> DEFINE Target == (0 .. getBlockSide(grid.width) - 1) \X (0 .. getBlockSide(grid.height) - 1)
    <3>1. grid.shader \in Shader /\ grid.width \in Nat \ {0} /\ grid.height \in Nat \ {0}
      BY <1>2, WorkGroupsAssumption
    <3>2. ASSUME NEW uv \in Target
          PROVE  /\ Cardinality(Storing(grid.shader, 1, grid.width, uv[1])) = 1
                 /\ Cardinality(Storing(grid.shader, 2, grid.height, uv[2])) = 1
      BY <3>1, OneStores
    <3>3. stores' = [uv \in Target |-> Cardinality(Storing(grid.shader, 1, grid.width, uv[1]))
                                         * Cardinality(Storing(grid.shader, 2, grid.height, uv[2]))]
      BY <2>2 DEF Dispatch
    <3> HIDE DEF Target
    <3>4. \A uv \in DOMAIN stores' : stores'[uv] = 1
      BY <3>2, <3>3
    <3>5. grid' = grid
      BY <2>2 DEF Dispatch
    <3> QED
      BY <1>2, <3>4, <3>5 DEF EveryBlockIsStoredOnce
  <2> QED
    BY <1>2, <2>1, <2>2
<1> QED
  BY <1>1, <1>2, PTL DEF GridSpec

-----------------------------------------------------------------------------
(* CommandLine.                                                            *)

(* The arguments taken so far, and what they ask for.                      *)
Taken(opt) == {i \in 1 .. next - 1 : args[i].opt = opt}

AskedSoFar(opt, default) ==
  IF Taken(opt) = {} THEN {default}
  ELSE {args[i].value : i \in {i \in Taken(opt) : \A j \in Taken(opt) : j <= i}}

FilenamesTaken ==
  \/ Taken("file") = {} /\ params.filename = <<>>
  \/ \E i \in Taken("file") : Taken("file") = {i} /\ params.filename = <<args[i].value>>
  \/ \E i, j \in Taken("file") :
       i < j /\ Taken("file") = {i, j} /\ params.filename = <<args[i].value, args[j].value>>

(* The parameters are at any time what the arguments before the next one   *)
(* ask for, and a line is only accepted when none is left.                 *)
CmdInvariant ==
  /\ args \in CommandLines
  /\ next \in 1 .. Len(args) + 1
  /\ params = [quality |-> params.quality, dither |-> params.dither,
               usingRenderDoc |-> params.usingRenderDoc, codec |-> params.codec,
               filename |-> params.filename]
  /\ verdict \in {"parsing", "accepted", "rejected"}
  /\ params.codec \in AskedSoFar("codec", "etc1")
  /\ \A i \in Taken("codec") : args[i].value \in CodecName
  /\ \E quality \in AskedSoFar("quality", 2) : params.quality = Limited(quality)
  /\ params.dither = (Taken("dither") # {})
  /\ params.usingRenderDoc = (Taken("renderdoc") # {})
  /\ Taken("help") = {} /\ Taken("unknown") = {}
  /\ FilenamesTaken
  /\ verdict = "accepted" => next = Len(args) + 1 /\ Len(params.filename) = 2

(* Taking one more argument adds it to those of its kind and to no other.  *)
LEMMA OneMoreTaken ==
  ASSUME args \in CommandLines, next \in 1 .. Len(args), next' = next + 1, args' = args, NEW opt
  PROVE  /\ args[next].opt = opt => Taken(opt)' = Taken(opt) \cup {next}
         /\ args[next].opt # opt => Taken(opt)' = Taken(opt)
         /\ \A i \in Taken(opt) : i < next /\ i \in Int
<1>1. Len(args) \in Nat
  BY CommandLineAssumption
<1>2. Taken(opt)' = {i \in 1 .. next : args[i].opt = opt}
  BY <1>1 DEF Taken
<1>3. \A i \in 1 .. next : i = next \/ i \in 1 .. next - 1
  BY <1>1
<1>4. 1 .. next - 1 \subseteq 1 .. next /\ next \in 1 .. next
  BY <1>1
<1> QED
  BY <1>1, <1>2, <1>3, <1>4 DEF Taken

(* The last argument of a kind is what is asked for.                       *)
LEMMA LastIsAsked ==
  ASSUME args \in CommandLines, next \in 1 .. Len(args), next' = next + 1, args' = args,
         NEW opt, NEW default
  PROVE  /\ args[next].opt = opt => AskedSoFar(opt, default)' = {args[next].value}
         /\ args[next].opt # opt => AskedSoFar(opt, default)' = AskedSoFar(opt, default)
<1>1. CASE args[next].opt = opt
  <2>1. Taken(opt)' = Taken(opt) \cup {next} /\ \A i \in Taken(opt) : i < next /\ i \in Int
    BY <1>1, OneMoreTaken
  <2>2. next \in Int
    BY CommandLineAssumption
  <2>3. {i \in Taken(opt)' : \A j \in Taken(opt)' : j <= i} = {next}
    BY <2>1, <2>2
  <2>4. Taken(opt)' # {}
    BY <2>1
  <2>5. AskedSoFar(opt, default)' = {args[i].value : i \in {next}}
    BY <2>3, <2>4 DEF AskedSoFar
  <2> QED
    BY <1>1, <2>5
<1>2. CASE args[next].opt # opt
  BY <1>2, OneMoreTaken DEF AskedSoFar
<1> QED
  BY <1>1, <1>2

(* Nothing is taken before the first argument.                             *)
LEMMA CmdStarts == CmdInit => CmdInvariant
<1> SUFFICES ASSUME CmdInit PROVE CmdInvariant
  OBVIOUS
<1>1. \A opt : Taken(opt) = {}
  BY DEF CmdInit, Taken
<1>2. Limited(2) = 2
  BY DEF Limited, UCHAR
<1>3. AskedSoFar("codec", "etc1") = {"etc1"} /\ AskedSoFar("quality", 2) = {2}
  BY <1>1 DEF AskedSoFar
<1>4. Len(args) \in Nat
  BY CommandLineAssumption DEF CmdInit
<1>5. FilenamesTaken
  BY <1>1 DEF CmdInit, FilenamesTaken
<1>6. verdict # "accepted" /\ verdict \in {"parsing", "accepted", "rejected"}
  BY DEF CmdInit
<1>7. next \in 1 .. Len(args) + 1 /\ args \in CommandLines
  BY <1>4 DEF CmdInit
<1>8. params = [quality |-> 2, dither |-> FALSE, usingRenderDoc |-> FALSE, codec |-> "etc1",
                filename |-> <<>>]
  BY DEF CmdInit
<1>9. /\ params = [quality |-> params.quality, dither |-> params.dither,
                   usingRenderDoc |-> params.usingRenderDoc, codec |-> params.codec,
                   filename |-> params.filename]
      /\ params.quality = 2 /\ params.dither = FALSE /\ params.usingRenderDoc = FALSE
      /\ params.codec = "etc1"
  BY <1>8
<1> QED
  BY <1>1, <1>2, <1>3, <1>5, <1>6, <1>7, <1>9 DEF CmdInvariant

(* Each action takes one argument, or stops.                               *)
LEMMA CmdSteps == CmdInvariant /\ [CmdNext]_cmdVars => CmdInvariant'
<1> SUFFICES ASSUME CmdInvariant, [CmdNext]_cmdVars PROVE CmdInvariant'
  OBVIOUS
<1>1. CASE UNCHANGED <<args, next, params>> /\ verdict' \in {verdict, "rejected"}
  <2>1. \A opt : Taken(opt)' = Taken(opt)
    BY <1>1 DEF Taken
  <2>2. \A opt, default : AskedSoFar(opt, default)' = AskedSoFar(opt, default)
    BY <1>1, <2>1 DEF AskedSoFar
  <2>3. FilenamesTaken'
    BY <1>1, <2>1 DEF CmdInvariant, FilenamesTaken
  <2>4. /\ verdict' \in {"parsing", "accepted", "rejected"}
        /\ verdict' = "accepted" => verdict = "accepted"
    BY <1>1 DEF CmdInvariant
  <2> QED
    BY <1>1, <2>1, <2>2, <2>3, <2>4 DEF CmdInvariant
<1>2. ASSUME NEW opt, NEW newParams, Parsing(opt), Accept(newParams)
      PROVE  /\ args \in CommandLines /\ next \in 1 .. Len(args)
             /\ next' = next + 1 /\ args' = args /\ args[next].opt = opt /\ params' = newParams
             /\ args' \in CommandLines /\ next' \in 1 .. Len(args') + 1
             /\ verdict' \in {"parsing", "accepted", "rejected"} /\ verdict' # "accepted"
  <2>1. Len(args) \in Nat
    BY CommandLineAssumption DEF CmdInvariant
  <2> QED
    BY <1>2, <2>1 DEF Parsing, Accept, CmdInvariant
<1>3. ASSUME NEW opt, NEW newParams, Parsing(opt), Accept(newParams)
      PROVE  /\ Taken(opt)' = Taken(opt) \cup {next}
             /\ \A other : other # opt => Taken(other)' = Taken(other)
             /\ \A default : AskedSoFar(opt, default)' = {args[next].value}
             /\ \A other, default : other # opt => AskedSoFar(other, default)' = AskedSoFar(other, default)
             /\ \A other : \A i \in Taken(other) : i < next /\ i \in Int
  <2>1. /\ args \in CommandLines /\ next \in 1 .. Len(args)
        /\ next' = next + 1 /\ args' = args /\ args[next].opt = opt
    BY <1>3, <1>2
  <2>2. \A other : other # opt => Taken(other)' = Taken(other)
    BY <2>1, OneMoreTaken
  <2>3. Taken(opt)' = Taken(opt) \cup {next}
    BY <2>1, OneMoreTaken
  <2>4. \A default : AskedSoFar(opt, default)' = {args[next].value}
    BY <2>1, LastIsAsked
  <2>5. \A other, default : other # opt => AskedSoFar(other, default)' = AskedSoFar(other, default)
    BY <2>1, LastIsAsked
  <2>6. \A other : \A i \in Taken(other) : i < next /\ i \in Int
    BY <2>1, OneMoreTaken
  <2> QED
    BY <2>2, <2>3, <2>4, <2>5, <2>6
<1>4. ASSUME NEW opt, NEW newParams, Parsing(opt), Accept(newParams), opt # "file",
             newParams.filename = params.filename
      PROVE  FilenamesTaken'
  <2>1. Taken("file")' = Taken("file") /\ args' = args /\ params'.filename = params.filename
    BY <1>4, <1>2, <1>3
  <2> QED
    BY <2>1 DEF CmdInvariant, FilenamesTaken
<1>5. ASSUME NEW opt \in {"codec", "quality", "dither", "renderdoc", "file"}, NEW newParams,
             Parsing(opt), Accept(newParams),
             newParams = [quality |-> newParams.quality, dither |-> newParams.dither,
                          usingRenderDoc |-> newParams.usingRenderDoc, codec |-> newParams.codec,
                          filename |-> newParams.filename],
             newParams.codec = IF opt = "codec" THEN args[next].value ELSE params.codec,
             opt = "codec" => args[next].value \in CodecName,
             newParams.quality = IF opt = "quality" THEN Limited(args[next].value) ELSE params.quality,
             newParams.dither = IF opt = "dither" THEN TRUE ELSE params.dither,
             newParams.usingRenderDoc = IF opt = "renderdoc" THEN TRUE ELSE params.usingRenderDoc,
             FilenamesTaken'
      PROVE  CmdInvariant'
  <2>1. /\ args' = args /\ next' = next + 1 /\ args[next].opt = opt /\ params' = newParams
        /\ args' \in CommandLines /\ next' \in 1 .. Len(args') + 1
        /\ verdict' \in {"parsing", "accepted", "rejected"} /\ verdict' # "accepted"
    BY <1>2, <1>5
  <2>2. /\ Taken(opt)' = Taken(opt) \cup {next}
        /\ \A other : other # opt => Taken(other)' = Taken(other)
        /\ \A default : AskedSoFar(opt, default)' = {args[next].value}
        /\ \A other, default : other # opt => AskedSoFar(other, default)' = AskedSoFar(other, default)
    BY <1>3, <1>5
  <2>3. params'.codec \in AskedSoFar("codec", "etc1")'
    <3>1. params.codec \in AskedSoFar("codec", "etc1")
      BY DEF CmdInvariant
    <3>2. CASE opt = "codec"
      <4>1. AskedSoFar("codec", "etc1")' = {args[next].value}
        BY <2>2, <3>2
      <4> QED
        BY <1>5, <2>1, <3>2, <4>1
    <3>3. CASE opt # "codec"
      <4>1. AskedSoFar("codec", "etc1")' = AskedSoFar("codec", "etc1")
        BY <2>2, <3>3
      <4> QED
        BY <1>5, <2>1, <3>1, <3>3, <4>1
    <3> QED
      BY <3>2, <3>3
  <2>4. \A i \in Taken("codec")' : args'[i].value \in CodecName
    <3>1. CASE opt = "codec"
      BY <1>5, <2>1, <2>2, <3>1 DEF CmdInvariant
    <3>2. CASE opt # "codec"
      BY <2>1, <2>2, <3>2 DEF CmdInvariant
    <3> QED
      BY <3>1, <3>2
  <2>5. \E quality \in AskedSoFar("quality", 2)' : params'.quality = Limited(quality)
    <3>1. \E quality \in AskedSoFar("quality", 2) : params.quality = Limited(quality)
      BY DEF CmdInvariant
    <3>2. CASE opt = "quality"
      <4>1. AskedSoFar("quality", 2)' = {args[next].value}
        BY <2>2, <3>2
      <4> QED
        BY <1>5, <2>1, <3>2, <4>1
    <3>3. CASE opt # "quality"
      <4>1. AskedSoFar("quality", 2)' = AskedSoFar("quality", 2)
        BY <2>2, <3>3
      <4> QED
        BY <1>5, <2>1, <3>1, <3>3, <4>1
    <3> QED
      BY <3>2, <3>3
  <2>6. params'.dither = (Taken("dither")' # {})
    <3>1. params.dither = (Taken("dither") # {})
      BY DEF CmdInvariant
    <3>2. CASE opt = "dither"
      <4>1. Taken("dither")' # {}
        BY <2>2, <3>2
      <4>2. params'.dither = TRUE
        BY <1>5, <2>1, <3>2
      <4> QED
        BY <4>1, <4>2
    <3>3. CASE opt # "dither"
      <4>1. Taken("dither")' = Taken("dither")
        BY <2>2, <3>3
      <4>2. params'.dither = params.dither
        BY <1>5, <2>1, <3>3
      <4> QED
        BY <3>1, <4>1, <4>2
    <3> QED
      BY <3>2, <3>3
  <2>7. params'.usingRenderDoc = (Taken("renderdoc")' # {})
    <3>1. params.usingRenderDoc = (Taken("renderdoc") # {})
      BY DEF CmdInvariant
    <3>2. CASE opt = "renderdoc"
      <4>1. Taken("renderdoc")' # {}
        BY <2>2, <3>2
      <4>2. params'.usingRenderDoc = TRUE
        BY <1>5, <2>1, <3>2
      <4> QED
        BY <4>1, <4>2
    <3>3. CASE opt # "renderdoc"
      <4>1. Taken("renderdoc")' = Taken("renderdoc")
        BY <2>2, <3>3
      <4>2. params'.usingRenderDoc = params.usingRenderDoc
        BY <1>5, <2>1, <3>3
      <4> QED
        BY <3>1, <4>1, <4>2
    <3> QED
      BY <3>2, <3>3
  <2>8. Taken("help")' = {} /\ Taken("unknown")' = {}
    BY <2>2, <1>5 DEF CmdInvariant
  <2>9. params' = [quality |-> params'.quality, dither |-> params'.dither,
                   usingRenderDoc |-> params'.usingRenderDoc, codec |-> params'.codec,
                   filename |-> params'.filename]
    BY <1>5, <2>1
  <2> QED
    BY <1>5, <2>1, <2>3, <2>4, <2>5, <2>6, <2>7, <2>8, <2>9 DEF CmdInvariant
<1>6. params = [quality |-> params.quality, dither |-> params.dither,
                usingRenderDoc |-> params.usingRenderDoc, codec |-> params.codec,
                filename |-> params.filename]
  BY DEF CmdInvariant
<1>7. CASE Codec
  <2>1. CASE RejectLine
    BY <2>1, <1>1 DEF RejectLine
  <2>2. CASE args[next].value \in CodecName /\ Accept([params EXCEPT !.codec = args[next].value])
    <3> DEFINE new == [params EXCEPT !.codec = args[next].value]
    <3>1. new = [quality |-> params.quality, dither |-> params.dither,
                 usingRenderDoc |-> params.usingRenderDoc, codec |-> args[next].value,
                 filename |-> params.filename]
      BY <1>6
    <3>2. Parsing("codec") /\ Accept(new)
      BY <1>7, <2>2 DEF Codec
    <3> HIDE DEF new
    <3>3. new.filename = params.filename
      BY <3>1
    <3>4. FilenamesTaken'
      BY <1>4, <3>2, <3>3
    <3> QED
      BY <1>5, <2>2, <3>1, <3>2, <3>4
  <2> QED
    BY <1>7, <2>1, <2>2 DEF Codec
<1>8. CASE Quality
  <2> DEFINE new == [params EXCEPT !.quality = Limited(args[next].value)]
  <2>1. new = [quality |-> Limited(args[next].value), dither |-> params.dither,
               usingRenderDoc |-> params.usingRenderDoc, codec |-> params.codec,
               filename |-> params.filename]
    BY <1>6
  <2>2. Parsing("quality") /\ Accept(new)
    BY <1>8 DEF Quality
  <2> HIDE DEF new
  <2>3. new.filename = params.filename
    BY <2>1
  <2>4. FilenamesTaken'
    BY <1>4, <2>2, <2>3
  <2> QED
    BY <1>5, <2>1, <2>2, <2>4
<1>9. CASE Dither
  <2> DEFINE new == [params EXCEPT !.dither = TRUE]
  <2>1. ASSUME NEW v
        PROVE  [params EXCEPT !.dither = v]
                 = [quality |-> params.quality, dither |-> v, usingRenderDoc |-> params.usingRenderDoc,
                    codec |-> params.codec, filename |-> params.filename]
    BY <1>6
  <2>2. new = [quality |-> params.quality, dither |-> TRUE,
               usingRenderDoc |-> params.usingRenderDoc, codec |-> params.codec,
               filename |-> params.filename]
    BY <2>1
  <2>3. Parsing("dither") /\ Accept(new)
    BY <1>9 DEF Dither
  <2> HIDE DEF new
  <2>4. new.filename = params.filename
    BY <2>2
  <2>5. FilenamesTaken'
    BY <1>4, <2>3, <2>4
  <2> QED
    BY <1>5, <2>2, <2>3, <2>5
<1>10. CASE RenderDoc
  <2> DEFINE new == [params EXCEPT !.usingRenderDoc = TRUE]
  <2>1. ASSUME NEW v
        PROVE  [params EXCEPT !.usingRenderDoc = v]
                 = [quality |-> params.quality, dither |-> params.dither, usingRenderDoc |-> v,
                    codec |-> params.codec, filename |-> params.filename]
    BY <1>6
  <2>2. new = [quality |-> params.quality, dither |-> params.dither,
               usingRenderDoc |-> TRUE, codec |-> params.codec,
               filename |-> params.filename]
    BY <2>1
  <2>3. Parsing("renderdoc") /\ Accept(new)
    BY <1>10 DEF RenderDoc
  <2> HIDE DEF new
  <2>4. new.filename = params.filename
    BY <2>2
  <2>5. FilenamesTaken'
    BY <1>4, <2>3, <2>4
  <2> QED
    BY <1>5, <2>2, <2>3, <2>5
<1>11. CASE HelpOrUnknown
  BY <1>1, <1>11 DEF HelpOrUnknown, RejectLine
<1>12. CASE Filename
  <2> DEFINE new == [params EXCEPT !.filename = Append(@, args[next].value)]
  <2>1. CASE RejectLine
    BY <2>1, <1>1 DEF RejectLine
  <2>2. CASE Len(params.filename) < 2 /\ Accept(new)
    <3>1. new = [quality |-> params.quality, dither |-> params.dither,
                 usingRenderDoc |-> params.usingRenderDoc, codec |-> params.codec,
                 filename |-> Append(params.filename, args[next].value)]
      BY <1>6
    <3>2. Parsing("file") /\ Accept(new)
      BY <1>12, <2>2 DEF Filename
    <3> HIDE DEF new
    <3>3. new.filename = Append(params.filename, args[next].value)
      BY <3>1
    <3>4. FilenamesTaken'
      <4>1. /\ Taken("file")' = Taken("file") \cup {next}
            /\ \A i \in Taken("file") : i < next
        BY <1>3, <3>2
      <4>2. args' = args /\ params' = new
        BY <3>2 DEF Accept
      <4>3. CASE Taken("file") = {} /\ params.filename = <<>>
        <5>1. params'.filename = <<args[next].value>>
          BY <3>3, <4>2, <4>3
        <5> QED
          BY <4>1, <4>2, <4>3, <5>1 DEF FilenamesTaken
      <4>4. ASSUME NEW i \in Taken("file"), Taken("file") = {i}, params.filename = <<args[i].value>>
            PROVE  FilenamesTaken'
        <5>1. params'.filename = <<args[i].value, args[next].value>>
          BY <3>3, <4>2, <4>4
        <5>2. i < next /\ Taken("file")' = {i, next}
          BY <4>1, <4>4
        <5> QED
          BY <4>2, <5>1, <5>2 DEF FilenamesTaken
      <4>5. ASSUME NEW i \in Taken("file"), NEW j \in Taken("file"),
                   params.filename = <<args[i].value, args[j].value>>
            PROVE  FALSE
        <5>1. Len(<<args[i].value, args[j].value>>) = 2
          OBVIOUS
        <5> QED
          BY <2>2, <4>5, <5>1
      <4> QED
        BY <4>3, <4>4, <4>5 DEF CmdInvariant, FilenamesTaken
    <3> QED
      BY <1>5, <3>1, <3>2, <3>4
  <2> QED
    BY <1>12, <2>1, <2>2 DEF Filename
<1>13. CASE EndOfLine
  <2>1. verdict' = IF Len(params.filename) = 2 THEN "accepted" ELSE "rejected"
    BY <1>13 DEF EndOfLine
  <2>2. CASE Len(params.filename) # 2
    BY <1>1, <1>13, <2>1, <2>2 DEF EndOfLine
  <2>3. CASE Len(params.filename) = 2
    <3>1. UNCHANGED <<args, next, params>> /\ next > Len(args)
      BY <1>13 DEF EndOfLine
    <3>2. next = Len(args) + 1
      BY <3>1, CommandLineAssumption DEF CmdInvariant
    <3>3. \A opt : Taken(opt)' = Taken(opt)
      BY <3>1 DEF Taken
    <3>4. \A opt, default : AskedSoFar(opt, default)' = AskedSoFar(opt, default)
      BY <3>1, <3>3 DEF AskedSoFar
    <3>5. FilenamesTaken'
      BY <3>1, <3>3 DEF CmdInvariant, FilenamesTaken
    <3> QED
      BY <2>1, <2>3, <3>1, <3>2, <3>3, <3>4, <3>5 DEF CmdInvariant
  <2> QED
    BY <2>2, <2>3
<1>14. CASE UNCHANGED cmdVars
  BY <1>1, <1>14 DEF cmdVars
<1> QED
  BY <1>7, <1>8, <1>9, <1>10, <1>11, <1>12, <1>13, <1>14 DEF CmdNext

(* A command line that is accepted asks for exactly what its arguments     *)
(* say, whatever their number and order.                                   *)
THEOREM ArgumentsAreObeyed == CmdSpec => []RequestIsWhatWasAsked
<1>1. CmdInvariant => RequestIsWhatWasAsked
  <2> SUFFICES ASSUME CmdInvariant, verdict = "accepted" PROVE RequestIsWhatWasAsked
    BY DEF RequestIsWhatWasAsked
  <2>1. next = Len(args) + 1 /\ Len(args) \in Nat /\ DOMAIN args = 1 .. Len(args)
    BY CommandLineAssumption DEF CmdInvariant
  <2>2. 1 .. next - 1 = DOMAIN args
    BY <2>1
  <2>3. \A opt : Taken(opt) = Given(opt)
    BY <2>2 DEF Taken, Given
  <2>4. \A opt, default : AskedSoFar(opt, default) = Asked(opt, default)
    BY <2>3 DEF AskedSoFar, Asked
  <2>5. PICK quality \in Asked("quality", 2) : params.quality = Limited(quality)
    BY <2>4 DEF CmdInvariant
  <2>6. quality \in 0 .. UCHAR - 1 => params.quality = (IF quality > 2 THEN 2 ELSE quality)
    BY <2>5 DEF Limited, UCHAR
  <2>7. \E i, j \in Given("file") :
          i < j /\ Given("file") = {i, j} /\ params.filename = <<args[i].value, args[j].value>>
    <3>1. Len(params.filename) = 2
      BY DEF CmdInvariant
    <3>2. params.filename # <<>>
      <4>1. Len(<<>>) = 0
        OBVIOUS
      <4> QED
        BY <3>1, <4>1
    <3>3. ASSUME NEW i, params.filename = <<args[i].value>> PROVE FALSE
      <4>1. Len(<<args[i].value>>) = 1
        OBVIOUS
      <4> QED
        BY <3>1, <3>3, <4>1
    <3> QED
      BY <2>3, <3>2, <3>3 DEF CmdInvariant, FilenamesTaken
  <2>8. params.codec \in Asked("codec", "etc1")
    BY <2>4 DEF CmdInvariant
  <2>9. params.dither = (Given("dither") # {}) /\ params.usingRenderDoc = (Given("renderdoc") # {})
    BY <2>3 DEF CmdInvariant
  <2>10. /\ Given("help") \cup Given("unknown") = {}
         /\ \A i \in Given("codec") : args[i].value \in CodecName
    BY <2>3 DEF CmdInvariant
  <2> QED
    BY <2>5, <2>6, <2>7, <2>8, <2>9, <2>10 DEF RequestIsWhatWasAsked
<1> QED
  BY <1>1, CmdStarts, CmdSteps, PTL DEF CmdSpec

-----------------------------------------------------------------------------
(* ImageLoad: the arithmetic of rows.                                      *)

(* A product grows with its first factor.                                  *)
LEMMA ProductGrows ==
  ASSUME NEW a \in Nat, NEW b \in Nat, NEW n \in Nat, a <= b
  PROVE  a * n <= b * n /\ a * n \in Nat /\ b * n \in Nat
<1>1. b * n = a * n + (b - a) * n
  OBVIOUS
<1>2. (b - a) * n >= 0 /\ a * n >= 0 /\ a * n \in Int /\ (b - a) * n \in Int
  OBVIOUS
<1> QED
  BY <1>1, <1>2

(* Where row y starts, one row ends before the next one does.              *)
LEMMA RowFits ==
  ASSUME NEW rows \in Nat, NEW y \in 0 .. rows - 1, NEW n \in Nat
  PROVE  y * n \in Nat /\ rows * n \in Nat /\ y * n + n <= rows * n
<1>1. y + 1 \in Nat /\ y + 1 <= rows /\ y \in Nat
  OBVIOUS
<1>2. (y + 1) * n <= rows * n /\ rows * n \in Nat
  BY <1>1, ProductGrows
<1>3. (y + 1) * n = y * n + n
  OBVIOUS
<1>4. y * n \in Nat
  BY <1>1
<1> QED
  BY <1>2, <1>3, <1>4

(* What has a row and a place in it has one row and one place only.        *)
LEMMA OneRowOnePlace ==
  ASSUME NEW n \in Nat, NEW a \in Nat, NEW b \in Nat, NEW i \in 0 .. n - 1, NEW j \in 0 .. n - 1,
         a * n + i = b * n + j
  PROVE  a = b /\ i = j
<1>1. ASSUME NEW p \in Nat, NEW q \in Nat, p < q, NEW k \in 0 .. n - 1, NEW l \in 0 .. n - 1
      PROVE  p * n + k < q * n + l
  <2>1. p \in 0 .. q - 1
    BY <1>1
  <2>2. p * n \in Nat /\ q * n \in Nat /\ p * n + n <= q * n
    BY <2>1, RowFits
  <2> QED
    BY <2>2
<1>2. ~(a < b) /\ ~(b < a)
  BY <1>1
<1>3. a = b
  BY <1>2
<1>4. a * n \in Nat
  BY ProductGrows
<1> QED
  BY <1>3, <1>4

(* Dividing by the length of a row gives the row, and leaves the place.    *)
LEMMA RowOfAddress ==
  ASSUME NEW n \in Nat, NEW a \in Nat, NEW i \in 0 .. n - 1
  PROVE  (a * n + i) \div n = a /\ (a * n + i) % n = i
<1> DEFINE address == a * n + i
           q == address \div n
           r == address % n
<1>1. n > 0 /\ a * n \in Nat
  BY ProductGrows
<1>2. address \in Nat
  BY <1>1
<1> HIDE DEF address
<1>3. q \in Nat /\ r \in 0 .. n - 1 /\ address = q * n + r
  BY <1>1, <1>2
<1>4. address = a * n + i
  BY DEF address
<1> HIDE DEF q, r
<1>5. q = a /\ r = i
  BY <1>3, <1>4, OneRowOnePlace
<1> QED
  BY <1>5 DEF q, r, address

-----------------------------------------------------------------------------
(* ImageLoad: the bitmaps that are converted.                              *)

Pictures == {"BITMAP", "FLOAT", "RGBF", "RGBAF"}

(* The pictures whose rows are converted.                                  *)
Kept(f) == f \in File /\ f # None /\ f.type \in Pictures /\ ~Rejected(Converted(f))

(* Converting changes the bits per pixel only, and what is not rejected    *)
(* has whole components; a transparent bitmap keeps four of them.          *)
LEMMA ConvertedBitmap ==
  ASSUME NEW f, Kept(f), NEW b, b = Converted(f)
  PROVE  /\ b.type = f.type /\ b.width = f.width /\ b.height = f.height
         /\ b.width \in Nat \ {0} /\ b.height \in Nat \ {0}
         /\ \/ b.type = "BITMAP" /\ b.bpp = 24
            \/ b.type = "BITMAP" /\ b.bpp = 32
            \/ b.type = "FLOAT" /\ b.bpp = 32
            \/ b.type = "RGBF" /\ b.bpp = 96
            \/ b.type = "RGBAF" /\ b.bpp = 128
         /\ f.transparent => b.type = "RGBAF" \/ (b.type = "BITMAP" /\ b.bpp = 32)
<1>1. /\ f \in [type : ImageTypes, bpp : Nat, width : Nat \ {0}, height : Nat \ {0},
                colour : GreyTypes \cup {"PALETTE", "RGB", "RGBALPHA", "CMYK"}, transparent : BOOLEAN]
      /\ f.type = "BITMAP" => f.bpp \in {1, 4, 8, 16, 24, 32}
      /\ f.type = "FLOAT" => f.bpp = 32
      /\ f.type = "RGBF"  => f.bpp = 96
      /\ f.type = "RGBAF" => f.bpp = 128
      /\ f.transparent =>
           \/ f.type \in {"RGBA16", "RGBAF"}
           \/ f.type = "BITMAP" /\ f.bpp \in {1, 4, 8, 32}
      /\ f.type \in Pictures /\ ~Rejected(b)
  BY ImageLoadAssumption DEF Kept
<1>2. ASSUME NEW n \in Nat
      PROVE  LET g == [f EXCEPT !.bpp = n]
             IN  g.type = f.type /\ g.width = f.width /\ g.height = f.height /\ g.bpp = n
  BY <1>1
<1>3. CASE f.type # "BITMAP"
  <2>1. b = f
    BY <1>3 DEF Converted
  <2> QED
    BY <1>1, <1>3, <2>1 DEF Pictures
<1>4. CASE f.type = "BITMAP"
  <2>1. CASE f.colour \in GreyTypes
    <3>1. b = [f EXCEPT !.bpp = 8]
      BY <1>4, <2>1 DEF Converted, IsPaletted
    <3>2. b.type = "BITMAP" /\ b.bpp = 8
      BY <1>2, <1>4, <3>1
    <3> QED
      BY <1>1, <3>2 DEF Rejected
  <2>2. CASE f.colour \notin GreyTypes /\ IsPaletted(f)
    <3>1. b = [f EXCEPT !.bpp = IF f.transparent THEN 32 ELSE 24]
      BY <1>4, <2>2 DEF Converted
    <3>2. CASE f.transparent
      <4>1. b = [f EXCEPT !.bpp = 32]
        BY <3>1, <3>2
      <4> QED
        BY <1>1, <1>2, <1>4, <4>1
    <3>3. CASE ~f.transparent
      <4>1. b = [f EXCEPT !.bpp = 24]
        BY <3>1, <3>3
      <4>2. f.transparent = FALSE
        BY <1>1, <3>3
      <4> QED
        BY <1>1, <1>2, <1>4, <4>1, <4>2
    <3> QED
      BY <3>2, <3>3
  <2>3. CASE f.colour \notin GreyTypes /\ ~IsPaletted(f)
    <3>1. b = f
      BY <1>4, <2>3 DEF Converted
    <3>2. f.bpp >= 8
      BY <1>1, <2>3 DEF IsPaletted
    <3>3. f.bpp \notin {8, 16}
      BY <1>1, <1>4, <3>1 DEF Rejected
    <3>4. f.bpp \in {24, 32}
      BY <1>1, <1>4, <3>2, <3>3
    <3>5. f.bpp = 24 => f.transparent = FALSE
      BY <1>1, <1>4
    <3> QED
      BY <1>1, <1>4, <3>1, <3>4, <3>5
  <2> QED
    BY <2>1, <2>2, <2>3
<1> QED
  BY <1>3, <1>4

(* What component c of a texel is made of: "one" for the constant.         *)
Made(b, c) == IF Conversion(b)[c] = 0 THEN "one" ELSE InMemory(b)[Conversion(b)[c]]

(* The names of the components of a texel, for each kind of bitmap.        *)
LEMMA ComponentsOfBitmap ==
  ASSUME NEW b,
         \/ b.type = "BITMAP" /\ b.bpp \in {24, 32}
         \/ b.type \in {"FLOAT", "RGBF", "RGBAF"}
  PROVE  /\ b.type = "BITMAP" /\ b.bpp = 24 =>
              Len(InMemory(b)) = 3 /\ InMemory(b) = <<"B", "G", "R">> /\ Conversion(b) = <<3, 2, 1, 0>>
         /\ b.type = "BITMAP" /\ b.bpp = 32 =>
              Len(InMemory(b)) = 4 /\ InMemory(b) = <<"B", "G", "R", "A">> /\ Conversion(b) = <<3, 2, 1, 4>>
         /\ b.type = "FLOAT" =>
              Len(InMemory(b)) = 1 /\ InMemory(b) = <<"L">> /\ Conversion(b) = <<1, 1, 1, 0>>
         /\ b.type = "RGBF" =>
              Len(InMemory(b)) = 3 /\ InMemory(b) = <<"R", "G", "B">> /\ Conversion(b) = <<3, 2, 1, 0>>
         /\ b.type = "RGBAF" =>
              Len(InMemory(b)) = 4 /\ InMemory(b) = <<"R", "G", "B", "A">> /\ Conversion(b) = <<3, 2, 1, 4>>
<1>1. ASSUME Len(InMemory(b)) = 3 PROVE Conversion(b) = <<3, 2, 1, 0>>
  BY <1>1 DEF Conversion
<1>2. ASSUME Len(InMemory(b)) = 4 PROVE Conversion(b) = <<3, 2, 1, 4>>
  BY <1>2 DEF Conversion
<1>3. ASSUME Len(InMemory(b)) = 1 PROVE Conversion(b) = <<1, 1, 1, 0>>
  BY <1>3 DEF Conversion
<1>4. b.type = "BITMAP" /\ b.bpp = 24 => InMemory(b) = <<"B", "G", "R">>
  BY DEF InMemory
<1>5. b.type = "BITMAP" /\ b.bpp = 32 => InMemory(b) = <<"B", "G", "R", "A">>
  BY DEF InMemory
<1>6. b.type = "FLOAT" => InMemory(b) = <<"L">>
  BY DEF InMemory
<1>7. b.type = "RGBF" => InMemory(b) = <<"R", "G", "B">>
  BY DEF InMemory
<1>8. b.type = "RGBAF" => InMemory(b) = <<"R", "G", "B", "A">>
  BY DEF InMemory
<1>9. /\ Len(<<"B", "G", "R">>) = 3 /\ Len(<<"B", "G", "R", "A">>) = 4 /\ Len(<<"L">>) = 1
      /\ Len(<<"R", "G", "B">>) = 3 /\ Len(<<"R", "G", "B", "A">>) = 4
  OBVIOUS
<1> QED
  BY <1>1, <1>2, <1>3, <1>4, <1>5, <1>6, <1>7, <1>8, <1>9

(* A row has room for its texels, a texel for its components, and the      *)
(* loop takes each texel of a row once, though the float conversions find  *)
(* the width from the pitch.                                               *)
LEMMA Geometry ==
  ASSUME Kept(file), bitmap = Converted(file), image.width = file.width
  PROVE  /\ ComponentBytes \in {1, 4} /\ TexelBytes \in {3, 4, 12, 16}
         /\ \A c \in 1 .. 4 :
              /\ Conversion(bitmap)[c] \in 0 .. 4
              /\ Conversion(bitmap)[c] # 0 =>
                   (Conversion(bitmap)[c] - 1) * ComponentBytes + ComponentBytes <= TexelBytes
         /\ Columns = file.width
         /\ pitch(bitmap) \in Nat /\ file.width * TexelBytes <= pitch(bitmap)
<1>1. /\ bitmap.width = file.width /\ bitmap.width \in Nat \ {0}
      /\ \/ bitmap.type = "BITMAP" /\ bitmap.bpp = 24
         \/ bitmap.type = "BITMAP" /\ bitmap.bpp = 32
         \/ bitmap.type = "FLOAT" /\ bitmap.bpp = 32
         \/ bitmap.type = "RGBF" /\ bitmap.bpp = 96
         \/ bitmap.type = "RGBAF" /\ bitmap.bpp = 128
  <2>1. bitmap.type = file.type /\ bitmap.width = file.width /\ bitmap.height = file.height
    BY ConvertedBitmap
  <2>2. bitmap.width \in Nat \ {0}
    BY ConvertedBitmap
  <2>3. \/ bitmap.type = "BITMAP" /\ bitmap.bpp = 24
        \/ bitmap.type = "BITMAP" /\ bitmap.bpp = 32
        \/ bitmap.type = "FLOAT" /\ bitmap.bpp = 32
        \/ bitmap.type = "RGBF" /\ bitmap.bpp = 96
        \/ bitmap.type = "RGBAF" /\ bitmap.bpp = 128
    BY ConvertedBitmap
  <2> QED
    BY <2>1, <2>2, <2>3
<1> DEFINE P == pitch(bitmap)
           w == bitmap.width
<1>2. P = (((w * bitmap.bpp + 7) \div 8 + 3) \div 4) * 4
  BY DEF pitch, alignToNextMultiple
<1>3. CASE bitmap.type = "BITMAP" /\ bitmap.bpp = 24
  <2>1. Len(InMemory(bitmap)) = 3 /\ Conversion(bitmap) = <<3, 2, 1, 0>>
    BY <1>3, ComponentsOfBitmap
  <2>2. ComponentBytes = 1 /\ TexelBytes = 3
    BY <1>3, <2>1 DEF ComponentBytes, TexelBytes
  <2>3. Columns = file.width
    BY <1>3 DEF Columns
  <2>4. P \in Nat /\ w * 3 <= P
    BY <1>1, <1>2, <1>3
  <2> QED
    BY <1>1, <2>1, <2>2, <2>3, <2>4
<1>4. CASE bitmap.type = "BITMAP" /\ bitmap.bpp = 32
  <2>1. Len(InMemory(bitmap)) = 4 /\ Conversion(bitmap) = <<3, 2, 1, 4>>
    BY <1>4, ComponentsOfBitmap
  <2>2. ComponentBytes = 1 /\ TexelBytes = 4
    BY <1>4, <2>1 DEF ComponentBytes, TexelBytes
  <2>3. Columns = file.width
    BY <1>4 DEF Columns
  <2>4. P \in Nat /\ w * 4 <= P
    BY <1>1, <1>2, <1>4
  <2> QED
    BY <1>1, <2>1, <2>2, <2>3, <2>4
<1>5. CASE bitmap.type = "FLOAT" /\ bitmap.bpp = 32
  <2>1. Len(InMemory(bitmap)) = 1 /\ Conversion(bitmap) = <<1, 1, 1, 0>>
    BY <1>5, ComponentsOfBitmap
  <2>2. ComponentBytes = 4 /\ TexelBytes = 4
    BY <1>5, <2>1 DEF ComponentBytes, TexelBytes
  <2>3. P \in Nat /\ w * 4 = P
    BY <1>1, <1>2, <1>5
  <2>4. Columns = file.width
    BY <1>1, <1>5, <2>3 DEF Columns
  <2> QED
    BY <1>1, <2>1, <2>2, <2>3, <2>4
<1>6. CASE bitmap.type = "RGBF" /\ bitmap.bpp = 96
  <2>1. Len(InMemory(bitmap)) = 3 /\ Conversion(bitmap) = <<3, 2, 1, 0>>
    BY <1>6, ComponentsOfBitmap
  <2>2. ComponentBytes = 4 /\ TexelBytes = 12
    BY <1>6, <2>1 DEF ComponentBytes, TexelBytes
  <2>3. P \in Nat /\ w * 12 = P
    BY <1>1, <1>2, <1>6
  <2>4. Columns = file.width
    BY <1>1, <1>6, <2>3 DEF Columns
  <2> QED
    BY <1>1, <2>1, <2>2, <2>3, <2>4
<1>7. CASE bitmap.type = "RGBAF" /\ bitmap.bpp = 128
  <2>1. Len(InMemory(bitmap)) = 4 /\ Conversion(bitmap) = <<3, 2, 1, 4>>
    BY <1>7, ComponentsOfBitmap
  <2>2. ComponentBytes = 4 /\ TexelBytes = 16
    BY <1>7, <2>1 DEF ComponentBytes, TexelBytes
  <2>3. P \in Nat /\ w * 16 = P
    BY <1>1, <1>2, <1>7
  <2>4. Columns = file.width
    BY <1>7 DEF Columns
  <2> QED
    BY <1>1, <2>1, <2>2, <2>3, <2>4
<1> QED
  BY <1>1, <1>3, <1>4, <1>5, <1>6, <1>7

(* Where component c of texel x of row y is read and written.              *)
ReadAt(y, x, c) ==
  SourceRow(y) + x * TexelBytes + (Conversion(bitmap)[c] - 1) * ComponentBytes
WrittenAt(y, x, c) == DestinationRow(y) + 4 * x + c - 1

(* What is read is in the source, and is the component asked for.          *)
LEMMA ReadsStayAndAreRight ==
  ASSUME Kept(file), bitmap = Converted(file), image.width = file.width,
         NEW y \in 0 .. file.height - 1, NEW x \in 0 .. file.width - 1, NEW c \in 1 .. 4,
         Conversion(bitmap)[c] # 0
  PROVE  /\ ReadAt(y, x, c) \in 0 .. pitch(bitmap) * bitmap.height - ComponentBytes
         /\ At(ReadAt(y, x, c)) = <<y, x, Made(bitmap, c)>>
<1> DEFINE P == pitch(bitmap)
           T == TexelBytes
           CB == ComponentBytes
           conv == Conversion(bitmap)[c]
           o == (conv - 1) * CB
           i == x * T + o
<1>1. /\ CB \in {1, 4} /\ T \in {3, 4, 12, 16}
      /\ conv \in 1 .. 4 /\ o + CB <= T
      /\ P \in Nat /\ file.width * T <= P
  BY Geometry
<1>2. /\ file.width \in Nat /\ file.height \in Nat
      /\ bitmap.width = file.width /\ bitmap.height = file.height
  BY ConvertedBitmap
<1>3. ReadAt(y, x, c) = y * P + x * T + o
  BY DEF ReadAt, SourceRow
<1>4. At(ReadAt(y, x, c))
        = LET yy == ReadAt(y, x, c) \div P
              inRow == ReadAt(y, x, c) % P
              k == (inRow % T) \div CB
          IN  IF inRow \div T < bitmap.width
              THEN <<yy, inRow \div T, InMemory(bitmap)[k + 1]>> ELSE Undefined
  BY DEF At
<1>5. Made(bitmap, c) = InMemory(bitmap)[conv]
  BY DEF Made
<1> HIDE DEF P, T, CB, conv
<1>6. o \in Nat /\ o \div CB + 1 = conv /\ o \in 0 .. T - 1
  BY <1>1
<1> HIDE DEF o
<1>7. x * T \in Nat /\ x * T + T <= file.width * T
  BY <1>1, <1>2, RowFits
<1>8. y * P \in Nat /\ file.height * P \in Nat /\ y * P + P <= file.height * P
  BY <1>1, <1>2, RowFits
<1>9. i \div T = x /\ i % T = o
  BY <1>1, <1>6, RowOfAddress
<1>10. i \in Nat /\ i + CB <= P
  <2>1. ASSUME NEW m \in Int, NEW n \in Int, n + T <= m, m <= P
        PROVE  n + o + CB <= P
    BY <1>1, <1>6, <2>1
  <2>2. file.width * T \in Int /\ x * T \in Int
    BY <1>1, <1>2, <1>7
  <2>3. x * T + o + CB <= P
    BY <1>1, <1>7, <2>1, <2>2
  <2> QED
    BY <1>6, <1>7, <2>3
<1> HIDE DEF i
<1>11. i \in 0 .. P - 1
  BY <1>1, <1>10
<1>12. ReadAt(y, x, c) = y * P + i
  <2>1. y * P \in Int /\ x * T \in Int /\ o \in Int
    BY <1>6, <1>7, <1>8
  <2> QED
    BY <1>3, <2>1 DEF i
<1>13. ReadAt(y, x, c) \div P = y /\ ReadAt(y, x, c) % P = i
  <2>1. P \in Nat /\ y \in Nat
    BY <1>1, <1>2
  <2>2. \A a \in Nat, j \in 0 .. P - 1 : (a * P + j) \div P = a /\ (a * P + j) % P = j
    BY <2>1, RowOfAddress
  <2>3. (y * P + i) \div P = y /\ (y * P + i) % P = i
    BY <1>11, <2>1, <2>2
  <2> QED
    BY <1>12, <2>3
<1>14. ReadAt(y, x, c) \in 0 .. P * bitmap.height - CB
  <2>1. P * bitmap.height = file.height * P
    BY <1>1, <1>2
  <2> QED
    BY <1>1, <1>8, <1>10, <1>12, <2>1
<1>15. At(ReadAt(y, x, c)) = <<y, x, InMemory(bitmap)[conv]>>
  <2>1. x < bitmap.width
    BY <1>2
  <2> QED
    BY <1>4, <1>6, <1>9, <1>13, <2>1
<1> QED
  BY <1>5, <1>14, <1>15 DEF P, CB

(* What is written is in the destination.                                  *)
LEMMA WritesStay ==
  ASSUME image.width \in Nat, image.height \in Nat,
         NEW y \in 0 .. image.height - 1, NEW x \in 0 .. image.width - 1, NEW c \in 1 .. 4
  PROVE  WrittenAt(y, x, c) \in 0 .. 4 * (image.width * image.height) - 1
<1> DEFINE w == image.width
           h == image.height
           u == h - y - 1
<1>1. u \in 0 .. h - 1 /\ w \in Nat /\ h \in Nat
  OBVIOUS
<1>2. WrittenAt(y, x, c) = u * w * 4 + 4 * x + c - 1
  BY DEF WrittenAt, DestinationRow
<1>3. x \in 0 .. w - 1
  OBVIOUS
<1> HIDE DEF u, w, h
<1>4. u * w \in Nat /\ u * w + w <= h * w
  BY <1>1, RowFits
<1>5. h * w = w * h
  BY <1>1
<1>6. WrittenAt(y, x, c) \in 0 .. 4 * (w * h) - 1
  BY <1>1, <1>2, <1>3, <1>4, <1>5
<1> QED
  BY <1>6 DEF w, h

(* No two components are written to the same place.                        *)
LEMMA WritesAreApart ==
  ASSUME image.width \in Nat, image.height \in Nat,
         NEW y \in 0 .. image.height - 1, NEW x \in 0 .. image.width - 1, NEW c \in 1 .. 4,
         NEW v \in 0 .. image.height - 1, NEW z \in 0 .. image.width - 1, NEW d \in 1 .. 4,
         WrittenAt(y, x, c) = WrittenAt(v, z, d)
  PROVE  y = v /\ x = z /\ c = d
<1> DEFINE w == image.width
           a == image.height - y - 1
           b == image.height - v - 1
<1>1. a \in Nat /\ b \in Nat /\ w \in Nat /\ x \in 0 .. w - 1 /\ z \in 0 .. w - 1
  OBVIOUS
<1>2. a * w * 4 + 4 * x + c - 1 = b * w * 4 + 4 * z + d - 1
  BY DEF WrittenAt, DestinationRow
<1>3. a = b => y = v
  OBVIOUS
<1> HIDE DEF a, b, w
<1>4. a * w \in Nat /\ b * w \in Nat
  BY <1>1, ProductGrows
<1>5. c = d /\ a * w + x = b * w + z
  BY <1>1, <1>2, <1>4
<1>6. a = b /\ x = z
  BY <1>1, <1>5, OneRowOnePlace
<1> QED
  BY <1>3, <1>5, <1>6

-----------------------------------------------------------------------------
(* ImageLoad: the invariant.                                               *)

RowKept(y) ==
  \A x \in 0 .. file.width - 1, c \in 1 .. 4 :
    data[WrittenAt(y, x, c)] = <<y, x, Made(Converted(file), c)>>

(* The image has the size of the picture, and its rows are kept below n.   *)
RowsKept(n) ==
  /\ Kept(file)
  /\ image.width = file.width /\ image.height = file.height
  /\ \A y \in 0 .. n - 1 : RowKept(y)

NothingTouched == touched = [read |-> {}, written |-> {}]

(* Memory is allocated for the whole picture before the first row, and the *)
(* rows converted so far are those of the file, each in its own place.     *)
LoadInvariant ==
  /\ file \in File
  /\ pc \in {"load", "convert", "choose", "rows", "unload", "done"}
  /\ pc \in {"load", "convert", "choose"} => NothingTouched /\ data = NULL /\ row = 0
  /\ pc \in {"convert", "choose"} => file # None
  /\ pc = "convert" => bitmap = file
  /\ pc = "choose" => bitmap = Converted(file)
  /\ pc = "rows" =>
       /\ RowsKept(row) /\ row \in 0 .. file.height
       /\ bitmap = Converted(file)
       /\ data = [n \in 0 .. 4 * (file.width * file.height) - 1 |-> data[n]]
  /\ pc \in {"unload", "done"} /\ data # NULL /\ file.type \in Pictures => RowsKept(file.height)
  /\ StaysInMemory

(* A row that is converted is kept, and those before it stay.              *)
LEMMA RowIsKept ==
  ASSUME LoadInvariant, ConvertRow
  PROVE  /\ StaysInMemory'
         /\ \A y \in 0 .. row : RowKept(y)'
         /\ data' = [n \in 0 .. 4 * (file.width * file.height) - 1 |-> data'[n]]
<1> DEFINE cells == {<<x, c>> : x \in 0 .. Columns - 1, c \in 1 .. 4}
           convert == Conversion(bitmap)
           value(x, c) == IF convert[c] = 0 THEN <<row, x, "one">> ELSE At(ReadAt(row, x, c))
           Memory == 0 .. 4 * (file.width * file.height) - 1
<1>1. /\ Kept(file) /\ bitmap = Converted(file)
      /\ image.width = file.width /\ image.height = file.height
      /\ \A y \in 0 .. row - 1 : RowKept(y)
      /\ row \in 0 .. file.height
      /\ data = [n \in Memory |-> data[n]]
  BY DEF ConvertRow, LoadInvariant, RowsKept
<1>2. /\ file.width \in Nat \ {0} /\ file.height \in Nat \ {0}
      /\ bitmap.width = file.width /\ bitmap.height = file.height
  BY <1>1, ConvertedBitmap
<1>3. Columns = file.width
  BY <1>1, Geometry
<1>4. row \in 0 .. file.height - 1 /\ UNCHANGED <<file, bitmap, image>>
  BY <1>1, <1>2 DEF ConvertRow
<1>5. /\ touched' = [read |-> {ReadAt(row, p[1], p[2]) : p \in {p \in cells : convert[p[2]] # 0}},
                     written |-> {WrittenAt(row, p[1], p[2]) : p \in cells}]
      /\ data' = [n \in DOMAIN data |->
                    IF \E p \in cells : WrittenAt(row, p[1], p[2]) = n
                    THEN LET p == CHOOSE p \in cells : WrittenAt(row, p[1], p[2]) = n IN value(p[1], p[2])
                    ELSE data[n]]
  BY DEF ConvertRow, ReadAt, WrittenAt
<1>6. \A p \in cells : p[1] \in 0 .. file.width - 1 /\ p[2] \in 1 .. 4 /\ p = <<p[1], p[2]>>
  BY <1>3
<1>7. \A x \in 0 .. file.width - 1, c \in 1 .. 4 : <<x, c>> \in cells
  BY <1>3
<1>8. DOMAIN data = Memory
  BY <1>1
<1> HIDE DEF cells, value, Memory
<1>9. \A x \in 0 .. file.width - 1, c \in 1 .. 4 : WrittenAt(row, x, c) \in Memory
  BY <1>1, <1>2, <1>4, WritesStay DEF Memory
<1>10. ASSUME NEW x \in 0 .. file.width - 1, NEW c \in 1 .. 4
       PROVE  data'[WrittenAt(row, x, c)] = <<row, x, Made(bitmap, c)>>
  <2> DEFINE n == WrittenAt(row, x, c)
             p == CHOOSE p \in cells : WrittenAt(row, p[1], p[2]) = n
  <2>1. <<x, c>> \in cells /\ WrittenAt(row, <<x, c>>[1], <<x, c>>[2]) = n
    BY <1>7, <1>10
  <2>2. p \in cells /\ WrittenAt(row, p[1], p[2]) = n
    BY <2>1
  <2>3. data'[n] = value(p[1], p[2])
    BY <1>5, <1>8, <1>9, <1>10, <2>1
  <2> HIDE DEF p
  <2>4. p[1] = x /\ p[2] = c
    BY <1>1, <1>2, <1>4, <1>6, <1>10, <2>2, WritesAreApart DEF n
  <2>5. value(x, c) = <<row, x, Made(bitmap, c)>>
    <3>1. CASE convert[c] = 0
      BY <3>1 DEF value, Made
    <3>2. CASE convert[c] # 0
      <4>1. At(ReadAt(row, x, c)) = <<row, x, Made(bitmap, c)>>
        BY <1>1, <1>4, <1>10, <3>2, ReadsStayAndAreRight
      <4> QED
        BY <3>2, <4>1 DEF value
    <3> QED
      BY <3>1, <3>2
  <2> QED
    BY <2>3, <2>4, <2>5
<1>11. ASSUME NEW y \in 0 .. row - 1, NEW x \in 0 .. file.width - 1, NEW c \in 1 .. 4
       PROVE  data'[WrittenAt(y, x, c)] = data[WrittenAt(y, x, c)]
  <2>1. y \in 0 .. file.height - 1 /\ y # row
    BY <1>2, <1>4, <1>11
  <2>2. WrittenAt(y, x, c) \in Memory
    BY <1>1, <1>2, <1>11, <2>1, WritesStay DEF Memory
  <2>3. ~ \E p \in cells : WrittenAt(row, p[1], p[2]) = WrittenAt(y, x, c)
    BY <1>1, <1>2, <1>4, <1>6, <1>11, <2>1, WritesAreApart
  <2> QED
    BY <1>5, <1>8, <2>2, <2>3
<1>12. \A y \in 0 .. row : RowKept(y)'
  <2> SUFFICES ASSUME NEW y \in 0 .. row, NEW x \in 0 .. file.width - 1, NEW c \in 1 .. 4
               PROVE  data'[WrittenAt(y, x, c)] = <<y, x, Made(Converted(file), c)>>
    BY <1>4 DEF RowKept, WrittenAt, DestinationRow
  <2>1. CASE y = row
    BY <1>1, <1>10, <2>1
  <2>2. CASE y \in 0 .. row - 1
    BY <1>1, <1>11, <2>2 DEF RowKept
  <2> QED
    BY <1>4, <2>1, <2>2
<1>13. data' = [n \in Memory |-> data'[n]]
  BY <1>5, <1>8
<1>14. StaysInMemory'
  <2>1. touched'.written \subseteq DOMAIN data'
    BY <1>5, <1>6, <1>9, <1>13
  <2>2. \A a \in touched'.read : a \in 0 .. pitch(bitmap) * bitmap.height - ComponentBytes
    BY <1>1, <1>4, <1>5, <1>6, ReadsStayAndAreRight
  <2>3. pitch(bitmap)' = pitch(bitmap) /\ ComponentBytes' = ComponentBytes /\ bitmap' = bitmap
    BY <1>4 DEF pitch, ComponentBytes
  <2> QED
    BY <2>1, <2>2, <2>3 DEF StaysInMemory
<1> QED
  BY <1>12, <1>13, <1>14 DEF Memory

(* Four components of each texel are allocated.                            *)
LEMMA MemoryOfPicture ==
  ASSUME NEW w \in Nat, NEW h \in Nat, NEW format \in {"RGBA8_UNORM_SRGB", "RGBA32_FLOAT"}
  PROVE  (getSizeBytes(w, h, format) * 4) \div getBytesPerPixel(format) = 4 * (w * h)
<1>1. w * h \in Nat
  BY ProductGrows
<1>2. CASE format = "RGBA8_UNORM_SRGB"
  <2>1. getBytesPerPixel(format) = 4
    BY <1>2 DEF getBytesPerPixel
  <2>2. alignToNextMultiple(w * 4, 4) = 4 * w
    BY DEF alignToNextMultiple
  <2>3. getSizeBytes(w, h, format) = (4 * w) * h
    BY <2>1, <2>2 DEF getSizeBytes
  <2>4. (4 * w) * h = 4 * (w * h)
    OBVIOUS
  <2>5. getSizeBytes(w, h, format) = 4 * (w * h)
    BY <2>3, <2>4
  <2> QED
    BY <1>1, <2>1, <2>5
<1>3. CASE format = "RGBA32_FLOAT"
  <2>1. getBytesPerPixel(format) = 16
    BY <1>3 DEF getBytesPerPixel
  <2>2. alignToNextMultiple(w * 16, 4) = 16 * w
    BY DEF alignToNextMultiple
  <2>3. getSizeBytes(w, h, format) = (16 * w) * h
    BY <2>1, <2>2 DEF getSizeBytes
  <2>4. (16 * w) * h = 16 * (w * h)
    OBVIOUS
  <2>5. getSizeBytes(w, h, format) = 16 * (w * h)
    BY <2>3, <2>4
  <2> QED
    BY <1>1, <2>1, <2>5
<1> QED
  BY <1>2, <1>3

(* No step of the loader breaks the invariant.                             *)
LEMMA LoadSteps == LoadInvariant /\ [Next]_vars => LoadInvariant'
<1> SUFFICES ASSUME LoadInvariant, [Next]_vars PROVE LoadInvariant'
  OBVIOUS
<1>1. ASSUME NothingTouched, touched' = touched PROVE StaysInMemory' /\ NothingTouched'
  <2>1. touched'.written = {} /\ touched'.read = {}
    BY <1>1 DEF NothingTouched
  <2> QED
    BY <1>1, <2>1 DEF StaysInMemory, NothingTouched
<1>2. CASE Load
  <2>1. NothingTouched /\ UNCHANGED <<file, data, row, touched>> /\ data = NULL /\ row = 0
    BY <1>2 DEF Load, LoadInvariant
  <2>2. StaysInMemory' /\ NothingTouched'
    BY <1>1, <2>1
  <2>3. CASE file = None
    BY <1>2, <2>1, <2>2, <2>3 DEF Load, GoTo, LoadInvariant
  <2>4. CASE file # None
    BY <1>2, <2>1, <2>2, <2>4 DEF Load, GoTo, LoadInvariant
  <2> QED
    BY <2>3, <2>4
<1>3. CASE Convert
  <2>1. NothingTouched /\ UNCHANGED <<file, data, row, touched>> /\ data = NULL /\ row = 0
    BY <1>3 DEF Convert, LoadInvariant
  <2>2. StaysInMemory' /\ NothingTouched'
    BY <1>1, <2>1
  <2> QED
    BY <1>3, <2>1, <2>2 DEF Convert, GoTo, LoadInvariant
<1>4. CASE Reject
  <2>1. NothingTouched /\ UNCHANGED <<file, data, row, touched>> /\ data = NULL /\ row = 0
    BY <1>4 DEF Reject, LoadInvariant
  <2>2. StaysInMemory' /\ NothingTouched'
    BY <1>1, <2>1
  <2> QED
    BY <1>4, <2>1, <2>2 DEF Reject, GoTo, LoadInvariant
<1>5. CASE Allocate
  <2>1. /\ NothingTouched /\ UNCHANGED <<file, bitmap, row, touched>> /\ row = 0
        /\ file \in File /\ file # None /\ bitmap = Converted(file) /\ ~Rejected(bitmap)
    BY <1>5 DEF Allocate, LoadInvariant
  <2>2. StaysInMemory' /\ NothingTouched'
    BY <1>1, <2>1
  <2>3. bitmap.type = file.type
    <3>1. file \in [type : ImageTypes, bpp : Nat, width : Nat \ {0}, height : Nat \ {0},
                    colour : GreyTypes \cup {"PALETTE", "RGB", "RGBALPHA", "CMYK"},
                    transparent : BOOLEAN]
      BY <2>1, ImageLoadAssumption
    <3>2. \A n : [file EXCEPT !.bpp = n].type = file.type
      BY <3>1
    <3> QED
      BY <2>1, <3>2 DEF Converted
  <2>4. CASE file.type \notin Pictures
    <3>1. file.type \in ImageTypes
      BY <2>1, ImageLoadAssumption
    <3>2. bitmap.type \in {"UINT32", "INT32"}
      BY <2>1, <2>3, <2>4, <3>1 DEF ImageTypes, Pictures, Rejected
    <3>3. pc' = "unload"
      BY <1>5, <3>2 DEF Allocate, GoTo
    <3> QED
      BY <2>1, <2>2, <2>4, <3>3 DEF LoadInvariant
  <2>5. CASE file.type \in Pictures
    <3>1. Kept(file)
      BY <2>1, <2>5 DEF Kept
    <3>2. /\ bitmap.width = file.width /\ bitmap.height = file.height
          /\ file.width \in Nat \ {0} /\ file.height \in Nat \ {0}
      BY <2>1, <3>1, ConvertedBitmap
    <3>3. pc' = "rows"
      BY <1>5, <2>3, <2>5 DEF Allocate, GoTo, Pictures
    <3> DEFINE format == Format(bitmap)
               last == (getSizeBytes(bitmap.width, bitmap.height, format) * 4)
                         \div getBytesPerPixel(format) - 1
    <3>4. format \in {"RGBA8_UNORM_SRGB", "RGBA32_FLOAT"}
      BY <2>3, <2>5 DEF Format, Pictures
    <3>5. /\ data' = [n \in 0 .. last |-> Undefined]
          /\ image' = [format |-> format, width |-> bitmap.width, height |-> bitmap.height]
      BY <1>5 DEF Allocate
    <3> HIDE DEF format
    <3>6. last = 4 * (file.width * file.height) - 1
      BY <3>2, <3>4, MemoryOfPicture
    <3> HIDE DEF last
    <3>7. data' = [n \in 0 .. 4 * (file.width * file.height) - 1 |-> data'[n]]
      BY <3>5, <3>6
    <3>8. image'.width = file.width /\ image'.height = file.height
      BY <3>2, <3>5
    <3>9. RowsKept(row)' /\ row' \in 0 .. file.height
      <4>1. 0 .. row' - 1 = {} /\ row' \in 0 .. file.height
        BY <2>1, <3>2
      <4>2. Kept(file)' /\ file' = file
        BY <2>1, <3>1 DEF Kept
      <4> QED
        BY <3>8, <4>1, <4>2 DEF RowsKept
    <3> QED
      BY <2>1, <2>2, <3>3, <3>7, <3>9 DEF LoadInvariant
  <2> QED
    BY <2>4, <2>5
<1>6. CASE ConvertRow
  <2>1. /\ StaysInMemory'
        /\ \A y \in 0 .. row : RowKept(y)'
        /\ data' = [n \in 0 .. 4 * (file.width * file.height) - 1 |-> data'[n]]
    BY <1>6, RowIsKept
  <2>2. /\ Kept(file) /\ bitmap = Converted(file)
        /\ image.width = file.width /\ image.height = file.height
        /\ row \in 0 .. file.height /\ file \in File
    BY <1>6 DEF ConvertRow, LoadInvariant, RowsKept
  <2>3. pc = "rows" /\ row' = row + 1 /\ UNCHANGED <<file, bitmap, image, pc>> /\ row < file.height
    BY <1>6, <2>2 DEF ConvertRow
  <2>4. file.height \in Nat
    BY <2>2, ConvertedBitmap
  <2>5. 0 .. row' - 1 = 0 .. row /\ row' \in 0 .. file.height
    BY <2>2, <2>3, <2>4
  <2>6. RowsKept(row)'
    <3>1. Kept(file)'
      BY <2>2, <2>3 DEF Kept
    <3> QED
      BY <2>1, <2>2, <2>3, <2>5, <3>1 DEF RowsKept
  <2> QED
    BY <2>1, <2>2, <2>3, <2>5, <2>6 DEF LoadInvariant
<1>7. CASE EndRows
  <2>1. /\ RowsKept(row) /\ row = image.height /\ image.height = file.height
        /\ UNCHANGED <<file, bitmap, image, data, row, touched>> /\ pc' = "unload"
    BY <1>7 DEF EndRows, LoadInvariant, RowsKept, GoTo
  <2>2. RowsKept(file.height)
    BY <2>1
  <2>3. RowsKept(file.height)'
    BY <2>1, <2>2 DEF RowsKept, RowKept, WrittenAt, DestinationRow
  <2>4. StaysInMemory'
    BY <2>1 DEF LoadInvariant, StaysInMemory, pitch, ComponentBytes
  <2> QED
    BY <2>1, <2>3, <2>4 DEF LoadInvariant
<1>8. CASE Unload
  <2>1. UNCHANGED <<file, image, data, row, touched>> /\ pc = "unload" /\ pc' = "done" /\ bitmap' = <<>>
    BY <1>8 DEF Unload, GoTo
  <2>2. StaysInMemory'
    BY <2>1 DEF LoadInvariant, StaysInMemory
  <2>3. RowsKept(file.height) => RowsKept(file.height)'
    BY <2>1 DEF RowsKept, RowKept, WrittenAt, DestinationRow
  <2> QED
    BY <2>1, <2>2, <2>3 DEF LoadInvariant
<1>9. CASE UNCHANGED vars
  <2>1. StaysInMemory'
    BY <1>9 DEF vars, LoadInvariant, StaysInMemory, pitch, ComponentBytes
  <2>2. /\ RowsKept(file.height) => RowsKept(file.height)'
        /\ RowsKept(row) => RowsKept(row)'
    BY <1>9 DEF vars, RowsKept, RowKept, WrittenAt, DestinationRow
  <2>3. NothingTouched => NothingTouched'
    BY <1>9 DEF vars, NothingTouched
  <2> QED
    BY <1>9, <2>1, <2>2, <2>3 DEF vars, LoadInvariant
<1> QED
  BY <1>2, <1>3, <1>4, <1>5, <1>6, <1>7, <1>8, <1>9 DEF Next, Terminating

(* Nothing is loaded at first.                                             *)
LEMMA LoadStarts == Init => LoadInvariant
  BY DEF Init, LoadInvariant, NothingTouched, StaysInMemory

(* Every row is converted within the memory of the two images, for every   *)
(* size of picture, with any padding and from any kind of file.            *)
THEOREM LoaderStaysInMemory == Spec => []StaysInMemory
<1>1. LoadInvariant => StaysInMemory
  BY DEF LoadInvariant
<1> QED
  BY <1>1, LoadStarts, LoadSteps, PTL DEF Spec

(* What the components of a picture are made of.                           *)
LEMMA ColoursAreMade ==
  ASSUME NEW f, Kept(f), NEW b, b = Converted(f)
  PROVE  /\ f.type = "BITMAP" => Made(b, 1) = "R" /\ Made(b, 2) = "G" /\ Made(b, 3) = "B"
         /\ f.type = "FLOAT" => Made(b, 1) = "L" /\ Made(b, 2) = "L" /\ Made(b, 3) = "L"
         /\ f.type \in {"RGBF", "RGBAF"} => {Made(b, c) : c \in 1 .. 3} = {"R", "G", "B"}
         /\ Made(b, 4) = "A" \/ (~f.transparent /\ Made(b, 4) = "one")
<1>1. /\ b.type = f.type
      /\ \/ b.type = "BITMAP" /\ b.bpp = 24
         \/ b.type = "BITMAP" /\ b.bpp = 32
         \/ b.type = "FLOAT" /\ b.bpp = 32
         \/ b.type = "RGBF" /\ b.bpp = 96
         \/ b.type = "RGBAF" /\ b.bpp = 128
      /\ f.transparent => b.type = "RGBAF" \/ (b.type = "BITMAP" /\ b.bpp = 32)
  BY ConvertedBitmap
<1>2. 1 .. 3 = {1, 2, 3}
  OBVIOUS
<1>3. CASE b.type = "BITMAP" /\ b.bpp = 24
  <2>1. InMemory(b) = <<"B", "G", "R">> /\ Conversion(b) = <<3, 2, 1, 0>>
    BY <1>3, ComponentsOfBitmap
  <2>2. Made(b, 1) = "R" /\ Made(b, 2) = "G" /\ Made(b, 3) = "B" /\ Made(b, 4) = "one"
    BY <2>1 DEF Made
  <2> QED
    BY <1>1, <1>3, <2>2
<1>4. CASE b.type = "BITMAP" /\ b.bpp = 32
  <2>1. InMemory(b) = <<"B", "G", "R", "A">> /\ Conversion(b) = <<3, 2, 1, 4>>
    BY <1>4, ComponentsOfBitmap
  <2>2. Made(b, 1) = "R" /\ Made(b, 2) = "G" /\ Made(b, 3) = "B" /\ Made(b, 4) = "A"
    BY <2>1 DEF Made
  <2> QED
    BY <1>1, <1>4, <2>2
<1>5. CASE b.type = "FLOAT" /\ b.bpp = 32
  <2>1. InMemory(b) = <<"L">> /\ Conversion(b) = <<1, 1, 1, 0>>
    BY <1>5, ComponentsOfBitmap
  <2>2. Made(b, 1) = "L" /\ Made(b, 2) = "L" /\ Made(b, 3) = "L" /\ Made(b, 4) = "one"
    BY <2>1 DEF Made
  <2> QED
    BY <1>1, <1>5, <2>2
<1>6. CASE b.type = "RGBF" /\ b.bpp = 96
  <2>1. InMemory(b) = <<"R", "G", "B">> /\ Conversion(b) = <<3, 2, 1, 0>>
    BY <1>6, ComponentsOfBitmap
  <2>2. Made(b, 1) = "B" /\ Made(b, 2) = "G" /\ Made(b, 3) = "R" /\ Made(b, 4) = "one"
    BY <2>1 DEF Made
  <2>3. {Made(b, c) : c \in 1 .. 3} = {"R", "G", "B"}
    BY <1>2, <2>2
  <2> QED
    BY <1>1, <1>6, <2>2, <2>3
<1>7. CASE b.type = "RGBAF" /\ b.bpp = 128
  <2>1. InMemory(b) = <<"R", "G", "B", "A">> /\ Conversion(b) = <<3, 2, 1, 4>>
    BY <1>7, ComponentsOfBitmap
  <2>2. Made(b, 1) = "B" /\ Made(b, 2) = "G" /\ Made(b, 3) = "R" /\ Made(b, 4) = "A"
    BY <2>1 DEF Made
  <2>3. {Made(b, c) : c \in 1 .. 3} = {"R", "G", "B"}
    BY <1>2, <2>2
  <2> QED
    BY <1>1, <1>7, <2>2, <2>3
<1> QED
  BY <1>1, <1>3, <1>4, <1>5, <1>6, <1>7

(* What the encoders upload is the picture, the right way up, whatever its *)
(* size, the padding of its rows and the kind of file.                     *)
THEOREM LoaderKeepsThePicture == Spec => []PictureIsKept
<1>1. LoadInvariant => PictureIsKept
  <2> SUFFICES ASSUME LoadInvariant, Loaded, file.type \in Pictures PROVE PictureIsKept
    BY DEF PictureIsKept, Pictures
  <2> DEFINE b == Converted(file)
  <2>1. RowsKept(file.height)
    BY DEF Loaded, LoadInvariant
  <2>2. Kept(file) /\ image.width = file.width /\ image.height = file.height
    BY <2>1 DEF RowsKept
  <2>3. file.width \in Nat \ {0} /\ file.height \in Nat \ {0}
    <3>1. b.width = file.width /\ b.height = file.height /\ b.width \in Nat \ {0} /\ b.height \in Nat \ {0}
      BY <2>2, ConvertedBitmap
    <3> QED
      BY <3>1
  <2>4. /\ file.type = "BITMAP" => Made(b, 1) = "R" /\ Made(b, 2) = "G" /\ Made(b, 3) = "B"
        /\ file.type = "FLOAT" => Made(b, 1) = "L" /\ Made(b, 2) = "L" /\ Made(b, 3) = "L"
        /\ file.type \in {"RGBF", "RGBAF"} => {Made(b, c) : c \in 1 .. 3} = {"R", "G", "B"}
        /\ Made(b, 4) = "A" \/ (~file.transparent /\ Made(b, 4) = "one")
    BY <2>2, ColoursAreMade
  <2> HIDE DEF b
  <2>5. ASSUME NEW y \in 0 .. file.height - 1, NEW x \in 0 .. file.width - 1, NEW c \in 0 .. 3
        PROVE  Texel(y, x, c) = <<y, x, Made(b, c + 1)>>
    <3>1. c + 1 \in 1 .. 4 /\ RowKept(y)
      BY <2>1, <2>5 DEF RowsKept
    <3>2. data[WrittenAt(y, x, c + 1)] = <<y, x, Made(b, c + 1)>>
      BY <2>5, <3>1 DEF RowKept, b
    <3> DEFINE u == file.height - 1 - y
               w == file.width
    <3>3. u \in Nat /\ w \in Nat /\ file.height - y - 1 = u
      BY <2>3, <2>5
    <3>4. WrittenAt(y, x, c + 1) = u * w * 4 + 4 * x + c
      BY <2>2, <2>3, <2>5, <3>3 DEF WrittenAt, DestinationRow
    <3>5. Texel(y, x, c) = data[(u * w + x) * 4 + c]
      BY DEF Texel
    <3> HIDE DEF u, w
    <3>6. u * w * 4 + 4 * x + c = (u * w + x) * 4 + c
      BY <2>5, <3>3
    <3> QED
      BY <3>2, <3>4, <3>5, <3>6
  <2>6. ASSUME NEW y \in 0 .. file.height - 1, NEW x \in 0 .. file.width - 1
        PROVE  /\ AlphaIsKept(y, x)
               /\ {Texel(y, x, c) : c \in 0 .. 2} =
                    {<<y, x, name>> : name \in IF file.type = "FLOAT" THEN {"L"} ELSE {"R", "G", "B"}}
    <3>1. /\ Texel(y, x, 0) = <<y, x, Made(b, 1)>> /\ Texel(y, x, 1) = <<y, x, Made(b, 2)>>
          /\ Texel(y, x, 2) = <<y, x, Made(b, 3)>> /\ Texel(y, x, 3) = <<y, x, Made(b, 4)>>
      <4>1. 0 + 1 = 1 /\ 1 + 1 = 2 /\ 2 + 1 = 3 /\ 3 + 1 = 4
        OBVIOUS
      <4>2. 0 \in 0 .. 3 /\ 1 \in 0 .. 3 /\ 2 \in 0 .. 3 /\ 3 \in 0 .. 3
        OBVIOUS
      <4> QED
        BY <2>5, <2>6, <4>1, <4>2
    <3>2. AlphaIsKept(y, x)
      BY <2>4, <3>1 DEF AlphaIsKept
    <3>3. {Texel(y, x, c) : c \in 0 .. 2} =
            {<<y, x, Made(b, 1)>>, <<y, x, Made(b, 2)>>, <<y, x, Made(b, 3)>>}
      <4>1. 0 .. 2 = {0, 1, 2}
        OBVIOUS
      <4> QED
        BY <3>1, <4>1
    <3>4. {Made(b, 1), Made(b, 2), Made(b, 3)} = IF file.type = "FLOAT" THEN {"L"} ELSE {"R", "G", "B"}
      <4>1. {Made(b, c) : c \in 1 .. 3} = {Made(b, 1), Made(b, 2), Made(b, 3)}
        <5>1. 1 .. 3 = {1, 2, 3}
          OBVIOUS
        <5> QED
          BY <5>1
      <4> QED
        BY <2>4, <4>1 DEF Pictures
    <3>5. ASSUME NEW p, NEW q, NEW r
          PROVE  {<<y, x, p>>, <<y, x, q>>, <<y, x, r>>} = {<<y, x, name>> : name \in {p, q, r}}
      OBVIOUS
    <3> QED
      BY <3>2, <3>3, <3>4, <3>5
  <2>7. file.type \in {"BITMAP", "FLOAT"} => ColoursInOrder
    <3> SUFFICES ASSUME file.type \in {"BITMAP", "FLOAT"},
                        NEW y \in 0 .. file.height - 1, NEW x \in 0 .. file.width - 1, NEW c \in 0 .. 2
                 PROVE  Texel(y, x, c)
                          = <<y, x, IF file.type = "FLOAT" THEN "L" ELSE <<"R", "G", "B">>[c + 1]>>
      BY DEF ColoursInOrder
    <3>1. Texel(y, x, c) = <<y, x, Made(b, c + 1)>>
      BY <2>5
    <3>2. c = 0 \/ c = 1 \/ c = 2
      OBVIOUS
    <3>3. Made(b, c + 1) = IF file.type = "FLOAT" THEN "L" ELSE <<"R", "G", "B">>[c + 1]
      BY <2>4, <3>2
    <3> QED
      BY <3>1, <3>3
  <2> QED
    BY <2>6, <2>7 DEF PictureIsKept
<1> QED
  BY <1>1, LoadStarts, LoadSteps, PTL DEF Spec
=============================================================================
