----------------------------- MODULE HazardProofs -----------------------------
(***************************************************************************)
(* No dispatch runs on what another step left bound, and every pair of     *)
(* conflicting operations in flight is ordered, for every set of encoders, *)
(* every request, every queue bound and every schedule of the GPU.         *)
(*                                                                         *)
(* What is known of the context and of the queue between two GL calls, and *)
(* what it is after the next one: which units hold which objects of an     *)
(* encoder, and which of its objects are behind a barrier.                 *)
(*                                                                         *)
(* The calls of a method are followed for one encoder as if it were alone: *)
(* Leads(e, r, calls, F, G) says that they lead from the facts F to the    *)
(* facts G, and reads no variable.  CallFollows ties that to the state: a  *)
(* call that follows keeps the queue in order, makes its facts true, and   *)
(* takes none from another encoder but those on the context.               *)
(*                                                                         *)
(* One lemma per method says where its calls lead; KnownAt names what is   *)
(* known at each stage of main, and the invariant says that it is.         *)
(***************************************************************************)
EXTENDS PipelineProofs

(* The fields that hold programs, and the shader each is created from.     *)
ProgramField ==
  {"m_ditherPso", "m_compressPso", "m_eacPso", "m_stitchPso", "m_thModesPso",
   "m_thModesFindBestC0C1", "m_pModePso", "m_bc1Pso", "m_bc4Pso"}

FileOf(r, f) ==
  CASE f = "m_ditherPso" -> "dither555.glsl"
    [] f = "m_compressPso" -> IF UsesBC6H(r) THEN "bc6h.glsl"
                              ELSE IF forEtc2(r) THEN "etc1_with_error.glsl"
                              ELSE "etc1.glsl"
    [] f = "m_eacPso" -> IF UsesEAC(r) THEN "eac_r11.glsl" ELSE "eac.glsl"
    [] f = "m_stitchPso" -> IF ~UsesETC2(r) THEN "etc2_rgba_stitch.glsl"
                            ELSE IF hasAlpha(r) THEN "etc2_rgba_selector.glsl"
                            ELSE "etc2_rgb_selector.glsl"
    [] f = "m_thModesPso" -> "etc2_th.glsl"
    [] f = "m_thModesFindBestC0C1" -> "etc2_th_find_best_c0c1_k_means.glsl"
    [] f = "m_pModePso" -> "etc2_p.glsl"
    [] f = "m_bc1Pso" -> IF r.dither THEN "bc1_dither.glsl" ELSE "bc1.glsl"
    [] OTHER -> "bc4.glsl"

(* The units of the context a call binds and a shader goes through.        *)
BindOps == {"bindTexture", "bindUav", "bindUavBuffer", "bindComputePso"}

tex(slot) == <<"bindTexture", slot>>
uav(slot) == <<"bindUav", slot>>
ssbo == <<"bindUavBuffer", 1>>
pso == <<"bindComputePso", 0>>

Unit == {tex(u) : u \in TexUnits} \cup {uav(u) : u \in ImageUnits} \cup {ssbo, pso}

UnitOf(c) == IF c.op = "bindComputePso" THEN pso ELSE <<c.op, c.slot>>

NameAt(c, u) ==
  CASE u[1] = "bindTexture" -> c.tex[u[2]]
    [] u[1] = "bindUav" -> c.img[u[2]].name
    [] u[1] = "bindUavBuffer" -> c.buf[u[2]]
    [] OTHER -> c.pso

ViaOf(u) ==
  CASE u[1] = "bindTexture" -> "fetch"
    [] u[1] = "bindUav" -> "image"
    [] OTHER -> "buffer"

ReadUnits(glsl) ==
  LET i == ShaderInterface(glsl)
  IN  {tex(i.fetch[k]) : k \in DOMAIN i.fetch}
        \cup {uav(i.load[k]) : k \in DOMAIN i.load}
        \cup {<<"bindUavBuffer", i.buffer[k]>> : k \in DOMAIN i.buffer}

WriteUnits(glsl) == {uav(u) : u \in ShaderInterface(glsl).store}

(* What is known of encoder e at some point of a method: that a unit holds *)
(* an object of e (or that no program is in use), that no store to an      *)
(* image is still to be made visible through a path, or that nothing done  *)
(* to it is.                                                               *)
Bound(u, f) == <<"bound", u, f>>
Unstored(via, f) == <<"unstored", via, f>>
Untouched(via, f) == <<"untouched", via, f>>
NoProgram == Bound(pso, Null)

CleanFacts == {"unstored", "untouched"} \X Via \X Field

(* The codecs whose steps are ordered: on a driver where the barriers      *)
(* before a fetch and a download do what EncoderGL takes them to, all but  *)
(* EncoderETC2 under RenderDoc; its selector fetches behind                *)
(* SHADER_IMAGE_ACCESS.                                                    *)
Careful(r) ==
  /\ "TEXTURE_FETCH" \in FetchBits
  /\ {"TEXTURE_UPDATE", "PIXEL_BUFFER"} \subseteq DownloadBits
  /\ UsesETC2(r) => "SHADER_IMAGE_ACCESS" \in FetchBits /\ ~r.usingRenderDoc

(* The bits that settle a path then.                                       *)
SettlingBits(r, via) ==
  CASE via = "fetch" -> {"TEXTURE_FETCH"}
                          \cup (IF UsesETC2(r) THEN {"SHADER_IMAGE_ACCESS"} ELSE {})
    [] via = "image" -> {"SHADER_IMAGE_ACCESS"}
    [] via = "buffer" -> {}
    [] via = "download" -> {"TEXTURE_UPDATE", "PIXEL_BUFFER"}
    [] via = "copy" -> {"TEXTURE_UPDATE", "SHADER_IMAGE_ACCESS"}
    [] OTHER -> {"TEXTURE_UPDATE"}

(* The paths of a transfer.                                                *)
FromVia(op) == CASE op = "upload" -> "unpack" [] op = "download" -> "download"
                 [] OTHER -> "copy"
ToVia(op) == CASE op = "upload" -> "upload" [] op = "download" -> "pack"
               [] OTHER -> "copy"

-----------------------------------------------------------------------------
(* From what is known before a call to what is known after it.             *)

KeptByBind(F, u) == {x \in F : x[1] = "bound" => x[2] # u}

(* Generating, deleting and transferring may bind units of their own.      *)
KeptByWrapper(F) == {x \in F : x[1] = "bound" => x[2] = pso}

BindStep(r, F, c, G) ==
  /\ c.op \in BindOps
  /\ \/ /\ c.op = "bindComputePso" => /\ c.name[2] \in ProgramField
                                      /\ Links(FileOf(r, c.name[2]))
        /\ G \subseteq {Bound(UnitOf(c), c.name[2])} \cup KeptByBind(F, UnitOf(c))
     \/ /\ c.op = "bindComputePso" /\ c.name[2] \in ProgramField
        /\ ~Links(FileOf(r, c.name[2]))
        /\ G \subseteq F

ObjectStep(r, F, c, G) ==
  /\ c.op \in {"create", "destroy"}
  /\ c.op = "create" /\ c.name[2] \in ProgramField => c.value.fn = FileOf(r, c.name[2])
  /\ G \subseteq KeptByWrapper(F)

TransferStep(r, F, c, G) ==
  /\ c.op \in {"upload", "download", "copy"}
  /\ c.dst[2] \notin ProgramField
  /\ Careful(r) => /\ Unstored(FromVia(c.op), c.src[2]) \in F
                   /\ Untouched(ToVia(c.op), c.dst[2]) \in F
  /\ G \subseteq KeptByWrapper(F)

BarrierStep(r, F, c, G) ==
  /\ c.op = "barrier"
  /\ \A x \in G : x \in F \/ (x \in CleanFacts /\ SettlingBits(r, x[2]) \cap c.bits # {})

PlainStep(F, c, G) ==
  \/ c.op = "uniform" /\ G \subseteq F
  \/ c.op = "finish" /\ \A x \in G : x \in F \/ x \in CleanFacts

(* A dispatch of the program in field f, which reads and writes what the   *)
(* pairs P say its units hold.                                             *)
Reads(r, f, P) == {p \in P : p[1] \in ReadUnits(FileOf(r, f))}
Writes(r, f, P) == {p \in P : p[1] \in WriteUnits(FileOf(r, f))}

KeptByDispatch(F, R, W) ==
  {x \in F : /\ x[1] = "unstored" => \A p \in W : x[3] # p[2]
             /\ x[1] = "untouched" => \A p \in R \cup W : x[3] # p[2]}

Dispatches(r, F, f, P, G) ==
  /\ Bound(pso, f) \in F /\ f \in ProgramField
  /\ \A u \in ReadUnits(FileOf(r, f)) \cup WriteUnits(FileOf(r, f)) : \E p \in P : p[1] = u
  /\ \A p \in P : p[1] \in Unit /\ p[2] # Null /\ Bound(p[1], p[2]) \in F
  /\ \A p \in Reads(r, f, P) : Careful(r) => Unstored(ViaOf(p[1]), p[2]) \in F
  /\ \A p \in Writes(r, f, P) :
       p[2] \notin ProgramField /\ (Careful(r) => Untouched("image", p[2]) \in F)
  /\ G \subseteq KeptByDispatch(F, Reads(r, f, P), Writes(r, f, P))

DispatchStep(r, F, c, G) ==
  /\ c.op = "dispatch"
  /\ \/ NoProgram \in F /\ G \subseteq F
     \/ \E f, P : Dispatches(r, F, f, P, G)

Follows(r, F, c, G) ==
  \/ BindStep(r, F, c, G) \/ ObjectStep(r, F, c, G) \/ TransferStep(r, F, c, G)
  \/ BarrierStep(r, F, c, G) \/ PlainStep(F, c, G) \/ DispatchStep(r, F, c, G)

(* The calls of s lead encoder e from what is known in F to what is known  *)
(* in G.                                                                   *)
Chain(r, s, T) == \A k \in DOMAIN s : Follows(r, T[k], s[k], T[k + 1])

Leads(e, r, s, F, G) ==
  /\ s \in Seq(OwnCall(e))
  /\ \E T : T[1] \subseteq F /\ G \subseteq T[Len(s) + 1] /\ Chain(r, s, T)

-----------------------------------------------------------------------------
(* What is known of an encoder between two of its methods.                 *)

StoredField ==
  {"m_ditheredTexture", "m_compressTargetRes", "m_etc1Error", "m_eacTargetRes",
   "m_stitchedTarget", "m_thModesTargetRes", "m_thModesError", "m_thModesC0C1",
   "m_pModeTargetRes", "m_pModeError", "m_eacTargetRes[0]", "m_eacTargetRes[1]",
   "m_bc1TargetRes", "m_bc4TargetRes", "m_bc4TargetRes[0]", "m_bc4TargetRes[1]"}

TouchedField ==
  StoredField \cup {"m_srcTexture", "m_etc1TablesSsbo", "m_bc1TablesSsbo"}

Spoilt ==
  ({"unstored"} \X Via \X StoredField) \cup ({"untouched"} \X Via \X TouchedField)

SpoiltAt(r, s) ==
  CASE s \in {"initResources", "execute00"} -> {}
    [] s = "execute01" /\ Has00(r) ->
         {x \in Spoilt : /\ x[3] \in {"m_srcTexture", "m_ditheredTexture", "m_thModesC0C1"}
                         /\ x # Unstored("fetch", "m_ditheredTexture")
                         /\ x # Unstored("image", "m_thModesC0C1")}
    [] s = "execute01" /\ ~Has00(r) -> {x \in Spoilt : Loops(r) /\ x[2] # "image"}
    [] s = "execute02" /\ ~UsesETC2(r) -> Spoilt \ {Untouched("image", "m_stitchedTarget")}
    [] OTHER -> Spoilt

KnownAt(r, s) ==
  (CleanFacts \ SpoiltAt(r, s))
    \cup {x \in {NoProgram} : UsesEAC(r) /\ s \in {"initResources", "execute01"}}
-----------------------------------------------------------------------------
(* What that knowledge says of a queue s and of the context.               *)
Written(op) == {a.name : a \in WritesOf(op)}
Touched(op) == Written(op) \cup {a.name : a \in ReadsOf(op)}

Concerns(op, x, o) == o \in (IF x[1] = "unstored" THEN Written(op) ELSE Touched(op))

CleanIn(s, q, e, x) ==
  Careful(q[e]) =>
    \A j \in GpuOps(s) :
      s[j].kind = "dispatch" /\ Concerns(s[j], x, Object(e, x[3]))
        => BarrierBetween(s, j, Len(s) + 1, SufficientBits(x[2]))

HeldName(e, f) == IF f = Null THEN NoObject ELSE Object(e, f)

Knows(e, F) ==
  \A x \in F :
    /\ x[1] = "bound" /\ x[2] \in Unit => NameAt(ctx, x[2]) = HeldName(e, x[3])
    /\ x[1] \in {"unstored", "untouched"} => CleanIn(stream, request, e, x)

(* What is wanted of a queue.                                              *)
OrderedIn(s, q) ==
  \A i \in GpuOps(s) : \A j \in GpuOps(s) :
    j < i => \A b \in Conflicts(s, j, i) :
               Careful(q[b.name[1]]) => OrdersAccess(s, j, i, b)

Owns(d, op) == \A o \in Touched(op) : o[1] = d /\ o = Object(d, o[2])

OwnedIn(s) == \A i \in GpuOps(s) : \E d \in Encoder : Owns(d, s[i])

ProgramsKeptIn(s) == \A i \in GpuOps(s) : \A o \in Written(s[i]) : o[2] \notin ProgramField

QueueFits(s, q) == OrderedIn(s, q) /\ OwnedIn(s) /\ ProgramsKeptIn(s)
-----------------------------------------------------------------------------

(* A queue and one operation more.                                         *)
LEMMA AppendPositions ==
  ASSUME NEW S, NEW s \in Seq(S), NEW op \in S
  PROVE  /\ Append(s, op) \in Seq(S) /\ Len(s) \in Nat
         /\ Len(Append(s, op)) = Len(s) + 1
         /\ DOMAIN s = 1 .. Len(s) /\ DOMAIN Append(s, op) = 1 .. (Len(s) + 1)
         /\ \A k \in 1 .. Len(s) : Append(s, op)[k] = s[k]
         /\ Append(s, op)[Len(s) + 1] = op
<1>1. Append(s, op) \in Seq(S) /\ Len(s) \in Nat /\ DOMAIN s = 1 .. Len(s)
  BY LenProperties
<1>2. /\ Len(Append(s, op)) = Len(s) + 1
      /\ \A k \in 1 .. Len(s) : Append(s, op)[k] = s[k]
      /\ Append(s, op)[Len(s) + 1] = op
  BY AppendProperties
<1> QED
  BY <1>1, <1>2, LenProperties

(* The barriers between two operations are those there were.               *)
LEMMA AppendBarriers ==
  ASSUME NEW s \in Seq(GpuOp), NEW op \in GpuOp, NEW j \in DOMAIN s, NEW bits
  PROVE  /\ \A i \in 1 .. (Len(s) + 1) :
              BarrierBetween(Append(s, op), j, i, bits) <=> BarrierBetween(s, j, i, bits)
         /\ BarrierBetween(Append(s, op), j, Len(s) + 2, bits)
              <=> \/ BarrierBetween(s, j, Len(s) + 1, bits)
                  \/ op.kind = "barrier" /\ op.bits \cap bits # {}
<1> DEFINE t == Append(s, op)
           n == Len(s)
<1>1. /\ n \in Nat /\ j \in 1 .. n /\ t[n + 1] = op
      /\ \A k \in 1 .. n : t[k] = s[k]
  BY AppendPositions
<1> HIDE DEF t
<1>2. ASSUME NEW i \in 1 .. (n + 1), NEW k \in (j + 1) .. (i - 1)
      PROVE  t[k] = s[k]
  BY <1>1
<1>3. (j + 1) .. (n + 2 - 1) = ((j + 1) .. (n + 1 - 1)) \cup {n + 1}
  BY <1>1
<1>4. \A k \in (j + 1) .. (n + 1 - 1) : t[k] = s[k]
  BY <1>1
<1>5. \A i \in 1 .. (n + 1) :
        BarrierBetween(t, j, i, bits) <=> BarrierBetween(s, j, i, bits)
  BY <1>2 DEF BarrierBetween
<1>6. BarrierBetween(t, j, n + 2, bits)
        <=> \/ BarrierBetween(s, j, n + 1, bits)
            \/ op.kind = "barrier" /\ op.bits \cap bits # {}
  BY <1>1, <1>3, <1>4 DEF BarrierBetween
<1> QED
  BY <1>5, <1>6 DEF t

(* What is known stays known when an operation that does not concern it    *)
(* joins the queue.                                                        *)
LEMMA AppendClean ==
  ASSUME NEW s \in Seq(GpuOp), NEW op \in GpuOp, NEW q, NEW e, NEW x,
         CleanIn(s, q, e, x),
         op.kind = "dispatch" => ~Concerns(op, x, Object(e, x[3]))
  PROVE  CleanIn(Append(s, op), q, e, x)
<1> DEFINE t == Append(s, op)
           n == Len(s)
<1>1. /\ n \in Nat /\ DOMAIN s = 1 .. n /\ DOMAIN t = 1 .. (n + 1) /\ t[n + 1] = op
      /\ \A k \in 1 .. n : t[k] = s[k] /\ Len(t) = n + 1
  BY AppendPositions
<1>2. \A j \in 1 .. n : BarrierBetween(s, j, n + 1, SufficientBits(x[2]))
                          => BarrierBetween(t, j, n + 2, SufficientBits(x[2]))
  BY <1>1, AppendBarriers
<1>3. Len(t) + 1 = n + 2
  BY <1>1, AppendPositions
<1> HIDE DEF t
<1>4. SUFFICES ASSUME Careful(q[e]), NEW j \in GpuOps(t), t[j].kind = "dispatch",
                      Concerns(t[j], x, Object(e, x[3]))
               PROVE  BarrierBetween(t, j, n + 2, SufficientBits(x[2]))
  BY <1>3 DEF CleanIn, t
<1>5. j \in 1 .. n
  BY <1>1, <1>4 DEF GpuOps
<1>6. j \in GpuOps(s) /\ s[j].kind = "dispatch" /\ Concerns(s[j], x, Object(e, x[3]))
  BY <1>1, <1>4, <1>5 DEF GpuOps
<1> QED
  BY <1>2, <1>4, <1>5, <1>6 DEF CleanIn

(* A barrier makes known what its bits are sufficient for.                 *)
LEMMA AppendSettles ==
  ASSUME NEW s \in Seq(GpuOp), NEW op \in GpuOp, NEW q, NEW e, NEW x,
         op.kind = "barrier",
         Careful(q[e]) => op.bits \cap SufficientBits(x[2]) # {}
  PROVE  CleanIn(Append(s, op), q, e, x)
<1> DEFINE t == Append(s, op)
           n == Len(s)
<1>1. /\ n \in Nat /\ DOMAIN s = 1 .. n /\ DOMAIN t = 1 .. (n + 1) /\ t[n + 1] = op
      /\ Len(t) = n + 1
  BY AppendPositions
<1>2. Careful(q[e]) => \A j \in 1 .. n : BarrierBetween(t, j, n + 2, SufficientBits(x[2]))
  BY <1>1, AppendBarriers
<1>3. Len(t) + 1 = n + 2
  BY <1>1
<1> HIDE DEF t
<1>4. GpuOps(t) \subseteq 1 .. n
  BY <1>1 DEF GpuOps
<1> QED
  BY <1>2, <1>3, <1>4 DEF CleanIn, t

(* An operation of encoder d that reads and writes what is known to be     *)
(* settled joins an ordered queue.                                         *)
LEMMA AppendFits ==
  ASSUME NEW s \in Seq(GpuOp), NEW op \in GpuOp, op.kind # "barrier", NEW q,
         NEW d \in Encoder, QueueFits(s, q), Owns(d, op),
         \A o \in Written(op) : o[2] \notin ProgramField,
         \A a \in ReadsOf(op) :
           Careful(q[d]) => CleanIn(s, q, d, Unstored(a.via, a.name[2])),
         \A a \in WritesOf(op) :
           Careful(q[d]) => CleanIn(s, q, d, Untouched(a.via, a.name[2]))
  PROVE  QueueFits(Append(s, op), q)
<1> DEFINE t == Append(s, op)
           n == Len(s)
<1>1. /\ n \in Nat /\ DOMAIN s = 1 .. n /\ DOMAIN t = 1 .. (n + 1) /\ t[n + 1] = op
      /\ \A k \in 1 .. n : t[k] = s[k]
  BY AppendPositions
<1>2. \A j \in 1 .. n : \A i \in 1 .. (n + 1) : \A bits :
        BarrierBetween(t, j, i, bits) <=> BarrierBetween(s, j, i, bits)
  BY <1>1, AppendBarriers
<1> HIDE DEF t, n
<1>3. GpuOps(t) = GpuOps(s) \cup {n + 1} /\ GpuOps(s) \subseteq 1 .. n
  BY <1>1 DEF GpuOps
<1>4. OwnedIn(t) /\ ProgramsKeptIn(t)
  BY <1>1, <1>3 DEF QueueFits, OwnedIn, ProgramsKeptIn
<1>5. ASSUME NEW i \in GpuOps(s), NEW j \in GpuOps(s), j < i, NEW b \in Conflicts(t, j, i),
             Careful(q[b.name[1]])
      PROVE  OrdersAccess(t, j, i, b)
  <2>1. t[j] = s[j] /\ t[i] = s[i]
    BY <1>1, <1>3
  <2>2. b \in Conflicts(s, j, i)
    BY <1>5, <2>1 DEF Conflicts
  <2>3. OrdersAccess(s, j, i, b)
    BY <1>5, <2>2 DEF QueueFits, OrderedIn
  <2>4. i \in 1 .. (n + 1) /\ j \in 1 .. n
    BY <1>1, <1>3
  <2> QED
    BY <1>2, <2>1, <2>3, <2>4 DEF OrdersAccess
<1>6. ASSUME NEW j \in GpuOps(s), NEW b \in Conflicts(t, j, n + 1),
             Careful(q[b.name[1]])
      PROVE  OrdersAccess(t, j, n + 1, b)
  <2>1. t[j] = s[j] /\ t[n + 1] = op /\ j \in 1 .. n /\ n + 1 \in 1 .. (n + 1)
    BY <1>1, <1>3
  <2>2. \/ b \in ReadsOf(op) /\ b.name \in Written(s[j])
        \/ b \in WritesOf(op) /\ b.name \in Touched(s[j])
    BY <1>6, <2>1 DEF Conflicts, Written, Touched
  <2>3. b.name \in Touched(op)
    BY <2>2 DEF Touched, Written
  <2>4. b.name[1] = d /\ b.name = Object(d, b.name[2])
    BY <2>3 DEF Owns
  <2>5. Careful(q[d])
    BY <1>6, <2>4
  <2>6. s[j].kind \in {"dispatch", "api"}
    <3>1. s[j] \in GpuOp /\ s[j].kind # "barrier"
      BY <1>1, <2>1, ElementOfSeq DEF GpuOps, n
    <3> QED
      BY <3>1 DEF GpuOp
  <2>7. CASE s[j].kind = "dispatch"
    <3>1. CASE b \in ReadsOf(op) /\ b.name \in Written(s[j])
      <4>1. CleanIn(s, q, d, Unstored(b.via, b.name[2]))
        BY <2>5, <3>1
      <4>2. Concerns(s[j], Unstored(b.via, b.name[2]), Object(d, b.name[2]))
        BY <2>4, <3>1 DEF Concerns, Unstored
      <4>3. BarrierBetween(s, j, n + 1, SufficientBits(b.via))
        BY <2>5, <2>7, <4>1, <4>2 DEF CleanIn, Unstored, n
      <4> QED
        BY <1>2, <2>1, <4>3 DEF OrdersAccess
    <3>2. CASE b \in WritesOf(op) /\ b.name \in Touched(s[j])
      <4>1. CleanIn(s, q, d, Untouched(b.via, b.name[2]))
        BY <2>5, <3>2
      <4>2. Concerns(s[j], Untouched(b.via, b.name[2]), Object(d, b.name[2]))
        BY <2>4, <3>2 DEF Concerns, Untouched
      <4>3. BarrierBetween(s, j, n + 1, SufficientBits(b.via))
        BY <2>5, <2>7, <4>1, <4>2 DEF CleanIn, Untouched, n
      <4> QED
        BY <1>2, <2>1, <4>3 DEF OrdersAccess
    <3> QED
      BY <2>2, <3>1, <3>2
  <2>8. CASE s[j].kind = "api"
    BY <2>1, <2>8 DEF OrdersAccess
  <2> QED
    BY <2>6, <2>7, <2>8
<1>7. OrderedIn(t, q)
  <2> SUFFICES ASSUME NEW i \in GpuOps(t), NEW j \in GpuOps(t), j < i,
                      NEW b \in Conflicts(t, j, i), Careful(q[b.name[1]])
               PROVE  OrdersAccess(t, j, i, b)
    BY DEF OrderedIn
  <2>1. j \in GpuOps(s) /\ (i \in GpuOps(s) \/ i = n + 1)
    BY <1>1, <1>3
  <2> QED
    BY <1>5, <1>6, <2>1
<1> QED
  BY <1>4, <1>7 DEF QueueFits, t

(* A barrier joins an ordered queue.                                       *)
LEMMA AppendBarrierFits ==
  ASSUME NEW s \in Seq(GpuOp), NEW op \in GpuOp, op.kind = "barrier", NEW q,
         QueueFits(s, q)
  PROVE  QueueFits(Append(s, op), q)
<1> DEFINE t == Append(s, op)
           n == Len(s)
<1>1. /\ n \in Nat /\ DOMAIN s = 1 .. n /\ DOMAIN t = 1 .. (n + 1) /\ t[n + 1] = op
      /\ \A k \in 1 .. n : t[k] = s[k]
  BY AppendPositions
<1>2. \A j \in 1 .. n : \A i \in 1 .. (n + 1) : \A bits :
        BarrierBetween(t, j, i, bits) <=> BarrierBetween(s, j, i, bits)
  BY <1>1, AppendBarriers
<1> HIDE DEF t, n
<1>3. GpuOps(t) = GpuOps(s) /\ GpuOps(s) \subseteq 1 .. n
  BY <1>1 DEF GpuOps
<1>4. OwnedIn(t) /\ ProgramsKeptIn(t)
  BY <1>1, <1>3 DEF QueueFits, OwnedIn, ProgramsKeptIn
<1>5. ASSUME NEW i \in GpuOps(s), NEW j \in GpuOps(s), j < i, NEW b \in Conflicts(t, j, i),
             Careful(q[b.name[1]])
      PROVE  OrdersAccess(t, j, i, b)
  <2>1. t[j] = s[j] /\ t[i] = s[i] /\ i \in 1 .. (n + 1) /\ j \in 1 .. n
    BY <1>1, <1>3
  <2>2. b \in Conflicts(s, j, i)
    BY <1>5, <2>1 DEF Conflicts
  <2>3. OrdersAccess(s, j, i, b)
    BY <1>5, <2>2 DEF QueueFits, OrderedIn
  <2> QED
    BY <1>2, <2>1, <2>3 DEF OrdersAccess
<1>6. OrderedIn(t, q)
  BY <1>3, <1>5 DEF OrderedIn
<1> QED
  BY <1>4, <1>6 DEF QueueFits, t

(* Position k of a queue the i-th operation was removed from.              *)
Before(i, k) == IF k < i THEN k ELSE k + 1

(* t is s without its i-th operation, which is no barrier unless it is at  *)
(* the head.                                                               *)
Removed(s, i, t) ==
  /\ i \in DOMAIN s /\ (s[i].kind # "barrier" \/ i = 1)
  /\ Len(t) = Len(s) - 1 /\ DOMAIN t = 1 .. (Len(s) - 1)
  /\ \A k \in DOMAIN t : t[k] = s[Before(i, k)]

(* No barrier between two operations goes with another operation.          *)
LEMMA RemovedBarriers ==
  ASSUME NEW s \in Seq(GpuOp), NEW i \in 1 .. Len(s), NEW t, Removed(s, i, t),
         NEW j \in DOMAIN t, NEW m \in 1 .. Len(s), NEW bits,
         BarrierBetween(s, Before(i, j), Before(i, m), bits)
  PROVE  BarrierBetween(t, j, m, bits)
<1>1. /\ Len(s) \in Nat /\ DOMAIN s = 1 .. Len(s)
      /\ j \in 1 .. (Len(s) - 1)
  BY LenProperties DEF Removed
<1>2. PICK k \in (Before(i, j) + 1) .. (Before(i, m) - 1) :
        s[k].kind = "barrier" /\ s[k].bits \cap bits # {}
  BY DEF BarrierBetween
<1>3. k \in Int /\ k > Before(i, j) /\ k < Before(i, m) /\ k # i
  <2>1. i = 1 => k > i
    BY <1>1, <1>2 DEF Before
  <2>2. i # 1 => k # i
    BY <1>2 DEF Removed
  <2> QED
    BY <1>1, <1>2, <2>1, <2>2 DEF Before
<1>4. CASE k < i
  <2>1. k \in (j + 1) .. (m - 1) /\ Before(i, k) = k /\ k \in 1 .. (Len(s) - 1)
    BY <1>1, <1>3, <1>4 DEF Before
  <2>2. t[k] = s[k]
    BY <2>1 DEF Removed
  <2> QED
    BY <1>2, <2>1, <2>2 DEF BarrierBetween
<1>5. CASE k > i
  <2>1. k - 1 \in (j + 1) .. (m - 1) /\ Before(i, k - 1) = k
        /\ k - 1 \in 1 .. (Len(s) - 1)
    BY <1>1, <1>3, <1>5 DEF Before
  <2>2. t[k - 1] = s[k]
    BY <2>1 DEF Removed
  <2> QED
    BY <1>2, <2>1, <2>2 DEF BarrierBetween
<1> QED
  BY <1>3, <1>4, <1>5

(* A queue an operation was removed from is as ordered as it was.          *)
LEMMA RemovedFits ==
  ASSUME NEW s \in Seq(GpuOp), NEW i \in DOMAIN s, NEW t, Removed(s, i, t), NEW q,
         QueueFits(s, q)
  PROVE  QueueFits(t, q)
<1>1. /\ Len(s) \in Nat /\ DOMAIN s = 1 .. Len(s) /\ i \in 1 .. Len(s)
      /\ DOMAIN t = 1 .. (Len(s) - 1)
  BY LenProperties DEF Removed
<1>2. \A k \in DOMAIN t : /\ Before(i, k) \in DOMAIN s /\ t[k] = s[Before(i, k)]
                          /\ k \in 1 .. Len(s)
  BY <1>1 DEF Removed, Before
<1>3. \A k \in GpuOps(t) : /\ k \in DOMAIN t /\ k \in 1 .. Len(s)
                           /\ Before(i, k) \in GpuOps(s) /\ t[k] = s[Before(i, k)]
  BY <1>2 DEF GpuOps
<1>4. OwnedIn(t) /\ ProgramsKeptIn(t)
  BY <1>3 DEF QueueFits, OwnedIn, ProgramsKeptIn
<1>5. ASSUME NEW k \in GpuOps(t), NEW j \in GpuOps(t), j < k, NEW b \in Conflicts(t, j, k),
             Careful(q[b.name[1]])
      PROVE  OrdersAccess(t, j, k, b)
  <2>1. Before(i, j) < Before(i, k)
    BY <1>1, <1>3, <1>5 DEF Before
  <2>2. b \in Conflicts(s, Before(i, j), Before(i, k))
    BY <1>3, <1>5 DEF Conflicts
  <2>3. OrdersAccess(s, Before(i, j), Before(i, k), b)
    BY <1>3, <1>5, <2>1, <2>2 DEF QueueFits, OrderedIn
  <2> QED
    BY <1>1, <1>3, <2>3, RemovedBarriers DEF OrdersAccess
<1>6. OrderedIn(t, q)
  BY <1>5 DEF OrderedIn
<1> QED
  BY <1>4, <1>6 DEF QueueFits

(* And what was known of it still is.                                      *)
LEMMA RemovedClean ==
  ASSUME NEW s \in Seq(GpuOp), NEW i \in DOMAIN s, NEW t, Removed(s, i, t), NEW q,
         NEW e, NEW x, CleanIn(s, q, e, x)
  PROVE  CleanIn(t, q, e, x)
<1>1. /\ Len(s) \in Nat /\ DOMAIN s = 1 .. Len(s) /\ i \in 1 .. Len(s)
      /\ DOMAIN t = 1 .. (Len(s) - 1) /\ Len(t) + 1 = Len(s)
  BY LenProperties DEF Removed
<1>2. \A k \in GpuOps(t) : /\ k \in DOMAIN t /\ Before(i, k) \in GpuOps(s)
                           /\ t[k] = s[Before(i, k)]
  BY <1>1 DEF GpuOps, Removed, Before
<1>3. Before(i, Len(s)) = Len(s) + 1 /\ Len(s) \in 1 .. Len(s)
  BY <1>1 DEF Before
<1>4. SUFFICES ASSUME Careful(q[e]), NEW j \in GpuOps(t), t[j].kind = "dispatch",
                      Concerns(t[j], x, Object(e, x[3]))
               PROVE  BarrierBetween(t, j, Len(s), SufficientBits(x[2]))
  BY <1>1 DEF CleanIn
<1>5. BarrierBetween(s, Before(i, j), Len(s) + 1, SufficientBits(x[2]))
  BY <1>2, <1>4 DEF CleanIn
<1> QED
  BY <1>1, <1>2, <1>3, <1>5, RemovedBarriers

(* What a unit number and a binding are.                                   *)
LEMMA UnitNames ==
  ASSUME NEW u \in Unit
  PROVE  /\ u[1] \in BindOps
         /\ u[1] = "bindTexture" => u[2] \in TexUnits /\ u = tex(u[2])
         /\ u[1] = "bindUav" => u[2] \in ImageUnits /\ u = uav(u[2])
         /\ u[1] = "bindUavBuffer" => u = ssbo
         /\ u[1] = "bindComputePso" => u = pso
BY DEF Unit, tex, uav, ssbo, pso, BindOps

(* A shader's units are units of the context.                              *)
LEMMA ShaderUnitsAreUnits ==
  ASSUME NEW glsl
  PROVE  ReadUnits(glsl) \subseteq Unit \ {pso} /\ WriteUnits(glsl) \subseteq Unit \ {pso}
<1> DEFINE i == ShaderInterface(glsl)
<1>1. /\ i.fetch \in Seq(TexUnits) /\ i.load \in Seq(ImageUnits)
      /\ i.buffer \in Seq(BufferSlots) /\ i.store \in {{0}, {0, 1}, {0, 2}}
  BY InterfaceType
<1> HIDE DEF i
<1>2. /\ \A k \in DOMAIN i.fetch : i.fetch[k] \in TexUnits
      /\ \A k \in DOMAIN i.load : i.load[k] \in ImageUnits
      /\ \A k \in DOMAIN i.buffer : i.buffer[k] \in BufferSlots
  BY <1>1, LenProperties, ElementOfSeq
<1>3. \A v \in TexUnits : tex(v) \in Unit \ {pso}
  BY DEF Unit, tex, pso
<1>4. \A v \in ImageUnits : uav(v) \in Unit \ {pso}
  BY DEF Unit, uav, pso
<1>5. \A v \in BufferSlots : <<"bindUavBuffer", v>> \in Unit \ {pso}
  BY DEF Unit, ssbo, pso, BufferSlots
<1>6. i.store \subseteq ImageUnits
  BY <1>1 DEF ImageUnits
<1> QED
  BY <1>2, <1>3, <1>4, <1>5, <1>6 DEF ReadUnits, WriteUnits, i

(* Every shader reads unit 0 and stores to image unit 0, which is all an   *)
(* unknown one would do.                                                   *)
LEMMA FewestUnits ==
  ASSUME NEW glsl
  PROVE  /\ ReadUnits("undefined") \subseteq ReadUnits(glsl)
         /\ WriteUnits("undefined") \subseteq WriteUnits(glsl)
<1>1. /\ 1 \in DOMAIN ShaderInterface(glsl).fetch
      /\ ShaderInterface(glsl).fetch[1] = 0 /\ 0 \in ShaderInterface(glsl).store
  BY DEF ShaderInterface, Interface
<1>2. ShaderInterface("undefined") = Interface(<<0>>, <<>>, <<>>, {0})
  BY DEF ShaderInterface
<1>3. ReadUnits("undefined") = {tex(0)} /\ WriteUnits("undefined") = {uav(0)}
  BY <1>2 DEF ReadUnits, WriteUnits, Interface
<1>4. tex(0) \in ReadUnits(glsl) /\ uav(0) \in WriteUnits(glsl)
  BY <1>1 DEF ReadUnits, WriteUnits
<1> QED
  BY <1>3, <1>4

(* An access of a dispatch goes through one of its shader's units.         *)
LEMMA DispatchNames ==
  ASSUME NEW glsl, NEW uni, NEW c
  PROVE  /\ \A a \in ReadsOf(DispatchOp(glsl, uni, c)) :
              \E u \in ReadUnits(glsl) : a.via = ViaOf(u) /\ a.name = NameAt(c, u)
         /\ \A a \in WritesOf(DispatchOp(glsl, uni, c)) :
              \E u \in WriteUnits(glsl) : a.via = "image" /\ a.name = NameAt(c, u)
<1> DEFINE i == ShaderInterface(glsl)
           fetches == [k \in DOMAIN i.fetch |-> Access("fetch", c.tex[i.fetch[k]], TRUE)]
           loads == [k \in DOMAIN i.load |->
                      LET b == c.img[i.load[k]]
                      IN  Access("image", b.name,
                                 ~(ImageAccessIsEnforced /\ b.access = "Write"))]
           buffers == [k \in DOMAIN i.buffer |-> Access("buffer", c.buf[i.buffer[k]], TRUE)]
           Of(a) == \E u \in ReadUnits(glsl) : a.via = ViaOf(u) /\ a.name = NameAt(c, u)
<1>1. /\ i.fetch \in Seq(TexUnits) /\ i.load \in Seq(ImageUnits)
      /\ i.buffer \in Seq(BufferSlots)
  BY InterfaceType
<1>2. ASSUME NEW k \in DOMAIN i.fetch PROVE Of(fetches[k])
  <2>1. tex(i.fetch[k]) \in ReadUnits(glsl)
    BY DEF ReadUnits
  <2>2. fetches[k].via = "fetch" /\ fetches[k].name = c.tex[i.fetch[k]]
    BY DEF Access
  <2>3. ViaOf(tex(i.fetch[k])) = "fetch" /\ NameAt(c, tex(i.fetch[k])) = c.tex[i.fetch[k]]
    BY DEF ViaOf, NameAt, tex
  <2> HIDE DEF i, fetches
  <2> QED
    BY <2>1, <2>2, <2>3
<1>3. ASSUME NEW k \in DOMAIN i.load PROVE Of(loads[k])
  <2>1. uav(i.load[k]) \in ReadUnits(glsl)
    BY DEF ReadUnits
  <2>2. loads[k].via = "image" /\ loads[k].name = c.img[i.load[k]].name
    BY DEF Access
  <2>3. /\ ViaOf(uav(i.load[k])) = "image"
        /\ NameAt(c, uav(i.load[k])) = c.img[i.load[k]].name
    BY DEF ViaOf, NameAt, uav
  <2> HIDE DEF i, loads
  <2> QED
    BY <2>1, <2>2, <2>3
<1>4. ASSUME NEW k \in DOMAIN i.buffer PROVE Of(buffers[k])
  <2> DEFINE u == <<"bindUavBuffer", i.buffer[k]>>
  <2>1. u \in ReadUnits(glsl)
    BY DEF ReadUnits
  <2>2. buffers[k].via = "buffer" /\ buffers[k].name = c.buf[i.buffer[k]]
    BY DEF Access
  <2>3. ViaOf(u) = "buffer" /\ NameAt(c, u) = c.buf[i.buffer[k]]
    BY DEF ViaOf, NameAt
  <2> HIDE DEF i, buffers, u
  <2> QED
    BY <2>1, <2>2, <2>3
<1>5. /\ DispatchOp(glsl, uni, c).in = (fetches \o loads) \o buffers
      /\ DispatchOp(glsl, uni, c).out = [u \in i.store |-> Access("image", c.img[u].name, TRUE)]
  BY DEF DispatchOp, DispatchInputs
<1> DEFINE R == [via : {"fetch", "image", "buffer"},
                 name : {c.tex[i.fetch[k]] : k \in DOMAIN i.fetch}
                          \cup {c.img[i.load[k]].name : k \in DOMAIN i.load}
                          \cup {c.buf[i.buffer[k]] : k \in DOMAIN i.buffer},
                 defined : BOOLEAN]
           A == {a \in R : Of(a)}
<1>6. fetches \in Seq(A) /\ loads \in Seq(A) /\ buffers \in Seq(A)
  <2>1. /\ Len(i.fetch) \in Nat /\ DOMAIN i.fetch = 1 .. Len(i.fetch)
        /\ Len(i.load) \in Nat /\ DOMAIN i.load = 1 .. Len(i.load)
        /\ Len(i.buffer) \in Nat /\ DOMAIN i.buffer = 1 .. Len(i.buffer)
    BY <1>1, LenProperties
  <2>2. fetches \in [1 .. Len(i.fetch) -> R]
    BY <2>1 DEF Access
  <2>3. loads \in [1 .. Len(i.load) -> R]
    BY <2>1 DEF Access
  <2>4. buffers \in [1 .. Len(i.buffer) -> R]
    BY <2>1 DEF Access
  <2> HIDE DEF fetches, loads, buffers, R, Of, i
  <2>5. fetches \in [1 .. Len(i.fetch) -> A]
    BY <1>2, <2>1, <2>2
  <2>6. loads \in [1 .. Len(i.load) -> A]
    BY <1>3, <2>1, <2>3
  <2>7. buffers \in [1 .. Len(i.buffer) -> A]
    BY <1>4, <2>1, <2>4
  <2> HIDE DEF A
  <2> QED
    BY <2>1, <2>5, <2>6, <2>7, FunctionIsSeq
<1>9. \A a \in ReadsOf(DispatchOp(glsl, uni, c)) : Of(a)
  <2> HIDE DEF fetches, loads, buffers, A, i, Of
  <2>1. (fetches \o loads) \o buffers \in Seq(A)
    BY <1>6, ConcatProperties
  <2>2. \A k \in DOMAIN ((fetches \o loads) \o buffers) :
          ((fetches \o loads) \o buffers)[k] \in A
    BY <2>1, LenProperties, ElementOfSeq
  <2>3. \A a \in A : Of(a)
    BY DEF A
  <2> QED
    BY <1>5, <2>2, <2>3 DEF ReadsOf
<1>7. ASSUME NEW v \in i.store
      PROVE  LET a == Access("image", c.img[v].name, TRUE)
             IN  \E u \in WriteUnits(glsl) : a.via = "image" /\ a.name = NameAt(c, u)
  <2>1. uav(v) \in WriteUnits(glsl) /\ NameAt(c, uav(v)) = c.img[v].name
    BY DEF WriteUnits, NameAt, uav
  <2> HIDE DEF i
  <2> QED
    BY <2>1 DEF Access
<1>8. ASSUME NEW a \in WritesOf(DispatchOp(glsl, uni, c))
      PROVE  \E u \in WriteUnits(glsl) : a.via = "image" /\ a.name = NameAt(c, u)
  <2>1. PICK v \in i.store : a = Access("image", c.img[v].name, TRUE)
    BY <1>5 DEF WritesOf
  <2> HIDE DEF i
  <2> QED
    BY <1>7, <2>1
<1> QED
  BY <1>8, <1>9

(* What the thread has been told of the programs: a program object holds   *)
(* the shader its encoder compiled into it.                                *)
ProgramsFit ==
  \A e \in Encoder : \A f \in ProgramField :
    LET o == Object(e, f)
    IN  /\ mem[o].fn \in {"undefined", FileOf(request[e], f)}
        /\ o \in live => mem[o].fn = FileOf(request[e], f)

(* What a careful encoder settles by is sufficient.                        *)
LEMMA SettlingSuffices ==
  ASSUME NEW r, Careful(r), NEW via
  PROVE  SettlingBits(r, via) \subseteq SufficientBits(via)
BY DEF Careful, SettlingBits, SufficientBits

(* Bindings an encoder knows of name its own objects, and are what they    *)
(* were unless the unit is bound anew.                                     *)
LEMMA BindNames ==
  ASSUME TypeOK, NEW d \in Encoder, call \in OwnCall(d), IssueBind
  PROVE  /\ UnitOf(call) \in Unit /\ call.name \in {d} \X Field
         /\ \A u \in Unit \ {UnitOf(call)} : NameAt(ctx', u) = NameAt(ctx, u)
         /\ call.op # "bindComputePso" \/ Links(mem[call.name].fn)
              => NameAt(ctx', UnitOf(call)) = call.name
         /\ call.op = "bindComputePso" /\ ~Links(mem[call.name].fn) => ctx' = ctx
<1>1. ctx \in Context
  BY DEF TypeOK, Context
<1>2. call \in Call({d} \X Field)
  BY DEF OwnCall
<1>3. CASE Issue("bindTexture") /\ ctx' = [ctx EXCEPT !.tex[call.slot] = call.name]
  <2>1. call.op = "bindTexture" /\ call.slot \in TexUnits /\ call.name \in {d} \X Field
    BY <1>2, <1>3, CallFields DEF Issue
  <2>2. UnitOf(call) = tex(call.slot) /\ UnitOf(call) \in Unit
    BY <2>1 DEF UnitOf, tex, Unit
  <2>3. \A u \in TexUnits : ctx'.tex[u] = IF u = call.slot THEN call.name ELSE ctx.tex[u]
    BY <1>1, <1>3 DEF Context
  <2>4. ctx'.img = ctx.img /\ ctx'.buf = ctx.buf /\ ctx'.pso = ctx.pso
    BY <1>1, <1>3 DEF Context
  <2>5. \A u \in Unit \ {UnitOf(call)} : NameAt(ctx', u) = NameAt(ctx, u)
    BY <2>2, <2>3, <2>4, UnitNames DEF NameAt
  <2>6. NameAt(ctx', UnitOf(call)) = call.name
    BY <2>1, <2>2, <2>3 DEF NameAt, tex
  <2> QED
    BY <2>1, <2>2, <2>5, <2>6
<1>4. CASE /\ Issue("bindUav")
           /\ ctx' = [ctx EXCEPT !.img[call.slot] = [name |-> call.name, access |-> call.access]]
  <2>1. call.op = "bindUav" /\ call.slot \in ImageUnits /\ call.name \in {d} \X Field
    BY <1>2, <1>4, CallFields DEF Issue
  <2>2. UnitOf(call) = uav(call.slot) /\ UnitOf(call) \in Unit
    BY <2>1 DEF UnitOf, uav, Unit
  <2>3. \A u \in ImageUnits :
          ctx'.img[u] = IF u = call.slot THEN [name |-> call.name, access |-> call.access]
                                         ELSE ctx.img[u]
    BY <1>1, <1>4 DEF Context
  <2>4. ctx'.tex = ctx.tex /\ ctx'.buf = ctx.buf /\ ctx'.pso = ctx.pso
    BY <1>1, <1>4 DEF Context
  <2>5. \A u \in Unit \ {UnitOf(call)} : NameAt(ctx', u) = NameAt(ctx, u)
    BY <2>2, <2>3, <2>4, UnitNames DEF NameAt
  <2>6. NameAt(ctx', UnitOf(call)) = call.name
    BY <2>1, <2>2, <2>3 DEF NameAt, uav
  <2> QED
    BY <2>1, <2>2, <2>5, <2>6
<1>5. CASE Issue("bindUavBuffer") /\ ctx' = [ctx EXCEPT !.buf[call.slot] = call.name]
  <2>1. call.op = "bindUavBuffer" /\ call.slot \in BufferSlots /\ call.name \in {d} \X Field
    BY <1>2, <1>5, CallFields DEF Issue
  <2>2. UnitOf(call) = ssbo /\ UnitOf(call) \in Unit /\ call.slot = 1
    BY <2>1 DEF UnitOf, ssbo, Unit, BufferSlots
  <2>3. ctx'.buf[1] = call.name
    BY <1>1, <1>5, <2>2 DEF Context, BufferSlots
  <2>4. ctx'.img = ctx.img /\ ctx'.tex = ctx.tex /\ ctx'.pso = ctx.pso
    BY <1>1, <1>5 DEF Context
  <2>5. \A u \in Unit \ {UnitOf(call)} : NameAt(ctx', u) = NameAt(ctx, u)
    BY <2>2, <2>4, UnitNames DEF NameAt, BindOps
  <2>6. NameAt(ctx', UnitOf(call)) = call.name
    BY <2>2, <2>3 DEF NameAt, ssbo
  <2> QED
    BY <2>1, <2>2, <2>5, <2>6
<1>6. CASE /\ Issue("bindComputePso")
           /\ ctx' = IF Links(mem[call.name].fn) THEN [ctx EXCEPT !.pso = call.name]
                                                 ELSE ctx
  <2>1. call.op = "bindComputePso" /\ call.name \in {d} \X Field
    BY <1>2, <1>6, CallFields DEF Issue
  <2>2. UnitOf(call) = pso /\ UnitOf(call) \in Unit
    BY <2>1 DEF UnitOf, pso, Unit
  <2>3. Links(mem[call.name].fn) => ctx'.pso = call.name
    BY <1>1, <1>6 DEF Context
  <2>4. ctx'.img = ctx.img /\ ctx'.tex = ctx.tex /\ ctx'.buf = ctx.buf
    BY <1>1, <1>6 DEF Context
  <2>5. \A u \in Unit \ {UnitOf(call)} : NameAt(ctx', u) = NameAt(ctx, u)
    BY <2>2, <2>4, UnitNames DEF NameAt, BindOps
  <2>6. Links(mem[call.name].fn) => NameAt(ctx', UnitOf(call)) = call.name
    BY <2>2, <2>3 DEF NameAt, pso
  <2> QED
    BY <1>6, <2>1, <2>2, <2>5, <2>6
<1> QED
  BY <1>3, <1>4, <1>5, <1>6 DEF IssueBind

(* What a transfer of encoder d leaves of the queue.                       *)
LEMMA TransferFits ==
  ASSUME TypeOK, NEW d \in Encoder, NEW F, Knows(d, F), QueueFits(stream, request),
         NEW fn \in Producer, NEW uni \in Seq(Int), NEW from \in Via, NEW to \in Via,
         NEW src \in {d} \X Field, NEW dst \in {d} \X Field,
         Enqueue(ApiOp(fn, uni, from, src, to, dst)),
         dst[2] \notin ProgramField,
         Careful(request[d]) => /\ Unstored(from, src[2]) \in F
                                /\ Untouched(to, dst[2]) \in F
  PROVE  /\ QueueFits(stream', request)
         /\ \A e, x : CleanIn(stream, request, e, x) => CleanIn(stream', request, e, x)
<1> DEFINE op == ApiOp(fn, uni, from, src, to, dst)
<1>1. stream \in Seq(GpuOp) /\ stream' = Append(stream, op)
  BY DEF TypeOK, Enqueue
<1>2. op \in GpuOp
  <2>1. src \in GLObject /\ dst \in GLObject
    BY DEF GLObject
  <2> QED
    BY <2>1, ApiType
<1>3. /\ op.kind = "api"
      /\ ReadsOf(op) = {Access(from, src, TRUE)} /\ WritesOf(op) = {Access(to, dst, TRUE)}
  <2>1. /\ op.kind = "api" /\ op.in = <<Access(from, src, TRUE)>>
        /\ op.out = [u \in {0} |-> Access(to, dst, TRUE)]
    BY DEF ApiOp
  <2> HIDE DEF op
  <2>2. ReadsOf(op) = {Access(from, src, TRUE)}
    <3>1. DOMAIN op.in = {1} /\ op.in[1] = Access(from, src, TRUE)
      <4> HIDE DEF Access
      <4> QED
        BY <2>1
    <3> QED
      BY <3>1 DEF ReadsOf
  <2>3. WritesOf(op) = {Access(to, dst, TRUE)}
    BY <2>1 DEF WritesOf
  <2> QED
    BY <2>1, <2>2, <2>3
<1> HIDE DEF op
<1>4. Written(op) = {dst} /\ Touched(op) = {dst, src}
  BY <1>3 DEF Written, Touched, Access
<1>5. src = Object(d, src[2]) /\ dst = Object(d, dst[2]) /\ src[1] = d /\ dst[1] = d
  BY DEF Object
<1>6. Owns(d, op)
  BY <1>4, <1>5 DEF Owns
<1>7. \A x \in F : x[1] \in {"unstored", "untouched"} => CleanIn(stream, request, d, x)
  BY DEF Knows
<1>8. Careful(request[d]) => /\ CleanIn(stream, request, d, Unstored(from, src[2]))
                             /\ CleanIn(stream, request, d, Untouched(to, dst[2]))
  BY <1>7 DEF Unstored, Untouched
<1>9. QueueFits(Append(stream, op), request)
  <2>1. \A a \in ReadsOf(op) :
          Careful(request[d]) => CleanIn(stream, request, d, Unstored(a.via, a.name[2]))
    BY <1>3, <1>8 DEF Access
  <2>2. \A a \in WritesOf(op) :
          Careful(request[d]) => CleanIn(stream, request, d, Untouched(a.via, a.name[2]))
    BY <1>3, <1>8 DEF Access
  <2>3. op.kind # "barrier" /\ \A o \in Written(op) : o[2] \notin ProgramField
    BY <1>3, <1>4
  <2> QED
    BY <1>1, <1>2, <1>6, <2>1, <2>2, <2>3, AppendFits
<1> QED
  BY <1>1, <1>2, <1>3, <1>9, AppendClean

(* What a barrier of encoder d leaves of the queue.                        *)
LEMMA BarrierFits ==
  ASSUME TypeOK, NEW d \in Encoder, QueueFits(stream, request),
         NEW bits \in SUBSET Bit, Enqueue(BarrierOp(bits))
  PROVE  /\ QueueFits(stream', request)
         /\ \A e, x : CleanIn(stream, request, e, x) => CleanIn(stream', request, e, x)
         /\ \A x : SettlingBits(request[d], x[2]) \cap bits # {}
                     => CleanIn(stream', request, d, x)
<1> DEFINE op == BarrierOp(bits)
<1>1. stream \in Seq(GpuOp) /\ stream' = Append(stream, op)
  BY DEF TypeOK, Enqueue
<1>2. op \in GpuOp /\ op.kind = "barrier" /\ op.bits = bits
  BY DEF BarrierOp, GpuOp
<1> HIDE DEF op
<1>3. QueueFits(stream', request)
  BY <1>1, <1>2, AppendBarrierFits
<1>4. \A e, x : CleanIn(stream, request, e, x) => CleanIn(stream', request, e, x)
  BY <1>1, <1>2, AppendClean
<1>5. ASSUME NEW x, SettlingBits(request[d], x[2]) \cap bits # {}
      PROVE  CleanIn(stream', request, d, x)
  <2>1. Careful(request[d]) => op.bits \cap SufficientBits(x[2]) # {}
    BY <1>2, <1>5, SettlingSuffices
  <2> QED
    BY <1>1, <1>2, <2>1, AppendSettles
<1> QED
  BY <1>3, <1>4, <1>5

(* What a dispatch of encoder d leaves of the queue.                       *)
LEMMA DispatchFits ==
  ASSUME TypeOK, ProgramsFit, NEW d \in Encoder, NEW F, Knows(d, F),
         QueueFits(stream, request), NEW f, NEW P, NEW G,
         Dispatches(request[d], F, f, P, G),
         Enqueue(DispatchOp(mem[ctx.pso].fn, uniform[ctx.pso], ctx))
  PROVE  /\ QueueFits(stream', request)
         /\ \A x \in G : x[1] \in {"unstored", "untouched"}
                           => CleanIn(stream', request, d, x)
         /\ \A e, x : e # d /\ CleanIn(stream, request, e, x)
                        => CleanIn(stream', request, e, x)
<1> DEFINE g == mem[ctx.pso].fn
           op == DispatchOp(g, uniform[ctx.pso], ctx)
           r == request[d]
<1>1. stream \in Seq(GpuOp) /\ stream' = Append(stream, op) /\ ctx \in Context
  BY DEF TypeOK, Enqueue, Context
<1>2. /\ Bound(pso, f) \in F /\ f \in ProgramField
      /\ \A u \in ReadUnits(FileOf(r, f)) \cup WriteUnits(FileOf(r, f)) : \E p \in P : p[1] = u
      /\ \A p \in P : p[1] \in Unit /\ p[2] # Null /\ Bound(p[1], p[2]) \in F
      /\ \A p \in Reads(r, f, P) : Careful(r) => Unstored(ViaOf(p[1]), p[2]) \in F
      /\ \A p \in Writes(r, f, P) :
           p[2] \notin ProgramField /\ (Careful(r) => Untouched("image", p[2]) \in F)
      /\ G \subseteq KeptByDispatch(F, Reads(r, f, P), Writes(r, f, P))
  BY DEF Dispatches
<1>3. ctx.pso = Object(d, f)
  <2>1. pso \in Unit
    BY DEF Unit
  <2>2. NameAt(ctx, pso) = HeldName(d, f)
    BY <1>2, <2>1 DEF Knows, Bound
  <2> QED
    BY <1>2, <2>2 DEF NameAt, HeldName, pso, ProgramField, Null
<1>4. g \in {"undefined", FileOf(r, f)}
  BY <1>2, <1>3 DEF ProgramsFit
<1>5. op \in GpuOp /\ op.kind = "dispatch"
  <2>1. ctx.pso \in GLObject
    BY <1>1 DEF Context
  <2>2. g \in Producer /\ uniform[ctx.pso] \in Seq(Int)
    BY <2>1 DEF TypeOK
  <2>3. op \in GpuOp
    BY <1>1, <2>2, DispatchType
  <2> QED
    BY <2>3 DEF DispatchOp
<1>6. ReadUnits(g) \subseteq ReadUnits(FileOf(r, f)) /\ WriteUnits(g) \subseteq WriteUnits(FileOf(r, f))
  BY <1>4, FewestUnits
<1>7. \A p \in P : NameAt(ctx, p[1]) = Object(d, p[2])
  BY <1>2 DEF Knows, Bound, HeldName
<1>8. ASSUME NEW a \in ReadsOf(op)
      PROVE  \E p \in Reads(r, f, P) : a.via = ViaOf(p[1]) /\ a.name = Object(d, p[2])
  <2>1. PICK u \in ReadUnits(g) : a.via = ViaOf(u) /\ a.name = NameAt(ctx, u)
    BY DispatchNames
  <2>2. PICK p \in P : p[1] = u
    BY <1>2, <1>6, <2>1
  <2>3. p \in Reads(r, f, P)
    BY <1>6, <2>1, <2>2 DEF Reads
  <2> QED
    BY <1>7, <2>1, <2>2, <2>3
<1>9. ASSUME NEW a \in WritesOf(op)
      PROVE  \E p \in Writes(r, f, P) : a.via = "image" /\ a.name = Object(d, p[2])
  <2>1. PICK u \in WriteUnits(g) : a.via = "image" /\ a.name = NameAt(ctx, u)
    BY DispatchNames
  <2>2. PICK p \in P : p[1] = u
    BY <1>2, <1>6, <2>1
  <2>3. p \in Writes(r, f, P)
    BY <1>6, <2>1, <2>2 DEF Writes
  <2> QED
    BY <1>7, <2>1, <2>2, <2>3
<1> HIDE DEF op, g, r
<1>10. \A o \in Written(op) : \E p \in Writes(r, f, P) : o = Object(d, p[2])
  BY <1>9 DEF Written
<1>11. \A o \in Touched(op) : \E p \in Reads(r, f, P) \cup Writes(r, f, P) : o = Object(d, p[2])
  BY <1>8, <1>10 DEF Touched
<1>12. Owns(d, op)
  BY <1>11 DEF Owns, Object
<1>13. \A x \in F : x[1] \in {"unstored", "untouched"} => CleanIn(stream, request, d, x)
  BY DEF Knows
<1>14. QueueFits(Append(stream, op), request)
  <2>1. ASSUME NEW a \in ReadsOf(op), Careful(request[d])
        PROVE  CleanIn(stream, request, d, Unstored(a.via, a.name[2]))
    <3>1. PICK p \in Reads(r, f, P) : a.via = ViaOf(p[1]) /\ a.name = Object(d, p[2])
      BY <1>8
    <3>2. Unstored(a.via, a.name[2]) = Unstored(ViaOf(p[1]), p[2])
      BY <3>1 DEF Object
    <3>3. Unstored(ViaOf(p[1]), p[2]) \in F
      BY <1>2, <2>1 DEF r
    <3> QED
      BY <1>13, <3>2, <3>3 DEF Unstored
  <2>2. ASSUME NEW a \in WritesOf(op), Careful(request[d])
        PROVE  CleanIn(stream, request, d, Untouched(a.via, a.name[2]))
    <3>1. PICK p \in Writes(r, f, P) : a.via = "image" /\ a.name = Object(d, p[2])
      BY <1>9
    <3>2. Untouched(a.via, a.name[2]) = Untouched("image", p[2])
      BY <3>1 DEF Object
    <3>3. Untouched("image", p[2]) \in F
      BY <1>2, <2>2 DEF r
    <3> QED
      BY <1>13, <3>2, <3>3 DEF Untouched
  <2>3. op.kind # "barrier" /\ \A o \in Written(op) : o[2] \notin ProgramField
    BY <1>2, <1>5, <1>10 DEF Object
  <2> QED
    BY <1>1, <1>5, <1>12, <2>1, <2>2, <2>3, AppendFits
<1>15. ASSUME NEW x \in G, x[1] \in {"unstored", "untouched"}
       PROVE  CleanIn(stream', request, d, x)
  <2>1. x \in KeptByDispatch(F, Reads(r, f, P), Writes(r, f, P))
    BY <1>2
  <2>2. /\ x \in F
        /\ x[1] = "unstored" => \A p \in Writes(r, f, P) : x[3] # p[2]
        /\ x[1] = "untouched" => \A p \in Reads(r, f, P) \cup Writes(r, f, P) : x[3] # p[2]
    BY <2>1 DEF KeptByDispatch
  <2>3. ~Concerns(op, x, Object(d, x[3]))
    BY <1>10, <1>11, <1>15, <2>2 DEF Concerns, Object
  <2> QED
    BY <1>1, <1>5, <1>13, <1>15, <2>2, <2>3, AppendClean
<1>16. ASSUME NEW e, NEW x, e # d, CleanIn(stream, request, e, x)
       PROVE  CleanIn(stream', request, e, x)
  <2>1. Written(op) \subseteq Touched(op)
    BY DEF Touched
  <2>2. Object(e, x[3]) \notin Touched(op)
    BY <1>12, <1>16 DEF Owns, Object
  <2>3. ~Concerns(op, x, Object(e, x[3]))
    BY <2>1, <2>2 DEF Concerns
  <2> QED
    BY <1>1, <1>5, <1>16, <2>3, AppendClean
<1> QED
  BY <1>1, <1>14, <1>15, <1>16

(* A call follows from what is known in the way its kind does.             *)
LEMMA StepOfKind ==
  ASSUME NEW r, NEW F, NEW c, NEW G, Follows(r, F, c, G)
  PROVE  /\ c.op \in BindOps => BindStep(r, F, c, G)
         /\ c.op \in {"create", "destroy"} => ObjectStep(r, F, c, G)
         /\ c.op \in {"upload", "download", "copy"} => TransferStep(r, F, c, G)
         /\ c.op = "barrier" => BarrierStep(r, F, c, G)
         /\ c.op \in {"uniform", "finish"} => PlainStep(F, c, G)
         /\ c.op = "dispatch" => DispatchStep(r, F, c, G)
BY DEF Follows, BindStep, ObjectStep, TransferStep, BarrierStep, PlainStep,
       DispatchStep, BindOps

(* What is left of F when units other than the program's may be rebound.   *)
LEMMA WrapperKeeps ==
  ASSUME NEW d, NEW F, Knows(d, F), request' = request, ctx'.pso = ctx.pso,
         \A x : CleanIn(stream, request, d, x) => CleanIn(stream', request, d, x),
         NEW G, G \subseteq KeptByWrapper(F)
  PROVE  Knows(d, G)'
<1>1. \A x \in G : x \in F /\ (x[1] = "bound" => x[2] = pso)
  BY DEF KeptByWrapper
<1>2. NameAt(ctx', pso) = NameAt(ctx, pso)
  BY DEF NameAt, pso
<1> QED
  BY <1>1, <1>2 DEF Knows

(* What the encoder knows after each call it makes follows from what it    *)
(* knew before, and the queue stays ordered.                               *)
LEMMA CallFollows ==
  ASSUME TypeOK, ProgramsFit, QueueFits(stream, request), CallsNameLiveObjects,
         NEW d \in Encoder, calls # <<>>, call \in OwnCall(d), NEW F, NEW G, Knows(d, F),
         Follows(request[d], F, call, G), IssueCall
  PROVE  /\ ProgramsFit' /\ QueueFits(stream, request)' /\ Knows(d, G)'
         /\ \A e, x : e # d /\ CleanIn(stream, request, e, x)
                        => CleanIn(stream', request, e, x)
<1> DEFINE r == request[d]
<1>1. call \in Call({d} \X Field)
  BY DEF OwnCall
<1>2. /\ call.op \in {"create", "destroy", "bindComputePso", "bindTexture", "bindUav",
                      "bindUavBuffer"} => call.name \in {d} \X Field
      /\ call.op \in {"upload", "copy", "download"}
           => call.src \in {d} \X Field /\ call.dst \in {d} \X Field
      /\ call.op = "download" => call.bytes \in Nat
      /\ call.op = "barrier" => call.bits \in SUBSET Bit
  BY <1>1, CallFields
<1>3. ASSUME UNCHANGED <<request, stream>>
      PROVE  /\ QueueFits(stream, request)'
             /\ \A e, x : CleanIn(stream, request, e, x) => CleanIn(stream', request, e, x)
  BY <1>3
<1>4. ASSUME UNCHANGED <<request, live, mem>> PROVE ProgramsFit'
  BY <1>4 DEF ProgramsFit
<1>5. CASE IssueCreate
  <2>1. /\ call.op = "create" /\ UNCHANGED <<request, stream>>
        /\ live' = live \cup {call.name} /\ mem' = [mem EXCEPT ![call.name] = call.value]
    BY <1>5 DEF IssueCreate, Issue
  <2>2. call.name = Object(d, call.name[2]) /\ call.name \in GLObject
    BY <1>2, <2>1 DEF Object, GLObject
  <2>3. ObjectStep(r, F, call, G)
    BY <2>1, StepOfKind
  <2>4. ctx'.pso = ctx.pso
    <3>1. ctx \in Context
      BY DEF TypeOK, Context
    <3> QED
      BY <1>5, <3>1 DEF IssueCreate, Context
  <2>5. Knows(d, G)'
    BY <1>3, <2>1, <2>3, <2>4, WrapperKeeps DEF ObjectStep
  <2>6. ProgramsFit'
    <3>1. ASSUME NEW e \in Encoder, NEW f \in ProgramField
          PROVE  /\ mem'[Object(e, f)].fn \in {"undefined", FileOf(request[e], f)}
                 /\ Object(e, f) \in live' => mem'[Object(e, f)].fn = FileOf(request[e], f)
      <4>1. CASE Object(e, f) = call.name
        <5>1. e = d /\ f = call.name[2]
          BY <2>2, <4>1 DEF Object
        <5>2. call.value.fn = FileOf(r, f)
          BY <2>1, <2>3, <5>1 DEF ObjectStep
        <5>3. mem'[call.name] = call.value
          BY <2>1, <2>2 DEF TypeOK
        <5> QED
          BY <4>1, <5>1, <5>2, <5>3
      <4>2. CASE Object(e, f) # call.name
        <5>1. mem'[Object(e, f)] = mem[Object(e, f)] /\ (Object(e, f) \in live' => Object(e, f) \in live)
          <6>1. Object(e, f) \in GLObject
            BY DEF Object, GLObject, ProgramField, Field
          <6> QED
            BY <2>1, <4>2, <6>1 DEF TypeOK
        <5> QED
          BY <5>1 DEF ProgramsFit
      <4> QED
        BY <4>1, <4>2
    <3> QED
      BY <2>1, <3>1 DEF ProgramsFit
  <2> QED
    BY <1>3, <2>1, <2>5, <2>6
<1>6. CASE IssueDestroy
  <2>1. call.op = "destroy" /\ UNCHANGED <<request, stream, mem>> /\ live' \subseteq live
    BY <1>6 DEF IssueDestroy, Issue
  <2>2. ObjectStep(r, F, call, G)
    BY <2>1, StepOfKind
  <2>3. ctx'.pso = ctx.pso
    <3>1. ctx \in Context
      BY DEF TypeOK, Context
    <3> DEFINE t == [u \in TexUnits |-> IF ctx.tex[u] = call.name THEN NoObject ELSE ctx.tex[u]]
               i == [u \in ImageUnits |-> IF ctx.img[u].name = call.name
                                            THEN NoContext.img[u] ELSE ctx.img[u]]
               b == [u \in BufferSlots |-> IF ctx.buf[u] = call.name THEN NoObject
                                                                     ELSE ctx.buf[u]]
    <3>2. ctx' = [ctx EXCEPT !.tex = t, !.img = i, !.buf = b]
      BY <1>6, <3>1 DEF IssueDestroy, Context
    <3> HIDE DEF t, i, b
    <3> QED
      BY <3>1, <3>2 DEF Context
  <2>4. Knows(d, G)'
    BY <1>3, <2>1, <2>2, <2>3, WrapperKeeps DEF ObjectStep
  <2>5. ProgramsFit'
    BY <2>1 DEF ProgramsFit
  <2> QED
    BY <1>3, <2>1, <2>4, <2>5
<1>7. CASE IssueBind
  <2>1. call.op \in BindOps /\ UNCHANGED <<request, stream, live, mem>>
    BY <1>7 DEF IssueBind, Issue, BindOps
  <2>2. BindStep(r, F, call, G)
    BY <2>1, StepOfKind
  <2>3. /\ UnitOf(call) \in Unit /\ call.name \in {d} \X Field
        /\ \A u \in Unit \ {UnitOf(call)} : NameAt(ctx', u) = NameAt(ctx, u)
        /\ call.op # "bindComputePso" \/ Links(mem[call.name].fn)
             => NameAt(ctx', UnitOf(call)) = call.name
        /\ call.op = "bindComputePso" /\ ~Links(mem[call.name].fn) => ctx' = ctx
    BY <1>7, BindNames
  <2>4. call.name \in live /\ call.name = Object(d, call.name[2])
    BY <2>1, <2>3 DEF CallsNameLiveObjects, BindOps, Object
  <2>5. call.name[2] \in ProgramField => mem[call.name].fn = FileOf(r, call.name[2])
    BY <2>4 DEF ProgramsFit
  <2>6. call.name[2] # Null
    BY <2>3 DEF Field, Null
  <2>7. Knows(d, G)'
    <3>1. CASE /\ call.op = "bindComputePso" => /\ call.name[2] \in ProgramField
                                                /\ Links(FileOf(r, call.name[2]))
               /\ G \subseteq {Bound(UnitOf(call), call.name[2])}
                                \cup KeptByBind(F, UnitOf(call))
      <4>1. NameAt(ctx', UnitOf(call)) = call.name
        BY <2>3, <2>5, <3>1
      <4>2. ASSUME NEW x \in G, x[1] = "bound", x[2] \in Unit
            PROVE  NameAt(ctx', x[2]) = HeldName(d, x[3])
        <5>1. CASE x = Bound(UnitOf(call), call.name[2])
          BY <2>4, <2>6, <4>1, <5>1 DEF Bound, HeldName
        <5>2. CASE x \in F /\ x[2] # UnitOf(call)
          BY <2>3, <4>2, <5>2 DEF Knows
        <5> QED
          BY <3>1, <4>2, <5>1, <5>2 DEF KeptByBind
      <4>3. \A x \in G : x[1] \in {"unstored", "untouched"} => x \in F
        BY <3>1 DEF KeptByBind, Bound
      <4> QED
        BY <1>3, <2>1, <4>2, <4>3 DEF Knows
    <3>2. CASE /\ call.op = "bindComputePso" /\ call.name[2] \in ProgramField
               /\ ~Links(FileOf(r, call.name[2]))
               /\ G \subseteq F
      <4>1. ctx' = ctx
        BY <2>3, <2>5, <3>2
      <4> QED
        BY <2>1, <3>2, <4>1 DEF Knows
    <3> QED
      BY <2>2, <3>1, <3>2 DEF BindStep
  <2> QED
    BY <1>3, <1>4, <2>1, <2>7
<1>8. CASE IssueUniform
  <2>1. call.op = "uniform" /\ UNCHANGED <<request, stream, live, mem, ctx>>
    BY <1>8 DEF IssueUniform, Issue
  <2>2. G \subseteq F
    BY <2>1, StepOfKind DEF PlainStep
  <2> QED
    BY <1>3, <1>4, <2>1, <2>2 DEF Knows
<1>9. CASE IssueFinish
  <2>1. call.op = "finish" /\ UNCHANGED <<request, stream, live, mem, ctx>> /\ stream = <<>>
    BY <1>9 DEF IssueFinish, Issue, context
  <2>2. \A x \in G : x \in F \/ x \in CleanFacts
    BY <2>1, StepOfKind DEF PlainStep
  <2>3. \A x : CleanIn(stream, request, d, x)
    BY <2>1 DEF CleanIn, GpuOps
  <2>4. \A x \in CleanFacts : x[1] # "bound"
    BY DEF CleanFacts
  <2>5. Knows(d, G)'
    BY <2>1, <2>2, <2>3, <2>4 DEF Knows
  <2> QED
    BY <1>3, <1>4, <2>1, <2>5
<1>10. CASE IssueBarrier
  <2>1. call.op = "barrier" /\ Enqueue(BarrierOp(call.bits)) /\ UNCHANGED <<request, live, mem, ctx>>
    BY <1>10 DEF IssueBarrier, Issue, context
  <2>2. BarrierStep(r, F, call, G)
    BY <2>1, StepOfKind
  <2>3. /\ QueueFits(stream', request)
        /\ \A e, x : CleanIn(stream, request, e, x) => CleanIn(stream', request, e, x)
        /\ \A x : SettlingBits(request[d], x[2]) \cap call.bits # {}
                    => CleanIn(stream', request, d, x)
    BY <1>2, <2>1, BarrierFits
  <2>4. \A x \in CleanFacts : x[1] # "bound"
    BY DEF CleanFacts
  <2>5. Knows(d, G)'
    BY <2>1, <2>2, <2>3, <2>4 DEF Knows, BarrierStep
  <2> QED
    BY <1>4, <2>1, <2>3, <2>5
<1>11. CASE IssueUpload \/ IssueDownload \/ IssueCopy
  <2>1. /\ call.op \in {"upload", "download", "copy"} /\ UNCHANGED <<request, live, mem>>
        /\ call.src \in {d} \X Field /\ call.dst \in {d} \X Field
    BY <1>2, <1>11 DEF IssueUpload, IssueDownload, IssueCopy, Issue, context
  <2>2. TransferStep(r, F, call, G)
    BY <2>1, StepOfKind
  <2>3. ctx'.pso = ctx.pso
    <3>1. ctx \in Context
      BY DEF TypeOK, Context
    <3> QED
      BY <1>11, <3>1 DEF IssueUpload, IssueDownload, IssueCopy, context, Context
  <2>4. \E fn \in Producer : \E uni \in Seq(Int) :
          Enqueue(ApiOp(fn, uni, FromVia(call.op), call.src, ToVia(call.op), call.dst))
    <3>1. CASE IssueUpload
      <4>1. /\ call.op = "upload"
            /\ Enqueue(ApiOp("upload", <<>>, "unpack", call.src, "upload", call.dst))
        BY <3>1 DEF IssueUpload, Issue
      <4>2. FromVia(call.op) = "unpack" /\ ToVia(call.op) = "upload" /\ <<>> \in Seq(Int)
        BY <4>1 DEF FromVia, ToVia
      <4> QED
        BY <4>1, <4>2 DEF Producer
    <3>2. CASE IssueDownload
      <4>1. /\ call.op = "download"
            /\ Enqueue(ApiOp("download", <<call.bytes>>, "download", call.src, "pack", call.dst))
        BY <3>2 DEF IssueDownload, Issue
      <4>2. FromVia(call.op) = "download" /\ ToVia(call.op) = "pack" /\ <<call.bytes>> \in Seq(Int)
        BY <1>2, <4>1, SingletonSeq DEF FromVia, ToVia
      <4> QED
        BY <4>1, <4>2 DEF Producer
    <3>3. CASE IssueCopy
      <4>1. /\ call.op = "copy"
            /\ Enqueue(ApiOp("copy", <<>>, "copy", call.src, "copy", call.dst))
        BY <3>3 DEF IssueCopy, Issue
      <4>2. FromVia(call.op) = "copy" /\ ToVia(call.op) = "copy" /\ <<>> \in Seq(Int)
        BY <4>1 DEF FromVia, ToVia
      <4> QED
        BY <4>1, <4>2 DEF Producer
    <3> QED
      BY <1>11, <3>1, <3>2, <3>3
  <2>5. FromVia(call.op) \in Via /\ ToVia(call.op) \in Via
    BY <2>1 DEF FromVia, ToVia, Via
  <2>6. /\ call.dst[2] \notin ProgramField /\ G \subseteq KeptByWrapper(F)
        /\ Careful(r) => /\ Unstored(FromVia(call.op), call.src[2]) \in F
                         /\ Untouched(ToVia(call.op), call.dst[2]) \in F
    BY <2>2 DEF TransferStep
  <2>7. /\ QueueFits(stream', request)
        /\ \A e, x : CleanIn(stream, request, e, x) => CleanIn(stream', request, e, x)
    BY <2>1, <2>4, <2>5, <2>6, TransferFits
  <2>8. Knows(d, G)'
    BY <2>1, <2>3, <2>6, <2>7, WrapperKeeps
  <2> QED
    BY <1>4, <2>1, <2>7, <2>8
<1>12. CASE IssueDispatch
  <2>1. call.op = "dispatch" /\ UNCHANGED <<request, live, mem, ctx>>
    BY <1>12 DEF IssueDispatch, Issue, context
  <2>2. DispatchStep(r, F, call, G)
    BY <2>1, StepOfKind
  <2>3. pso \in Unit /\ NameAt(ctx, pso) = ctx.pso
    BY DEF Unit, NameAt, pso
  <2>4. CASE NoProgram \in F /\ G \subseteq F
    <3>1. ctx.pso = NoObject
      BY <2>3, <2>4 DEF Knows, NoProgram, Bound, HeldName
    <3>2. stream' = stream
      BY <1>12, <3>1 DEF IssueDispatch
    <3> QED
      BY <1>3, <1>4, <2>1, <2>4, <3>2 DEF Knows
  <2>5. ASSUME NEW f, NEW P, Dispatches(r, F, f, P, G)
        PROVE  /\ ProgramsFit' /\ QueueFits(stream, request)' /\ Knows(d, G)'
               /\ \A e, x : e # d /\ CleanIn(stream, request, e, x)
                              => CleanIn(stream', request, e, x)
    <3>1. ctx.pso # NoObject
      <4>1. Bound(pso, f) \in F /\ f \in ProgramField
        BY <2>5 DEF Dispatches
      <4>2. ctx.pso = HeldName(d, f)
        BY <2>3, <4>1 DEF Knows, Bound
      <4> QED
        BY <4>1, <4>2 DEF HeldName, ProgramField, Null, Object, NoObject
    <3>2. Enqueue(DispatchOp(mem[ctx.pso].fn, uniform[ctx.pso], ctx))
      BY <1>12, <3>1 DEF IssueDispatch
    <3>3. /\ QueueFits(stream', request)
          /\ \A x \in G : x[1] \in {"unstored", "untouched"}
                            => CleanIn(stream', request, d, x)
          /\ \A e, x : e # d /\ CleanIn(stream, request, e, x)
                         => CleanIn(stream', request, e, x)
      BY <2>5, <3>2, DispatchFits
    <3>4. \A x \in G : x[1] = "bound" => x \in F
      BY <2>5 DEF Dispatches, KeptByDispatch
    <3>5. Knows(d, G)'
      BY <2>1, <3>3, <3>4 DEF Knows
    <3> QED
      BY <1>4, <2>1, <3>3, <3>5
  <2> QED
    BY <2>2, <2>4, <2>5 DEF DispatchStep
<1> QED
  BY <1>5, <1>6, <1>7, <1>8, <1>9, <1>10, <1>11, <1>12 DEF IssueCall

(* Knowing less after a call follows too.                                  *)
LEMMA FollowsLess ==
  ASSUME NEW r, NEW F, NEW c, NEW G, NEW H, Follows(r, F, c, G), H \subseteq G
  PROVE  Follows(r, F, c, H)
<1>1. BindStep(r, F, c, G) => BindStep(r, F, c, H)
  BY DEF BindStep
<1>2. ObjectStep(r, F, c, G) => ObjectStep(r, F, c, H)
  BY DEF ObjectStep
<1>3. TransferStep(r, F, c, G) => TransferStep(r, F, c, H)
  BY DEF TransferStep
<1>4. BarrierStep(r, F, c, G) => BarrierStep(r, F, c, H)
  BY DEF BarrierStep
<1>5. PlainStep(F, c, G) => PlainStep(F, c, H)
  BY DEF PlainStep
<1>6. \A f, P : Dispatches(r, F, f, P, G) => Dispatches(r, F, f, P, H)
  BY DEF Dispatches
<1>7. DispatchStep(r, F, c, G) => DispatchStep(r, F, c, H)
  BY <1>6 DEF DispatchStep
<1> QED
  BY <1>1, <1>2, <1>3, <1>4, <1>5, <1>7 DEF Follows

(* No calls lead nowhere.                                                  *)
LEMMA LeadsNowhere ==
  ASSUME NEW e, NEW r, NEW F, NEW G, G \subseteq F
  PROVE  Leads(e, r, <<>>, F, G)
<1> DEFINE T == <<F>>
<1>1. T[1] = F /\ Len(<<>>) = 0 /\ DOMAIN <<>> = {} /\ <<>> \in Seq(OwnCall(e))
  OBVIOUS
<1> HIDE DEF T
<1>2. Chain(r, <<>>, T)
  BY <1>1 DEF Chain
<1>3. T[1] \subseteq F /\ G \subseteq T[Len(<<>>) + 1]
  BY <1>1
<1> QED
  BY <1>1, <1>2, <1>3 DEF Leads

(* One list of calls after another.                                        *)
LEMMA LeadsOn ==
  ASSUME NEW e, NEW r, NEW s, NEW t, NEW F, NEW G, NEW H,
         Leads(e, r, s, F, G), Leads(e, r, t, G, H)
  PROVE  Leads(e, r, s \o t, F, H)
<1>1. s \in Seq(OwnCall(e)) /\ t \in Seq(OwnCall(e))
  BY DEF Leads
<1>2. PICK T : T[1] \subseteq F /\ G \subseteq T[Len(s) + 1] /\ Chain(r, s, T)
  BY DEF Leads
<1>3. PICK U : U[1] \subseteq G /\ H \subseteq U[Len(t) + 1] /\ Chain(r, t, U)
  BY DEF Leads
<1> DEFINE w == s \o t
           n == Len(s)
           m == Len(t)
<1>4. /\ w \in Seq(OwnCall(e)) /\ Len(w) = n + m /\ n \in Nat /\ m \in Nat
      /\ DOMAIN s = 1 .. n /\ DOMAIN t = 1 .. m /\ DOMAIN w = 1 .. (n + m)
      /\ \A k \in 1 .. n : w[k] = s[k]
      /\ \A k \in 1 .. (n + m) : k \notin 1 .. n => k - n \in 1 .. m /\ w[k] = t[k - n]
  BY <1>1, ConcatPositions
<1> HIDE DEF w, n, m
<1> DEFINE V == [k \in 1 .. (n + m + 1) |-> IF k <= n THEN T[k] ELSE U[k - n]]
<1>5. ASSUME NEW k \in 1 .. (n + m) PROVE Follows(r, V[k], w[k], V[k + 1])
  <2>1. CASE k < n
    <3>1. V[k] = T[k] /\ V[k + 1] = T[k + 1] /\ w[k] = s[k] /\ k \in DOMAIN s
      BY <1>4, <2>1
    <3> HIDE DEF V
    <3> QED
      BY <1>2, <3>1 DEF Chain
  <2>2. CASE k = n
    <3>1. V[k] = T[k] /\ V[k + 1] = U[1] /\ w[k] = s[k] /\ k \in DOMAIN s
      BY <1>4, <2>2
    <3>2. U[1] \subseteq T[k + 1]
      BY <1>2, <1>3, <2>2 DEF n
    <3> HIDE DEF V
    <3> QED
      BY <1>2, <3>1, <3>2, FollowsLess DEF Chain
  <2>3. CASE k > n
    <3>1. /\ V[k] = U[k - n] /\ V[k + 1] = U[(k - n) + 1] /\ w[k] = t[k - n]
          /\ k - n \in DOMAIN t
      BY <1>4, <2>3
    <3> HIDE DEF V
    <3> QED
      BY <1>3, <3>1 DEF Chain
  <2> QED
    BY <1>4, <2>1, <2>2, <2>3
<1>6. V[1] \subseteq F
  <2>1. CASE n = 0
    <3>1. V[1] = U[1]
      BY <1>4, <2>1
    <3> HIDE DEF V
    <3> QED
      BY <1>2, <1>3, <2>1, <3>1 DEF n
  <2>2. CASE n # 0
    <3>1. V[1] = T[1]
      BY <1>4, <2>2
    <3> HIDE DEF V
    <3> QED
      BY <1>2, <3>1
  <2> QED
    BY <2>1, <2>2
<1>7. V[n + m + 1] = U[m + 1]
  BY <1>4
<1> HIDE DEF V
<1>8. Chain(r, w, V)
  BY <1>4, <1>5 DEF Chain
<1>9. H \subseteq V[Len(w) + 1]
  BY <1>3, <1>4, <1>7 DEF m
<1> QED
  BY <1>4, <1>6, <1>8, <1>9 DEF Leads, w

(* Knowing more before and less after.                                     *)
LEMMA LeadsWeaker ==
  ASSUME NEW e, NEW r, NEW s, NEW F, NEW G, Leads(e, r, s, F, G),
         NEW K, F \subseteq K, NEW H, H \subseteq G
  PROVE  Leads(e, r, s, K, H)
BY DEF Leads

(* Calls made under a condition.                                           *)
LEMMA LeadsWhen ==
  ASSUME NEW e, NEW r, NEW b \in BOOLEAN, NEW s, NEW F, NEW G,
         b => Leads(e, r, s, F, G), ~b => G \subseteq F
  PROVE  Leads(e, r, When(b, s), F, G)
BY LeadsNowhere DEF When

(* Calls of which each leaves what is known as it is.                      *)
LEMMA LeadsSame ==
  ASSUME NEW e, NEW r, NEW S, NEW s \in Seq(S), S \subseteq OwnCall(e), NEW F,
         \A c \in S : Follows(r, F, c, F), NEW G, G \subseteq F
  PROVE  Leads(e, r, s, F, G)
<1>1. Len(s) \in Nat /\ DOMAIN s = 1 .. Len(s) /\ \A k \in DOMAIN s : s[k] \in S
  BY LenProperties, ElementOfSeq
<1> DEFINE T == [k \in 1 .. (Len(s) + 1) |-> F]
<1>2. \A k \in DOMAIN s : T[k] = F /\ T[k + 1] = F
  BY <1>1
<1>3. T[1] = F /\ T[Len(s) + 1] = F
  BY <1>1
<1> HIDE DEF T
<1>4. Chain(r, s, T)
  BY <1>1, <1>2 DEF Chain
<1>5. s \in Seq(OwnCall(e))
  OBVIOUS
<1> QED
  BY <1>3, <1>4, <1>5 DEF Leads

(* After the first call the others lead on.                                *)
LEMMA LeadsRest ==
  ASSUME NEW e, NEW r, NEW s, NEW F, NEW G, Leads(e, r, s, F, G), s # <<>>
  PROVE  \E A, B : /\ B \subseteq F /\ Follows(r, B, Head(s), A)
                   /\ Leads(e, r, Tail(s), A, G)
<1>1. s \in Seq(OwnCall(e)) /\ s # <<>>
  BY DEF Leads
<1>2. PICK T : T[1] \subseteq F /\ G \subseteq T[Len(s) + 1] /\ Chain(r, s, T)
  BY DEF Leads
<1>3. Len(s) \in Nat \ {0} /\ DOMAIN s = 1 .. Len(s)
  BY <1>1, EmptySeq, LenProperties
<1>4. /\ Tail(s) \in Seq(OwnCall(e)) /\ Len(Tail(s)) = Len(s) - 1 /\ Head(s) = s[1]
      /\ \A i \in 1 .. Len(Tail(s)) : Tail(s)[i] = s[i + 1]
  BY <1>1, HeadTailProperties
<1>5. DOMAIN Tail(s) = 1 .. (Len(s) - 1)
  BY <1>4, LenProperties
<1> DEFINE U == [k \in 1 .. Len(s) |-> T[k + 1]]
           t == Tail(s)
<1>6. /\ U[1] = T[2] /\ U[Len(s)] = T[Len(s) + 1]
      /\ \A k \in 1 .. (Len(s) - 1) : /\ k + 1 \in 1 .. Len(s) /\ U[k] = T[k + 1]
                                       /\ U[k + 1] = T[(k + 1) + 1]
  BY <1>3
<1> HIDE DEF U, t
<1>7. Chain(r, t, U)
  BY <1>2, <1>3, <1>4, <1>5, <1>6 DEF Chain, t
<1>8. Len(t) + 1 = Len(s)
  BY <1>3, <1>4 DEF t
<1>9. Leads(e, r, t, U[1], G)
  BY <1>2, <1>4, <1>6, <1>7, <1>8 DEF Leads, t
<1>10. Follows(r, T[1], Head(s), T[1 + 1])
  BY <1>2, <1>3, <1>4 DEF Chain
<1> QED
  BY <1>2, <1>6, <1>9, <1>10 DEF t

(* A list of one call.                                                     *)
LEMMA LeadsOne ==
  ASSUME NEW e, NEW r, NEW F, NEW G,
         NEW a \in OwnCall(e),
         Follows(r, F, a, G)
  PROVE  Leads(e, r, <<a>>, F, G)
<1> DEFINE s == <<a>>
           T == <<F, G>>
<1>1. s \in Seq(OwnCall(e)) /\ Len(s) = 1 /\ DOMAIN s = 1 .. 1
  OBVIOUS
<1>2. T[1] = F /\ T[2] = G
  OBVIOUS
<1>3. Chain(r, s, T)
  BY <1>1 DEF Chain
<1> HIDE DEF s, T
<1> QED
  BY <1>1, <1>2, <1>3 DEF Leads, s

(* A list of two calls.                                                    *)
LEMMA LeadsTwo ==
  ASSUME NEW e, NEW r, NEW F, NEW G, NEW A,
         NEW a \in OwnCall(e), NEW b \in OwnCall(e),
         Follows(r, F, a, A),
         Follows(r, A, b, G)
  PROVE  Leads(e, r, <<a, b>>, F, G)
<1> DEFINE s == <<a, b>>
           T == <<F, A, G>>
<1>1. s \in Seq(OwnCall(e)) /\ Len(s) = 2 /\ DOMAIN s = 1 .. 2
  OBVIOUS
<1>2. T[1] = F /\ T[3] = G
  OBVIOUS
<1>3. Chain(r, s, T)
  <2>1. s[1] = a /\ T[1] = F /\ T[2] = A
    OBVIOUS
  <2>2. s[2] = b /\ T[2] = A /\ T[3] = G
    OBVIOUS
  <2> HIDE DEF s, T
  <2> QED
    BY <1>1, <2>1, <2>2 DEF Chain
<1> HIDE DEF s, T
<1> QED
  BY <1>1, <1>2, <1>3 DEF Leads, s

(* A list of three calls.                                                  *)
LEMMA LeadsThree ==
  ASSUME NEW e, NEW r, NEW F, NEW G, NEW A, NEW B,
         NEW a \in OwnCall(e), NEW b \in OwnCall(e), NEW c \in OwnCall(e),
         Follows(r, F, a, A),
         Follows(r, A, b, B),
         Follows(r, B, c, G)
  PROVE  Leads(e, r, <<a, b, c>>, F, G)
<1> DEFINE s == <<a, b, c>>
           T == <<F, A, B, G>>
<1>1. s \in Seq(OwnCall(e)) /\ Len(s) = 3 /\ DOMAIN s = 1 .. 3
  OBVIOUS
<1>2. T[1] = F /\ T[4] = G
  OBVIOUS
<1>3. Chain(r, s, T)
  <2>1. s[1] = a /\ T[1] = F /\ T[2] = A
    OBVIOUS
  <2>2. s[2] = b /\ T[2] = A /\ T[3] = B
    OBVIOUS
  <2>3. s[3] = c /\ T[3] = B /\ T[4] = G
    OBVIOUS
  <2> HIDE DEF s, T
  <2> QED
    BY <1>1, <2>1, <2>2, <2>3 DEF Chain
<1> HIDE DEF s, T
<1> QED
  BY <1>1, <1>2, <1>3 DEF Leads, s

(* A list of four calls.                                                   *)
LEMMA LeadsFour ==
  ASSUME NEW e, NEW r, NEW F, NEW G, NEW A, NEW B, NEW C,
         NEW a \in OwnCall(e),
         NEW b \in OwnCall(e),
         NEW c \in OwnCall(e),
         NEW d \in OwnCall(e),
         Follows(r, F, a, A),
         Follows(r, A, b, B),
         Follows(r, B, c, C),
         Follows(r, C, d, G)
  PROVE  Leads(e, r, <<a, b, c, d>>, F, G)
<1> DEFINE s == <<a, b, c, d>>
           T == <<F, A, B, C, G>>
<1>1. s \in Seq(OwnCall(e)) /\ Len(s) = 4 /\ DOMAIN s = 1 .. 4
  OBVIOUS
<1>2. T[1] = F /\ T[5] = G
  OBVIOUS
<1>3. Chain(r, s, T)
  <2>1. s[1] = a /\ T[1] = F /\ T[2] = A
    OBVIOUS
  <2>2. s[2] = b /\ T[2] = A /\ T[3] = B
    OBVIOUS
  <2>3. s[3] = c /\ T[3] = B /\ T[4] = C
    OBVIOUS
  <2>4. s[4] = d /\ T[4] = C /\ T[5] = G
    OBVIOUS
  <2> HIDE DEF s, T
  <2> QED
    BY <1>1, <2>1, <2>2, <2>3, <2>4 DEF Chain
<1> HIDE DEF s, T
<1> QED
  BY <1>1, <1>2, <1>3 DEF Leads, s

(* A list of five calls.                                                   *)
LEMMA LeadsFive ==
  ASSUME NEW e, NEW r, NEW F, NEW G, NEW A, NEW B, NEW C, NEW D,
         NEW a \in OwnCall(e),
         NEW b \in OwnCall(e),
         NEW c \in OwnCall(e),
         NEW d \in OwnCall(e),
         NEW f \in OwnCall(e),
         Follows(r, F, a, A),
         Follows(r, A, b, B),
         Follows(r, B, c, C),
         Follows(r, C, d, D),
         Follows(r, D, f, G)
  PROVE  Leads(e, r, <<a, b, c, d, f>>, F, G)
<1> DEFINE s == <<a, b, c, d, f>>
           T == <<F, A, B, C, D, G>>
<1>1. s \in Seq(OwnCall(e)) /\ Len(s) = 5 /\ DOMAIN s = 1 .. 5
  OBVIOUS
<1>2. T[1] = F /\ T[6] = G
  OBVIOUS
<1>3. Chain(r, s, T)
  <2>1. s[1] = a /\ T[1] = F /\ T[2] = A
    OBVIOUS
  <2>2. s[2] = b /\ T[2] = A /\ T[3] = B
    OBVIOUS
  <2>3. s[3] = c /\ T[3] = B /\ T[4] = C
    OBVIOUS
  <2>4. s[4] = d /\ T[4] = C /\ T[5] = D
    OBVIOUS
  <2>5. s[5] = f /\ T[5] = D /\ T[6] = G
    OBVIOUS
  <2> HIDE DEF s, T
  <2> QED
    BY <1>1, <2>1, <2>2, <2>3, <2>4, <2>5 DEF Chain
<1> HIDE DEF s, T
<1> QED
  BY <1>1, <1>2, <1>3 DEF Leads, s

(* A list of six calls.                                                    *)
LEMMA LeadsSix ==
  ASSUME NEW e, NEW r, NEW F, NEW G, NEW A, NEW B, NEW C, NEW D, NEW E,
         NEW a \in OwnCall(e),
         NEW b \in OwnCall(e),
         NEW c \in OwnCall(e),
         NEW d \in OwnCall(e),
         NEW f \in OwnCall(e),
         NEW g \in OwnCall(e),
         Follows(r, F, a, A),
         Follows(r, A, b, B),
         Follows(r, B, c, C),
         Follows(r, C, d, D),
         Follows(r, D, f, E),
         Follows(r, E, g, G)
  PROVE  Leads(e, r, <<a, b, c, d, f, g>>, F, G)
<1> DEFINE s == <<a, b, c, d, f, g>>
           T == <<F, A, B, C, D, E, G>>
<1>1. s \in Seq(OwnCall(e)) /\ Len(s) = 6 /\ DOMAIN s = 1 .. 6
  OBVIOUS
<1>2. T[1] = F /\ T[7] = G
  OBVIOUS
<1>3. Chain(r, s, T)
  <2>1. s[1] = a /\ T[1] = F /\ T[2] = A
    OBVIOUS
  <2>2. s[2] = b /\ T[2] = A /\ T[3] = B
    OBVIOUS
  <2>3. s[3] = c /\ T[3] = B /\ T[4] = C
    OBVIOUS
  <2>4. s[4] = d /\ T[4] = C /\ T[5] = D
    OBVIOUS
  <2>5. s[5] = f /\ T[5] = D /\ T[6] = E
    OBVIOUS
  <2>6. s[6] = g /\ T[6] = E /\ T[7] = G
    OBVIOUS
  <2> HIDE DEF s, T
  <2> QED
    BY <1>1, <2>1, <2>2, <2>3, <2>4, <2>5, <2>6 DEF Chain
<1> HIDE DEF s, T
<1> QED
  BY <1>1, <1>2, <1>3 DEF Leads, s

(* The units of the shaders.                                               *)
LEMMA ShaderUnits ==
  /\ \A g \in {"etc1.glsl", "bc1.glsl", "bc1_dither.glsl"} :
       ReadUnits(g) = {tex(0), ssbo} /\ WriteUnits(g) = {uav(0)}
  /\ ReadUnits("etc1_with_error.glsl") = {tex(0), ssbo}
  /\ WriteUnits("etc1_with_error.glsl") = {uav(0), uav(2)}
  /\ ReadUnits("etc2_th.glsl") = {tex(0), uav(2)}
  /\ WriteUnits("etc2_th.glsl") = {uav(0), uav(1)}
  /\ ReadUnits("etc2_p.glsl") = {tex(0)}
  /\ WriteUnits("etc2_p.glsl") = {uav(0), uav(1)}
  /\ ReadUnits("etc2_rgba_stitch.glsl") = {tex(0), tex(1)}
  /\ WriteUnits("etc2_rgba_stitch.glsl") = {uav(0)}
  /\ \A g \in {"dither555.glsl", "eac.glsl", "bc4.glsl", "bc6h.glsl",
               "etc2_th_find_best_c0c1_k_means.glsl"} :
       ReadUnits(g) = {tex(0)} /\ WriteUnits(g) = {uav(0)}
<1>1. ASSUME NEW g, NEW l, NEW b, NEW S, ShaderInterface(g) = Interface(<< 0 >>, l, b, S)
      PROVE  /\ ReadUnits(g) = {tex(0)} \cup {uav(l[k]) : k \in DOMAIN l}
                                 \cup {<<"bindUavBuffer", b[k]>> : k \in DOMAIN b}
             /\ WriteUnits(g) = {uav(u) : u \in S}
  <2> DEFINE t == <<0>>
  <2>1. DOMAIN t = {1} /\ t[1] = 0
    OBVIOUS
  <2> HIDE DEF t
  <2>2. {tex(t[k]) : k \in DOMAIN t} = {tex(0)}
    BY <2>1
  <2> QED
    BY <1>1, <2>2 DEF ReadUnits, WriteUnits, Interface, t
<1>2. ASSUME NEW v PROVE DOMAIN <<v>> = {1} /\ <<v>>[1] = v
  OBVIOUS
<1>3. \A v : {uav(<<v>>[k]) : k \in DOMAIN <<v>>} = {uav(v)}
  BY <1>2
<1>4. {<<"bindUavBuffer", <<1>>[k]>> : k \in DOMAIN <<1>>} = {ssbo}
  BY <1>2 DEF ssbo
<1>5. {uav(<<>>[k]) : k \in DOMAIN <<>>} = {}
      /\ {<<"bindUavBuffer", <<>>[k]>> : k \in DOMAIN <<>>} = {}
  OBVIOUS
<1>6. {uav(u) : u \in {0}} = {uav(0)} /\ {uav(u) : u \in {0, 1}} = {uav(0), uav(1)}
      /\ {uav(u) : u \in {0, 2}} = {uav(0), uav(2)}
  OBVIOUS
<1>7. ASSUME NEW g \in {"etc1.glsl", "bc1.glsl", "bc1_dither.glsl"}
      PROVE  ReadUnits(g) = {tex(0), ssbo} /\ WriteUnits(g) = {uav(0)}
  <2>1. ShaderInterface(g) = Interface(<<0>>, <<>>, <<1>>, {0})
    BY DEF ShaderInterface
  <2> QED
    BY <1>1, <1>4, <1>5, <1>6, <2>1
<1>8. /\ ReadUnits("etc1_with_error.glsl") = {tex(0), ssbo}
      /\ WriteUnits("etc1_with_error.glsl") = {uav(0), uav(2)}
  <2>1. ShaderInterface("etc1_with_error.glsl") = Interface(<<0>>, <<>>, <<1>>, {0, 2})
    BY DEF ShaderInterface
  <2> QED
    BY <1>1, <1>4, <1>5, <1>6, <2>1
<1>9. ReadUnits("etc2_th.glsl") = {tex(0), uav(2)} /\ WriteUnits("etc2_th.glsl") = {uav(0), uav(1)}
  <2>1. ShaderInterface("etc2_th.glsl") = Interface(<<0>>, <<2>>, <<>>, {0, 1})
    BY DEF ShaderInterface
  <2> QED
    BY <1>1, <1>3, <1>5, <1>6, <2>1
<1>10. ReadUnits("etc2_p.glsl") = {tex(0)} /\ WriteUnits("etc2_p.glsl") = {uav(0), uav(1)}
  <2>1. ShaderInterface("etc2_p.glsl") = Interface(<<0>>, <<>>, <<>>, {0, 1})
    BY DEF ShaderInterface
  <2> QED
    BY <1>1, <1>5, <1>6, <2>1
<1>11. ASSUME NEW g \in {"dither555.glsl", "eac.glsl", "bc4.glsl", "bc6h.glsl",
                         "etc2_th_find_best_c0c1_k_means.glsl"}
       PROVE  ReadUnits(g) = {tex(0)} /\ WriteUnits(g) = {uav(0)}
  <2>1. ShaderInterface(g) = Interface(<<0>>, <<>>, <<>>, {0})
    BY DEF ShaderInterface
  <2> QED
    BY <1>1, <1>5, <1>6, <2>1
<1>12. /\ ReadUnits("etc2_rgba_stitch.glsl") = {tex(0), tex(1)}
       /\ WriteUnits("etc2_rgba_stitch.glsl") = {uav(0)}
  <2> DEFINE t == <<0, 1>>
  <2>1. ShaderInterface("etc2_rgba_stitch.glsl") = Interface(t, <<>>, <<>>, {0})
    BY DEF ShaderInterface
  <2>2. DOMAIN t = {1, 2} /\ t[1] = 0 /\ t[2] = 1
    OBVIOUS
  <2> HIDE DEF t
  <2>3. {tex(t[k]) : k \in DOMAIN t} = {tex(0), tex(1)}
    BY <2>2
  <2> QED
    BY <1>5, <1>6, <2>1, <2>3 DEF ReadUnits, WriteUnits, Interface
<1> QED
  BY <1>7, <1>8, <1>9, <1>10, <1>11, <1>12

(* The units of the selectors.                                             *)
LEMMA SelectorUnits ==
  /\ ReadUnits("etc2_rgb_selector.glsl") = {tex(0), tex(1), tex(2), tex(3), tex(4), uav(0)}
  /\ ReadUnits("etc2_rgba_selector.glsl")
       = {tex(0), tex(1), tex(2), tex(3), tex(4), tex(5), tex(6)}
  /\ WriteUnits("etc2_rgb_selector.glsl") = {uav(0)}
  /\ WriteUnits("etc2_rgba_selector.glsl") = {uav(0)}
<1>1. {uav(<<0>>[k]) : k \in DOMAIN <<0>>} = {uav(0)} /\ {uav(u) : u \in {0}} = {uav(0)}
  <2>1. DOMAIN <<0>> = {1} /\ <<0>>[1] = 0
    OBVIOUS
  <2> QED
    BY <2>1
<1>2. {uav(<<>>[k]) : k \in DOMAIN <<>>} = {}
      /\ {<<"bindUavBuffer", <<>>[k]>> : k \in DOMAIN <<>>} = {}
  OBVIOUS
<1>3. /\ ReadUnits("etc2_rgb_selector.glsl") = {tex(0), tex(1), tex(2), tex(3), tex(4), uav(0)}
      /\ WriteUnits("etc2_rgb_selector.glsl") = {uav(0)}
  <2> DEFINE t == <<0, 1, 2, 3, 4>>
  <2>1. ShaderInterface("etc2_rgb_selector.glsl") = Interface(t, <<0>>, <<>>, {0})
    BY DEF ShaderInterface
  <2>2. DOMAIN t = {1, 2, 3, 4, 5} /\ t[1] = 0 /\ t[2] = 1 /\ t[3] = 2 /\ t[4] = 3 /\ t[5] = 4
    OBVIOUS
  <2> HIDE DEF t
  <2>3. {tex(t[k]) : k \in DOMAIN t} = {tex(0), tex(1), tex(2), tex(3), tex(4)}
    BY <2>2
  <2>4. ReadUnits("etc2_rgb_selector.glsl")
          = {tex(t[k]) : k \in DOMAIN t} \cup {uav(<<0>>[k]) : k \in DOMAIN <<0>>}
              \cup {<<"bindUavBuffer", <<>>[k]>> : k \in DOMAIN <<>>}
    BY <2>1 DEF ReadUnits, Interface
  <2>5. ReadUnits("etc2_rgb_selector.glsl") = {tex(0), tex(1), tex(2), tex(3), tex(4), uav(0)}
    <3> HIDE DEF tex, uav
    <3> QED
      BY <1>1, <1>2, <2>3, <2>4
  <2>6. WriteUnits("etc2_rgb_selector.glsl") = {uav(0)}
    BY <2>1 DEF WriteUnits, Interface
  <2> QED
    BY <2>5, <2>6
<1>4. /\ ReadUnits("etc2_rgba_selector.glsl")
           = {tex(0), tex(1), tex(2), tex(3), tex(4), tex(5), tex(6)}
      /\ WriteUnits("etc2_rgba_selector.glsl") = {uav(0)}
  <2> DEFINE t == <<0, 1, 2, 3, 4, 5, 6>>
  <2>1. ShaderInterface("etc2_rgba_selector.glsl") = Interface(t, <<>>, <<>>, {0})
    BY DEF ShaderInterface
  <2>2. /\ DOMAIN t = {1, 2, 3, 4, 5, 6, 7} /\ t[1] = 0 /\ t[2] = 1 /\ t[3] = 2 /\ t[4] = 3
        /\ t[5] = 4 /\ t[6] = 5 /\ t[7] = 6
    OBVIOUS
  <2> HIDE DEF t
  <2>3. {tex(t[k]) : k \in DOMAIN t}
          = {tex(0), tex(1), tex(2), tex(3), tex(4), tex(5), tex(6)}
    BY <2>2
  <2>4. ReadUnits("etc2_rgba_selector.glsl")
          = {tex(t[k]) : k \in DOMAIN t} \cup {uav(<<>>[k]) : k \in DOMAIN <<>>}
              \cup {<<"bindUavBuffer", <<>>[k]>> : k \in DOMAIN <<>>}
    BY <2>1 DEF ReadUnits, Interface
  <2>5. ReadUnits("etc2_rgba_selector.glsl") = 
          {tex(0), tex(1), tex(2), tex(3), tex(4), tex(5), tex(6)}
    <3> HIDE DEF tex, uav
    <3> QED
      BY <1>1, <1>2, <2>3, <2>4
  <2>6. WriteUnits("etc2_rgba_selector.glsl") = {uav(0)}
    BY <2>1 DEF WriteUnits, Interface
  <2> QED
    BY <2>5, <2>6
<1> QED
  BY <1>3, <1>4

(* What is known once a unit is bound...                                   *)
Binds(F, u, f) == {Bound(u, f)} \cup KeptByBind(F, u)

(* ... once the images in R are read and those in W stored to...           *)
Uses(F, R, W) ==
  {x \in F : /\ x[1] = "unstored" => x[3] \notin W
             /\ x[1] = "untouched" => x[3] \notin R \cup W}

(* ... and once a barrier is behind.                                       *)
Settles(r, F, bits) ==
  F \cup {x \in CleanFacts : SettlingBits(r, x[2]) \cap bits # {}}

(* The steps of the calls, one by one.                                     *)
LEMMA BindSteps ==
  ASSUME NEW r, NEW F, NEW e, NEW f
  PROVE  /\ \A slot : Follows(r, F, bindTexture(slot, Object(e, f)), Binds(F, tex(slot), f))
         /\ \A slot, access :
              Follows(r, F, bindUav(slot, Object(e, f), access), Binds(F, uav(slot), f))
         /\ Follows(r, F, bindUavBuffer(1, Object(e, f)), Binds(F, ssbo, f))
<1>1. ASSUME NEW c, c.op \in BindOps, c.op # "bindComputePso", c.name = Object(e, f)
      PROVE  Follows(r, F, c, Binds(F, UnitOf(c), f))
  BY <1>1 DEF Follows, BindStep, Binds, Object
<1>2. ASSUME NEW slot
      PROVE  Follows(r, F, bindTexture(slot, Object(e, f)), Binds(F, tex(slot), f))
  <2> DEFINE c == bindTexture(slot, Object(e, f))
  <2>1. c.op = "bindTexture" /\ c.slot = slot /\ c.name = Object(e, f)
    BY DEF bindTexture
  <2> HIDE DEF c
  <2>2. UnitOf(c) = tex(slot) /\ c.op \in BindOps
    BY <2>1 DEF UnitOf, tex, BindOps
  <2>3. Follows(r, F, c, Binds(F, tex(slot), f))
    BY <1>1, <2>1, <2>2
  <2> QED
    BY <2>3 DEF c
<1>3. ASSUME NEW slot, NEW access
      PROVE  Follows(r, F, bindUav(slot, Object(e, f), access), Binds(F, uav(slot), f))
  <2> DEFINE c == bindUav(slot, Object(e, f), access)
  <2>1. c.op = "bindUav" /\ c.slot = slot /\ c.name = Object(e, f)
    BY DEF bindUav
  <2> HIDE DEF c
  <2>2. UnitOf(c) = uav(slot) /\ c.op \in BindOps
    BY <2>1 DEF UnitOf, uav, BindOps
  <2>3. Follows(r, F, c, Binds(F, uav(slot), f))
    BY <1>1, <2>1, <2>2
  <2> QED
    BY <2>3 DEF c
<1>4. Follows(r, F, bindUavBuffer(1, Object(e, f)), Binds(F, ssbo, f))
  <2> DEFINE c == bindUavBuffer(1, Object(e, f))
  <2>1. c.op = "bindUavBuffer" /\ c.slot = 1 /\ c.name = Object(e, f)
    BY DEF bindUavBuffer
  <2> HIDE DEF c
  <2>2. UnitOf(c) = ssbo /\ c.op \in BindOps
    BY <2>1 DEF UnitOf, ssbo, BindOps
  <2>3. Follows(r, F, c, Binds(F, ssbo, f))
    BY <1>1, <2>1, <2>2
  <2> QED
    BY <2>3 DEF c
<1> QED
  BY <1>2, <1>3, <1>4

(* Using a program binds it if it links.                                   *)
LEMMA ProgramSteps ==
  ASSUME NEW r, NEW F, NEW e, NEW f \in ProgramField
  PROVE  /\ Links(FileOf(r, f))
              => Follows(r, F, bindComputePso(Object(e, f)), Binds(F, pso, f))
         /\ ~Links(FileOf(r, f)) => Follows(r, F, bindComputePso(Object(e, f)), F)
<1> DEFINE c == bindComputePso(Object(e, f))
<1>1. c.op = "bindComputePso" /\ c.name = Object(e, f)
  BY DEF bindComputePso
<1> HIDE DEF c
<1>2. UnitOf(c) = pso /\ c.op \in BindOps /\ c.name[2] = f
  BY <1>1 DEF UnitOf, BindOps, Object
<1>3. Links(FileOf(r, f)) => Follows(r, F, c, Binds(F, pso, f))
  BY <1>1, <1>2 DEF Follows, BindStep, Binds
<1>4. ~Links(FileOf(r, f)) => Follows(r, F, c, F)
  BY <1>1, <1>2 DEF Follows, BindStep
<1> QED
  BY <1>3, <1>4 DEF c

(* The calls that bind nothing.                                            *)
LEMMA PlainSteps ==
  ASSUME NEW r, NEW F
  PROVE  /\ \A v : Follows(r, F, glUniform(v), F)
         /\ \A bits : Follows(r, F, glMemoryBarrier(bits), Settles(r, F, bits))
         /\ Follows(r, F, glFinish, F \cup CleanFacts)
         /\ NoProgram \in F => Follows(r, F, glDispatchCompute, F)
<1>1. \A v : Follows(r, F, glUniform(v), F)
  BY DEF Follows, PlainStep, glUniform
<1>2. ASSUME NEW bits PROVE Follows(r, F, glMemoryBarrier(bits), Settles(r, F, bits))
  <2>1. BarrierStep(r, F, glMemoryBarrier(bits), Settles(r, F, bits))
    BY DEF BarrierStep, glMemoryBarrier, Settles
  <2> QED
    BY <2>1 DEF Follows
<1>3. Follows(r, F, glFinish, F \cup CleanFacts)
  BY DEF Follows, PlainStep, glFinish
<1>4. NoProgram \in F => Follows(r, F, glDispatchCompute, F)
  BY DEF Follows, DispatchStep, glDispatchCompute
<1> QED
  BY <1>1, <1>2, <1>3, <1>4

(* The calls that generate, delete and transfer, when no unit is known.    *)
LEMMA ObjectSteps ==
  ASSUME NEW r, NEW F, \A x \in F : x[1] = "bound" => x[2] = pso, NEW e, NEW f
  PROVE  /\ \A c : c.op = "create" /\ c.name = Object(e, f)
                  /\ (f \in ProgramField => c.value.fn = FileOf(r, f))
                    => Follows(r, F, c, F)
         /\ \A c : c.op = "destroy" => Follows(r, F, c, F)
         /\ \A g : g \notin ProgramField
                  /\ (Careful(r) => Unstored("copy", f) \in F /\ Untouched("copy", g) \in F)
                    => Follows(r, F, copyImage(Object(e, f), Object(e, g)), F)
         /\ \A g : g \notin ProgramField
                  /\ (Careful(r) => Unstored("unpack", f) \in F /\ Untouched("upload", g) \in F)
                    => Follows(r, F, uploadStagingTexture(Object(e, f), Object(e, g)), F)
         /\ \A g, n : g \notin ProgramField
                     /\ (Careful(r) => /\ Unstored("download", f) \in F
                                       /\ Untouched("pack", g) \in F)
                       => Follows(r, F, downloadStagingTexture(Object(e, f), Object(e, g), n), F)
<1>1. F \subseteq KeptByWrapper(F)
  BY DEF KeptByWrapper
<1>2. ASSUME NEW c, c.op = "create", c.name = Object(e, f),
             f \in ProgramField => c.value.fn = FileOf(r, f)
      PROVE  Follows(r, F, c, F)
  BY <1>1, <1>2 DEF Follows, ObjectStep, Object
<1>3. ASSUME NEW c, c.op = "destroy" PROVE Follows(r, F, c, F)
  BY <1>1, <1>3 DEF Follows, ObjectStep
<1>4. ASSUME NEW g, NEW c, c.op \in {"upload", "download", "copy"},
             c.src = Object(e, f), c.dst = Object(e, g), g \notin ProgramField,
             Careful(r) => /\ Unstored(FromVia(c.op), f) \in F
                           /\ Untouched(ToVia(c.op), g) \in F
      PROVE  Follows(r, F, c, F)
  <2>1. c.src[2] = f /\ c.dst[2] = g
    BY <1>4 DEF Object
  <2> QED
    BY <1>1, <1>4, <2>1 DEF Follows, TransferStep
<1>5. ASSUME NEW g, g \notin ProgramField,
             Careful(r) => Unstored("copy", f) \in F /\ Untouched("copy", g) \in F
      PROVE  Follows(r, F, copyImage(Object(e, f), Object(e, g)), F)
  <2> DEFINE c == copyImage(Object(e, f), Object(e, g))
  <2>1. c.op = "copy" /\ c.src = Object(e, f) /\ c.dst = Object(e, g)
    BY DEF copyImage
  <2> HIDE DEF c
  <2>2. FromVia(c.op) = "copy" /\ ToVia(c.op) = "copy"
    BY <2>1 DEF FromVia, ToVia
  <2>3. Follows(r, F, c, F)
    BY <1>4, <1>5, <2>1, <2>2
  <2> QED
    BY <2>3 DEF c
<1>6. ASSUME NEW g, g \notin ProgramField,
             Careful(r) => Unstored("unpack", f) \in F /\ Untouched("upload", g) \in F
      PROVE  Follows(r, F, uploadStagingTexture(Object(e, f), Object(e, g)), F)
  <2> DEFINE c == uploadStagingTexture(Object(e, f), Object(e, g))
  <2>1. c.op = "upload" /\ c.src = Object(e, f) /\ c.dst = Object(e, g)
    BY DEF uploadStagingTexture
  <2> HIDE DEF c
  <2>2. FromVia(c.op) = "unpack" /\ ToVia(c.op) = "upload"
    BY <2>1 DEF FromVia, ToVia
  <2>3. Follows(r, F, c, F)
    BY <1>4, <1>6, <2>1, <2>2
  <2> QED
    BY <2>3 DEF c
<1>7. ASSUME NEW g, NEW n, g \notin ProgramField,
             Careful(r) => Unstored("download", f) \in F /\ Untouched("pack", g) \in F
      PROVE  Follows(r, F, downloadStagingTexture(Object(e, f), Object(e, g), n), F)
  <2> DEFINE c == downloadStagingTexture(Object(e, f), Object(e, g), n)
  <2>1. c.op = "download" /\ c.src = Object(e, f) /\ c.dst = Object(e, g)
    BY DEF downloadStagingTexture
  <2> HIDE DEF c
  <2>2. FromVia(c.op) = "download" /\ ToVia(c.op) = "pack"
    BY <2>1 DEF FromVia, ToVia
  <2>3. Follows(r, F, c, F)
    BY <1>4, <1>7, <2>1, <2>2
  <2> QED
    BY <2>3 DEF c
<1> QED
  BY <1>2, <1>3, <1>5, <1>6, <1>7

(* A dispatch of a program that reads the pairs of units and fields in R   *)
(* and stores to those in W.                                               *)
LEMMA DispatchRuns ==
  ASSUME NEW r, NEW F, NEW f \in ProgramField, Bound(pso, f) \in F, NEW R, NEW W,
         ReadUnits(FileOf(r, f)) = {p[1] : p \in R},
         WriteUnits(FileOf(r, f)) = {p[1] : p \in W},
         \A p \in R \cup W : p[1] \in Unit /\ p[2] # Null /\ Bound(p[1], p[2]) \in F,
         \A p, q \in R \cup W : p[1] = q[1] => p = q,
         \A p \in R : Unstored(ViaOf(p[1]), p[2]) \in F,
         \A p \in W : p[2] \notin ProgramField /\ Untouched("image", p[2]) \in F
  PROVE  Follows(r, F, glDispatchCompute, Uses(F, {p[2] : p \in R}, {p[2] : p \in W}))
<1> DEFINE P == R \cup W
           G == Uses(F, {p[2] : p \in R}, {p[2] : p \in W})
<1>1. Reads(r, f, P) = R /\ Writes(r, f, P) = W
  BY DEF Reads, Writes
<1>2. G \subseteq KeptByDispatch(F, R, W)
  BY DEF KeptByDispatch, Uses
<1>3. \A u \in ReadUnits(FileOf(r, f)) \cup WriteUnits(FileOf(r, f)) : \E p \in P : p[1] = u
  OBVIOUS
<1> HIDE DEF P, G
<1>4. \A p \in P : p[1] \in Unit /\ p[2] # Null /\ Bound(p[1], p[2]) \in F
  BY DEF P
<1>5. Dispatches(r, F, f, P, G)
  BY <1>1, <1>2, <1>3, <1>4 DEF Dispatches
<1>6. DispatchStep(r, F, glDispatchCompute, G)
  BY <1>5 DEF DispatchStep, glDispatchCompute
<1> QED
  BY <1>6 DEF Follows, G

(* A dispatch of one texture into one image.                              *)
LEMMA DispatchOne ==
  ASSUME NEW r, NEW F, NEW f \in ProgramField, Bound(pso, f) \in F,
         NEW a \in Field,
         NEW b \in Field \ ProgramField,
         ReadUnits(FileOf(r, f)) = {tex(0)}, WriteUnits(FileOf(r, f)) = {uav(0)},
         {Bound(tex(0), a), Bound(uav(0), b)} \subseteq F,
         {Unstored("fetch", a)} \subseteq F,
         {Untouched("image", b)} \subseteq F
  PROVE  Follows(r, F, glDispatchCompute, Uses(F, {a}, {b}))
<1> DEFINE R == {<<tex(0), a>>}
           W == {<<uav(0), b>>}
<1>1. {p[1] : p \in R} = {tex(0)} /\ {p[2] : p \in R} = {a}
  OBVIOUS
<1>2. {p[1] : p \in W} = {uav(0)} /\ {p[2] : p \in W} = {b}
  OBVIOUS
<1>3. {tex(0), uav(0)} \subseteq Unit
  BY DEF Unit, tex, uav, TexUnits, ImageUnits
<1>4. tex(0) # uav(0)
  BY DEF tex, uav, ssbo
<1>5. ViaOf(tex(0)) = "fetch"
  BY DEF ViaOf, tex, uav, ssbo
<1>6. \A x \in Field : x # Null
  BY DEF Field, Null
<1> HIDE DEF tex, uav, ssbo
<1>7. \A p \in R \cup W : p[1] \in Unit /\ p[2] # Null /\ Bound(p[1], p[2]) \in F
  BY <1>3, <1>6
<1>8. \A p, q \in R \cup W : p[1] = q[1] => p = q
  BY <1>4
<1>9. \A p \in R : Unstored(ViaOf(p[1]), p[2]) \in F
  BY <1>5
<1>10. \A p \in W : p[2] \notin ProgramField /\ Untouched("image", p[2]) \in F
  OBVIOUS
<1> HIDE DEF R, W
<1> QED
  BY <1>1, <1>2, <1>7, <1>8, <1>9, <1>10, DispatchRuns

(* A dispatch of a texture and a table into one image.                    *)
LEMMA DispatchTable ==
  ASSUME NEW r, NEW F, NEW f \in ProgramField, Bound(pso, f) \in F,
         NEW a \in Field, NEW t \in Field,
         NEW b \in Field \ ProgramField,
         ReadUnits(FileOf(r, f)) = {tex(0), ssbo}, WriteUnits(FileOf(r, f)) = {uav(0)},
         {Bound(tex(0), a), Bound(ssbo, t), Bound(uav(0), b)} \subseteq F,
         {Unstored("fetch", a), Unstored("buffer", t)} \subseteq F,
         {Untouched("image", b)} \subseteq F
  PROVE  Follows(r, F, glDispatchCompute, Uses(F, {a, t}, {b}))
<1> DEFINE R == {<<tex(0), a>>, <<ssbo, t>>}
           W == {<<uav(0), b>>}
<1>1. {p[1] : p \in R} = {tex(0), ssbo} /\ {p[2] : p \in R} = {a, t}
  OBVIOUS
<1>2. {p[1] : p \in W} = {uav(0)} /\ {p[2] : p \in W} = {b}
  OBVIOUS
<1>3. {tex(0), ssbo, uav(0)} \subseteq Unit
  BY DEF Unit, tex, uav, TexUnits, ImageUnits
<1>4. tex(0) # ssbo /\ tex(0) # uav(0) /\ ssbo # uav(0)
  BY DEF tex, uav, ssbo
<1>5. ViaOf(tex(0)) = "fetch" /\ ViaOf(ssbo) = "buffer"
  BY DEF ViaOf, tex, uav, ssbo
<1>6. \A x \in Field : x # Null
  BY DEF Field, Null
<1> HIDE DEF tex, uav, ssbo
<1>7. \A p \in R \cup W : p[1] \in Unit /\ p[2] # Null /\ Bound(p[1], p[2]) \in F
  BY <1>3, <1>6
<1>8. \A p, q \in R \cup W : p[1] = q[1] => p = q
  BY <1>4
<1>9. \A p \in R : Unstored(ViaOf(p[1]), p[2]) \in F
  BY <1>5
<1>10. \A p \in W : p[2] \notin ProgramField /\ Untouched("image", p[2]) \in F
  OBVIOUS
<1> HIDE DEF R, W
<1> QED
  BY <1>1, <1>2, <1>7, <1>8, <1>9, <1>10, DispatchRuns

(* A dispatch of a texture and a table into a block and its error.        *)
LEMMA DispatchError ==
  ASSUME NEW r, NEW F, NEW f \in ProgramField, Bound(pso, f) \in F,
         NEW a \in Field, NEW t \in Field,
         NEW b \in Field \ ProgramField, NEW c \in Field \ ProgramField,
         ReadUnits(FileOf(r, f)) = {tex(0), ssbo}, WriteUnits(FileOf(r, f)) = {uav(0), uav(2)},
         {Bound(tex(0), a), Bound(ssbo, t), Bound(uav(0), b), Bound(uav(2), c)} \subseteq F,
         {Unstored("fetch", a), Unstored("buffer", t)} \subseteq F,
         {Untouched("image", b), Untouched("image", c)} \subseteq F
  PROVE  Follows(r, F, glDispatchCompute, Uses(F, {a, t}, {b, c}))
<1> DEFINE R == {<<tex(0), a>>, <<ssbo, t>>}
           W == {<<uav(0), b>>, <<uav(2), c>>}
<1>1. {p[1] : p \in R} = {tex(0), ssbo} /\ {p[2] : p \in R} = {a, t}
  OBVIOUS
<1>2. {p[1] : p \in W} = {uav(0), uav(2)} /\ {p[2] : p \in W} = {b, c}
  OBVIOUS
<1>3. {tex(0), ssbo, uav(0), uav(2)} \subseteq Unit
  BY DEF Unit, tex, uav, TexUnits, ImageUnits
<1>4. /\ tex(0) # ssbo /\ tex(0) # uav(0) /\ ssbo # uav(0) /\ tex(0) # uav(2)
      /\ ssbo # uav(2) /\ uav(0) # uav(2)
  BY DEF tex, uav, ssbo
<1>5. ViaOf(tex(0)) = "fetch" /\ ViaOf(ssbo) = "buffer"
  BY DEF ViaOf, tex, uav, ssbo
<1>6. \A x \in Field : x # Null
  BY DEF Field, Null
<1> HIDE DEF tex, uav, ssbo
<1>7. \A p \in R \cup W : p[1] \in Unit /\ p[2] # Null /\ Bound(p[1], p[2]) \in F
  BY <1>3, <1>6
<1>8. \A p, q \in R \cup W : p[1] = q[1] => p = q
  BY <1>4
<1>9. \A p \in R : Unstored(ViaOf(p[1]), p[2]) \in F
  BY <1>5
<1>10. \A p \in W : p[2] \notin ProgramField /\ Untouched("image", p[2]) \in F
  OBVIOUS
<1> HIDE DEF R, W
<1> QED
  BY <1>1, <1>2, <1>7, <1>8, <1>9, <1>10, DispatchRuns

(* A dispatch of two textures into one image.                             *)
LEMMA DispatchStitch ==
  ASSUME NEW r, NEW F, NEW f \in ProgramField, Bound(pso, f) \in F,
         NEW a \in Field, NEW c \in Field,
         NEW b \in Field \ ProgramField,
         ReadUnits(FileOf(r, f)) = {tex(0), tex(1)}, WriteUnits(FileOf(r, f)) = {uav(0)},
         {Bound(tex(0), a), Bound(tex(1), c), Bound(uav(0), b)} \subseteq F,
         {Unstored("fetch", a), Unstored("fetch", c)} \subseteq F,
         {Untouched("image", b)} \subseteq F
  PROVE  Follows(r, F, glDispatchCompute, Uses(F, {a, c}, {b}))
<1> DEFINE R == {<<tex(0), a>>, <<tex(1), c>>}
           W == {<<uav(0), b>>}
<1>1. {p[1] : p \in R} = {tex(0), tex(1)} /\ {p[2] : p \in R} = {a, c}
  OBVIOUS
<1>2. {p[1] : p \in W} = {uav(0)} /\ {p[2] : p \in W} = {b}
  OBVIOUS
<1>3. {tex(0), tex(1), uav(0)} \subseteq Unit
  BY DEF Unit, tex, uav, TexUnits, ImageUnits
<1>4. tex(0) # tex(1) /\ tex(0) # uav(0) /\ tex(1) # uav(0)
  BY DEF tex, uav, ssbo
<1>5. ViaOf(tex(0)) = "fetch" /\ ViaOf(tex(1)) = "fetch"
  BY DEF ViaOf, tex, uav, ssbo
<1>6. \A x \in Field : x # Null
  BY DEF Field, Null
<1> HIDE DEF tex, uav, ssbo
<1>7. \A p \in R \cup W : p[1] \in Unit /\ p[2] # Null /\ Bound(p[1], p[2]) \in F
  BY <1>3, <1>6
<1>8. \A p, q \in R \cup W : p[1] = q[1] => p = q
  BY <1>4
<1>9. \A p \in R : Unstored(ViaOf(p[1]), p[2]) \in F
  BY <1>5
<1>10. \A p \in W : p[2] \notin ProgramField /\ Untouched("image", p[2]) \in F
  OBVIOUS
<1> HIDE DEF R, W
<1> QED
  BY <1>1, <1>2, <1>7, <1>8, <1>9, <1>10, DispatchRuns

(* A dispatch of a texture into a block and its error.                    *)
LEMMA DispatchP ==
  ASSUME NEW r, NEW F, NEW f \in ProgramField, Bound(pso, f) \in F,
         NEW a \in Field,
         NEW b \in Field \ ProgramField, NEW c \in Field \ ProgramField,
         ReadUnits(FileOf(r, f)) = {tex(0)}, WriteUnits(FileOf(r, f)) = {uav(0), uav(1)},
         {Bound(tex(0), a), Bound(uav(0), b), Bound(uav(1), c)} \subseteq F,
         {Unstored("fetch", a)} \subseteq F,
         {Untouched("image", b), Untouched("image", c)} \subseteq F
  PROVE  Follows(r, F, glDispatchCompute, Uses(F, {a}, {b, c}))
<1> DEFINE R == {<<tex(0), a>>}
           W == {<<uav(0), b>>, <<uav(1), c>>}
<1>1. {p[1] : p \in R} = {tex(0)} /\ {p[2] : p \in R} = {a}
  OBVIOUS
<1>2. {p[1] : p \in W} = {uav(0), uav(1)} /\ {p[2] : p \in W} = {b, c}
  OBVIOUS
<1>3. {tex(0), uav(0), uav(1)} \subseteq Unit
  BY DEF Unit, tex, uav, TexUnits, ImageUnits
<1>4. tex(0) # uav(0) /\ tex(0) # uav(1) /\ uav(0) # uav(1)
  BY DEF tex, uav, ssbo
<1>5. ViaOf(tex(0)) = "fetch"
  BY DEF ViaOf, tex, uav, ssbo
<1>6. \A x \in Field : x # Null
  BY DEF Field, Null
<1> HIDE DEF tex, uav, ssbo
<1>7. \A p \in R \cup W : p[1] \in Unit /\ p[2] # Null /\ Bound(p[1], p[2]) \in F
  BY <1>3, <1>6
<1>8. \A p, q \in R \cup W : p[1] = q[1] => p = q
  BY <1>4
<1>9. \A p \in R : Unstored(ViaOf(p[1]), p[2]) \in F
  BY <1>5
<1>10. \A p \in W : p[2] \notin ProgramField /\ Untouched("image", p[2]) \in F
  OBVIOUS
<1> HIDE DEF R, W
<1> QED
  BY <1>1, <1>2, <1>7, <1>8, <1>9, <1>10, DispatchRuns

(* A dispatch of a texture and an image into a block and its error.       *)
LEMMA DispatchTH ==
  ASSUME NEW r, NEW F, NEW f \in ProgramField, Bound(pso, f) \in F,
         NEW a \in Field, NEW h \in Field,
         NEW b \in Field \ ProgramField, NEW c \in Field \ ProgramField,
         ReadUnits(FileOf(r, f)) = {tex(0), uav(2)}, WriteUnits(FileOf(r, f)) = {uav(0), uav(1)},
         {Bound(tex(0), a), Bound(uav(2), h), Bound(uav(0), b), Bound(uav(1), c)} \subseteq F,
         {Unstored("fetch", a), Unstored("image", h)} \subseteq F,
         {Untouched("image", b), Untouched("image", c)} \subseteq F
  PROVE  Follows(r, F, glDispatchCompute, Uses(F, {a, h}, {b, c}))
<1> DEFINE R == {<<tex(0), a>>, <<uav(2), h>>}
           W == {<<uav(0), b>>, <<uav(1), c>>}
<1>1. {p[1] : p \in R} = {tex(0), uav(2)} /\ {p[2] : p \in R} = {a, h}
  OBVIOUS
<1>2. {p[1] : p \in W} = {uav(0), uav(1)} /\ {p[2] : p \in W} = {b, c}
  OBVIOUS
<1>3. {tex(0), uav(2), uav(0), uav(1)} \subseteq Unit
  BY DEF Unit, tex, uav, TexUnits, ImageUnits
<1>4. /\ tex(0) # uav(2) /\ tex(0) # uav(0) /\ uav(2) # uav(0) /\ tex(0) # uav(1)
      /\ uav(2) # uav(1) /\ uav(0) # uav(1)
  BY DEF tex, uav, ssbo
<1>5. ViaOf(tex(0)) = "fetch" /\ ViaOf(uav(2)) = "image"
  BY DEF ViaOf, tex, uav, ssbo
<1>6. \A x \in Field : x # Null
  BY DEF Field, Null
<1> HIDE DEF tex, uav, ssbo
<1>7. \A p \in R \cup W : p[1] \in Unit /\ p[2] # Null /\ Bound(p[1], p[2]) \in F
  BY <1>3, <1>6
<1>8. \A p, q \in R \cup W : p[1] = q[1] => p = q
  BY <1>4
<1>9. \A p \in R : Unstored(ViaOf(p[1]), p[2]) \in F
  BY <1>5
<1>10. \A p \in W : p[2] \notin ProgramField /\ Untouched("image", p[2]) \in F
  OBVIOUS
<1> HIDE DEF R, W
<1>11. ReadUnits(FileOf(r, f)) = {p[1] : p \in R} /\ WriteUnits(FileOf(r, f)) = {p[1] : p \in W}
  BY <1>1, <1>2
<1>12. Follows(r, F, glDispatchCompute, Uses(F, {p[2] : p \in R}, {p[2] : p \in W}))
  BY <1>7, <1>8, <1>9, <1>10, <1>11, DispatchRuns
<1> QED
  BY <1>1, <1>2, <1>12

(* What an encoder's steps never spoil.                                    *)
Rest == CleanFacts \ Spoilt

(* It is known at every stage...                                           *)
LEMMA RestIsKnown ==
  ASSUME NEW r, NEW s
  PROVE  Rest \subseteq KnownAt(r, s)
BY DEF Rest, KnownAt, SpoiltAt

(* ... and after every kind of call.                                       *)
LEMMA RestIsKept ==
  ASSUME NEW r, NEW F, Rest \subseteq F
  PROVE  /\ \A u, f : Rest \subseteq Binds(F, u, f)
         /\ \A bits : Rest \subseteq Settles(r, F, bits)
         /\ \A R \in SUBSET TouchedField : \A W \in SUBSET StoredField :
              Rest \subseteq Uses(F, R, W)
<1>1. \A x \in Rest : /\ x[1] \in {"unstored", "untouched"} /\ x[3] \in Field
                      /\ x[1] = "unstored" => x[3] \notin StoredField
                      /\ x[1] = "untouched" => x[3] \notin TouchedField
  <2> SUFFICES ASSUME NEW x \in Rest
               PROVE  /\ x[1] \in {"unstored", "untouched"} /\ x[3] \in Field
                      /\ x[1] = "unstored" => x[3] \notin StoredField
                      /\ x[1] = "untouched" => x[3] \notin TouchedField
    OBVIOUS
  <2>1. PICK a \in {"unstored", "untouched"}, via \in Via, f \in Field : x = <<a, via, f>>
    BY DEF Rest, CleanFacts
  <2>2. x[1] = a /\ x[3] = f /\ x \notin Spoilt
    BY <2>1 DEF Rest
  <2> QED
    BY <2>1, <2>2 DEF Spoilt
<1>2. StoredField \subseteq TouchedField
  BY DEF TouchedField
<1>3. \A u, f : Rest \subseteq Binds(F, u, f)
  BY <1>1 DEF Binds, KeptByBind
<1>4. \A bits : Rest \subseteq Settles(r, F, bits)
  BY DEF Settles
<1>5. ASSUME NEW R \in SUBSET TouchedField, NEW W \in SUBSET StoredField
      PROVE  Rest \subseteq Uses(F, R, W)
  BY <1>1, <1>2 DEF Uses
<1> QED
  BY <1>3, <1>4, <1>5

(* Single facts.                                                           *)
LEMMA InRest ==
  ASSUME NEW via \in Via, NEW f \in Field
  PROVE  /\ f \notin StoredField => Unstored(via, f) \in Rest
         /\ f \notin TouchedField => Untouched(via, f) \in Rest
         /\ Unstored(via, f) \in CleanFacts /\ Untouched(via, f) \in CleanFacts
BY DEF Rest, CleanFacts, Spoilt, Unstored, Untouched

(* Binding a unit keeps what is not about it...                            *)
LEMMA InBinds ==
  ASSUME NEW F, NEW u, NEW f
  PROVE  /\ Bound(u, f) \in Binds(F, u, f)
         /\ \A v, g : v # u /\ Bound(v, g) \in F => Bound(v, g) \in Binds(F, u, f)
         /\ \A via, g : Unstored(via, g) \in F => Unstored(via, g) \in Binds(F, u, f)
         /\ \A via, g : Untouched(via, g) \in F => Untouched(via, g) \in Binds(F, u, f)
         /\ \A S : S \subseteq CleanFacts /\ S \subseteq F => S \subseteq Binds(F, u, f)
BY DEF Binds, KeptByBind, Bound, Unstored, Untouched, CleanFacts

(* ... a dispatch what is not about its images...                          *)
LEMMA InUses ==
  ASSUME NEW F, NEW R, NEW W
  PROVE  /\ \A v, g : Bound(v, g) \in F => Bound(v, g) \in Uses(F, R, W)
         /\ \A via, g : Unstored(via, g) \in F /\ g \notin W => Unstored(via, g) \in Uses(F, R, W)
         /\ \A via, g : Untouched(via, g) \in F /\ g \notin R \cup W
                          => Untouched(via, g) \in Uses(F, R, W)
BY DEF Uses, Bound, Unstored, Untouched

(* ... and a barrier everything.                                           *)
LEMMA InSettles ==
  ASSUME NEW r, NEW F, NEW bits
  PROVE  /\ F \subseteq Settles(r, F, bits)
         /\ \A via \in Via : \A g \in Field :
              SettlingBits(r, via) \cap bits # {}
                => Unstored(via, g) \in Settles(r, F, bits)
                   /\ Untouched(via, g) \in Settles(r, F, bits)
BY DEF Settles, CleanFacts, Unstored, Untouched

(* What the barriers of the encoders settle.                               *)
LEMMA BarrierBits ==
  ASSUME NEW r
  PROVE  /\ SettlingBits(r, "fetch") \cap {"TEXTURE_FETCH"} # {}
         /\ SettlingBits(r, "image") \cap {"SHADER_IMAGE_ACCESS"} # {}
         /\ SettlingBits(r, "download") \cap {"PIXEL_BUFFER"} # {}
         /\ \A via \in {"image", "copy", "download", "upload", "pack", "unpack"} :
              SettlingBits(r, via) \cap {"TEXTURE_UPDATE", "SHADER_IMAGE_ACCESS"} # {}
         /\ UsesETC2(r) => SettlingBits(r, "fetch")
                             \cap {"TEXTURE_UPDATE", "SHADER_IMAGE_ACCESS"} # {}
BY DEF SettlingBits

(* The units differ.                                                       *)
LEMMA UnitsDiffer ==
  /\ \A i, j : tex(i) # uav(j) /\ tex(i) # ssbo /\ tex(i) # pso /\ uav(i) # ssbo /\ uav(i) # pso
  /\ ssbo # pso
  /\ \A i, j : (tex(i) = tex(j) => i = j) /\ (uav(i) = uav(j) => i = j)
BY DEF tex, uav, ssbo, pso

(* Two results are stitched.                                               *)
Stitch(e, a, b) ==
  <<glMemoryBarrier({"TEXTURE_FETCH"}), bindTexture(0, Object(e, a)),
    bindTexture(1, Object(e, b)), bindUav(0, Object(e, "m_stitchedTarget"), "Write"),
    bindComputePso(Object(e, "m_stitchPso")), glDispatchCompute>>

(* What the stitching needs, and what it leads to.                         *)
StitchFacts == Rest \cup {Untouched("image", "m_stitchedTarget")}

(* It overwrites nothing that is still in flight.                          *)
LEMMA StitchLeads ==
  ASSUME NEW e \in Encoder, NEW r, ~UsesETC2(r),
         NEW a \in StoredField \ {"m_stitchedTarget"},
         NEW b \in StoredField \ {"m_stitchedTarget"}
  PROVE  Leads(e, r, Stitch(e, a, b), StitchFacts, Rest)
<1> DEFINE A == Settles(r, StitchFacts, {"TEXTURE_FETCH"})
           B == Binds(A, tex(0), a)
           C == Binds(B, tex(1), b)
           D == Binds(C, uav(0), "m_stitchedTarget")
           E == Binds(D, pso, "m_stitchPso")
           G == Uses(E, {a, b}, {"m_stitchedTarget"})
<1>1. a \in Field /\ b \in Field /\ "m_stitchedTarget" \in Field \ ProgramField
      /\ "m_stitchPso" \in ProgramField /\ "m_stitchPso" \in Field
  BY DEF StoredField, Field, ProgramField
<1>2. FileOf(r, "m_stitchPso") = "etc2_rgba_stitch.glsl"
  BY DEF FileOf
<1>3. /\ Unstored("fetch", a) \in A /\ Unstored("fetch", b) \in A
      /\ Untouched("image", "m_stitchedTarget") \in A
  BY <1>1, InSettles, BarrierBits DEF Via, StitchFacts
<1> HIDE DEF A
<1>4. /\ Bound(tex(0), a) \in B
      /\ Unstored("fetch", a) \in B /\ Unstored("fetch", b) \in B
      /\ Untouched("image", "m_stitchedTarget") \in B
  BY <1>3, InBinds
<1> HIDE DEF B
<1>5. /\ Bound(tex(0), a) \in C /\ Bound(tex(1), b) \in C
      /\ Unstored("fetch", a) \in C /\ Unstored("fetch", b) \in C
      /\ Untouched("image", "m_stitchedTarget") \in C
  BY <1>4, InBinds, UnitsDiffer
<1> HIDE DEF C
<1>6. /\ Bound(tex(0), a) \in D /\ Bound(tex(1), b) \in D
      /\ Bound(uav(0), "m_stitchedTarget") \in D
      /\ Unstored("fetch", a) \in D /\ Unstored("fetch", b) \in D
      /\ Untouched("image", "m_stitchedTarget") \in D
  BY <1>5, InBinds, UnitsDiffer
<1> HIDE DEF D
<1>7. /\ Bound(tex(0), a) \in E /\ Bound(tex(1), b) \in E
      /\ Bound(uav(0), "m_stitchedTarget") \in E /\ Bound(pso, "m_stitchPso") \in E
      /\ Unstored("fetch", a) \in E /\ Unstored("fetch", b) \in E
      /\ Untouched("image", "m_stitchedTarget") \in E
  BY <1>6, InBinds, UnitsDiffer
<1>8. Follows(r, E, glDispatchCompute, G)
  <2> HIDE DEF E
  <2> QED
    BY <1>1, <1>2, <1>7, ShaderUnits, DispatchStitch
<1>9. Rest \subseteq G
  <2>1. Rest \subseteq E
    BY RestIsKept DEF A, B, C, D, StitchFacts
  <2>2. {a, b} \subseteq TouchedField /\ {"m_stitchedTarget"} \subseteq StoredField
    BY DEF TouchedField, StoredField
  <2> QED
    BY <2>1, <2>2, RestIsKept
<1>10. /\ Follows(r, StitchFacts, glMemoryBarrier({"TEXTURE_FETCH"}), A)
       /\ Follows(r, A, bindTexture(0, Object(e, a)), B)
       /\ Follows(r, B, bindTexture(1, Object(e, b)), C)
       /\ Follows(r, C, bindUav(0, Object(e, "m_stitchedTarget"), "Write"), D)
       /\ Follows(r, D, bindComputePso(Object(e, "m_stitchPso")), E)
  BY <1>1, <1>2, PlainSteps, BindSteps, ProgramSteps DEF Links, A, B, C, D
<1>11. /\ glMemoryBarrier({"TEXTURE_FETCH"}) \in OwnCall(e)
       /\ bindTexture(0, Object(e, a)) \in OwnCall(e)
       /\ bindTexture(1, Object(e, b)) \in OwnCall(e)
       /\ bindUav(0, Object(e, "m_stitchedTarget"), "Write") \in OwnCall(e)
       /\ bindComputePso(Object(e, "m_stitchPso")) \in OwnCall(e)
       /\ glDispatchCompute \in OwnCall(e)
  BY <1>1, OwnPlain, OwnBind, OwnBindUav DEF TexUnits, ImageUnits, Bit
<1> HIDE DEF E, G
<1>12. Leads(e, r, Stitch(e, a, b), StitchFacts, G)
  BY <1>8, <1>10, <1>11, LeadsSix DEF Stitch
<1> QED
  BY <1>9, <1>12, LeadsWeaker

-----------------------------------------------------------------------------
(* What is known at the stages.                                            *)
LEMMA KnownAtStages ==
  ASSUME NEW r
  PROVE  /\ ~UsesETC2(r) => KnownAt(r, "execute02") = StitchFacts
         /\ UsesETC2(r) => KnownAt(r, "execute02") = Rest
         /\ \A s \in {"execute03", "startDownload", "downloadTo", "save",
                      "deinitResources", "done"} : KnownAt(r, s) = Rest
         /\ KnownAt(r, "execute00") = CleanFacts
         /\ UsesEAC(r) => KnownAt(r, "initResources") = CleanFacts \cup {NoProgram}
         /\ ~UsesEAC(r) => KnownAt(r, "initResources") = CleanFacts
         /\ UsesEAC(r) => KnownAt(r, "execute01") = CleanFacts \cup {NoProgram}
         /\ UsesBC6H(r) => KnownAt(r, "execute01") = CleanFacts
         /\ UsesBC1(r) \/ UsesBC4(r) =>
              KnownAt(r, "execute01") = Rest \cup {x \in CleanFacts : x[2] = "image"}
<1>1. Untouched("image", "m_stitchedTarget") \in CleanFacts
  BY InRest DEF Via, Field
<1>2. ~UsesETC2(r) => KnownAt(r, "execute02") = StitchFacts
  BY <1>1 DEF KnownAt, SpoiltAt, StitchFacts, Rest
<1>3. UsesETC2(r) => KnownAt(r, "execute02") = Rest
  BY DEF KnownAt, SpoiltAt, Rest
<1>4. \A s \in {"execute03", "startDownload", "downloadTo", "save",
                "deinitResources", "done"} : KnownAt(r, s) = Rest
  BY DEF KnownAt, SpoiltAt, Rest
<1>5. KnownAt(r, "execute00") = CleanFacts
  BY DEF KnownAt, SpoiltAt
<1>6. /\ UsesEAC(r) => KnownAt(r, "initResources") = CleanFacts \cup {NoProgram}
      /\ ~UsesEAC(r) => KnownAt(r, "initResources") = CleanFacts
  BY DEF KnownAt, SpoiltAt
<1>7. UsesEAC(r) => KnownAt(r, "execute01") = CleanFacts \cup {NoProgram}
  BY DEF KnownAt, SpoiltAt, Has00, Loops, UsesETC1, UsesETC2, UsesEAC
<1>8. UsesBC6H(r) => KnownAt(r, "execute01") = CleanFacts
  BY DEF KnownAt, SpoiltAt, Has00, Loops, UsesETC1, UsesETC2, UsesEAC, UsesBC6H
<1>9. UsesBC1(r) \/ UsesBC4(r) =>
        KnownAt(r, "execute01") = Rest \cup {x \in CleanFacts : x[2] = "image"}
  BY DEF KnownAt, SpoiltAt, Has00, Loops, UsesETC1, UsesETC2, UsesEAC, UsesBC1, UsesBC4,
         UsesBC6H, Rest
<1> QED
  BY <1>2, <1>3, <1>4, <1>5, <1>6, <1>7, <1>8, <1>9

(* EncoderEAC: the program never comes into use, and nothing is stored.    *)
LEMMA EACLeads ==
  ASSUME NEW e \in Encoder, NEW r, UsesEAC(r)
  PROVE  /\ Leads(e, r, EAC_execute01(e, r), KnownAt(r, "execute01"), KnownAt(r, "execute02"))
         /\ Leads(e, r, EAC_execute02(e, r), KnownAt(r, "execute02"), Rest)
<1> DEFINE K == CleanFacts \cup {NoProgram}
<1>1. /\ KnownAt(r, "execute01") = K /\ ~UsesETC2(r)
      /\ KnownAt(r, "execute02") = StitchFacts
  BY KnownAtStages DEF UsesEAC, UsesETC2
<1>2. StitchFacts \subseteq K /\ CleanFacts \subseteq K
  BY InRest DEF StitchFacts, Rest, Via, Field
<1>3. "m_eacPso" \in ProgramField /\ ~Links(FileOf(r, "m_eacPso")) /\ rg11(r) \in BOOLEAN
  BY DEF ProgramField, Links, FileOf, rg11
<1>4. \A u \in Unit \ {pso} : \A f : K \subseteq Binds(K, u, f)
  BY InBinds DEF NoProgram
<1> HIDE DEF K
<1>5. /\ tex(0) \in Unit \ {pso} /\ uav(0) \in Unit \ {pso}
  BY UnitsDiffer DEF Unit, TexUnits, ImageUnits
<1>6. Leads(e, r, <<bindTexture(0, Object(e, "m_srcTexture")),
                    bindComputePso(Object(e, "m_eacPso"))>>, K, K)
  <2>1. Follows(r, K, bindTexture(0, Object(e, "m_srcTexture")), K)
    BY <1>4, <1>5, BindSteps, FollowsLess
  <2>2. Follows(r, K, bindComputePso(Object(e, "m_eacPso")), K)
    BY <1>3, ProgramSteps
  <2>3. /\ bindTexture(0, Object(e, "m_srcTexture")) \in OwnCall(e)
        /\ bindComputePso(Object(e, "m_eacPso")) \in OwnCall(e)
    BY OwnBind DEF TexUnits, Field
  <2> QED
    BY <2>1, <2>2, <2>3, LeadsTwo
<1>7. ASSUME NEW target \in Field \ {"m_downloadStaging"}, NEW n \in Int
      PROVE  Leads(e, r, EAC_compressChannel(e, target, n), K, K)
  <2>1. Follows(r, K, bindUav(0, Object(e, target), "Write"), K)
    BY <1>4, <1>5, BindSteps, FollowsLess
  <2>2. Follows(r, K, glUniform(<<n>>), K) /\ Follows(r, K, glDispatchCompute, K)
    BY PlainSteps DEF K
  <2>3. /\ bindUav(0, Object(e, target), "Write") \in OwnCall(e)
        /\ glUniform(<<n>>) \in OwnCall(e) /\ glDispatchCompute \in OwnCall(e)
    BY OwnBindUav, OwnPlain DEF ImageUnits
  <2> QED
    BY <2>1, <2>2, <2>3, LeadsThree DEF EAC_compressChannel
<1>8. Leads(e, r, EAC_execute01(e, r), K, K)
  <2>1. /\ Leads(e, r, EAC_compressChannel(e, "m_eacTargetRes[0]", 0), K, K)
        /\ Leads(e, r, EAC_compressChannel(e, "m_eacTargetRes[1]", 1), K, K)
    BY <1>7 DEF Field
  <2>2. Leads(e, r, When(rg11(r), EAC_compressChannel(e, "m_eacTargetRes[1]", 1)), K, K)
    BY <1>3, <2>1, LeadsWhen
  <2> QED
    BY <1>6, <2>1, <2>2, LeadsOn DEF EAC_execute01
<1>9. Leads(e, r, EAC_execute02(e, r), StitchFacts, Rest)
  <2>1. Leads(e, r, Stitch(e, "m_eacTargetRes[1]", "m_eacTargetRes[0]"), StitchFacts, Rest)
    BY <1>1, StitchLeads DEF StoredField
  <2> QED
    BY <1>3, <2>1, LeadsWhen DEF EAC_execute02, Stitch, StitchFacts
<1> QED
  BY <1>1, <1>2, <1>8, <1>9, LeadsWeaker

(* EncoderBC6H: one dispatch.                                              *)
LEMMA BC6HLeads ==
  ASSUME NEW e \in Encoder, NEW r, UsesBC6H(r)
  PROVE  Leads(e, r, BC6H_execute01(e, r), KnownAt(r, "execute01"), Rest)
<1> DEFINE K == CleanFacts
           A == Binds(K, tex(0), "m_srcTexture")
           B == Binds(A, uav(0), "m_compressTargetRes")
           C == Binds(B, pso, "m_compressPso")
           G == Uses(C, {"m_srcTexture"}, {"m_compressTargetRes"})
<1>1. "m_compressPso" \in ProgramField /\ FileOf(r, "m_compressPso") = "bc6h.glsl"
  BY DEF ProgramField, FileOf
<1>2. Unstored("fetch", "m_srcTexture") \in K /\ Untouched("image", "m_compressTargetRes") \in K
  BY InRest DEF Via, Field
<1>3. Rest \subseteq G
  <2>1. Rest \subseteq K
    BY DEF Rest
  <2>2. {"m_srcTexture"} \subseteq TouchedField /\ {"m_compressTargetRes"} \subseteq StoredField
    BY DEF TouchedField, StoredField
  <2> HIDE DEF K
  <2> QED
    BY <2>1, <2>2, RestIsKept
<1> HIDE DEF K
<1>4. /\ Bound(tex(0), "m_srcTexture") \in A /\ Unstored("fetch", "m_srcTexture") \in A
      /\ Untouched("image", "m_compressTargetRes") \in A
  BY <1>2, InBinds
<1> HIDE DEF A
<1>5. /\ Bound(tex(0), "m_srcTexture") \in B /\ Bound(uav(0), "m_compressTargetRes") \in B
      /\ Unstored("fetch", "m_srcTexture") \in B
      /\ Untouched("image", "m_compressTargetRes") \in B
  BY <1>4, InBinds, UnitsDiffer
<1> HIDE DEF B
<1>6. /\ Bound(tex(0), "m_srcTexture") \in C /\ Bound(uav(0), "m_compressTargetRes") \in C
      /\ Bound(pso, "m_compressPso") \in C
      /\ Unstored("fetch", "m_srcTexture") \in C
      /\ Untouched("image", "m_compressTargetRes") \in C
  BY <1>5, InBinds, UnitsDiffer
<1> HIDE DEF C
<1>7. Follows(r, C, glDispatchCompute, G)
  <2>1. "m_srcTexture" \in Field /\ "m_compressTargetRes" \in Field \ ProgramField
    BY DEF Field, ProgramField
  <2> QED
    BY <1>1, <1>6, <2>1, ShaderUnits, DispatchOne
<1>8. /\ Follows(r, K, bindTexture(0, Object(e, "m_srcTexture")), A)
      /\ Follows(r, A, bindUav(0, Object(e, "m_compressTargetRes"), "Write"), B)
      /\ Follows(r, B, bindComputePso(Object(e, "m_compressPso")), C)
      /\ Follows(r, C, glUniform(<<1>>), C)
  BY <1>1, PlainSteps, BindSteps, ProgramSteps DEF Links, A, B, C
<1>9. /\ bindTexture(0, Object(e, "m_srcTexture")) \in OwnCall(e)
      /\ bindUav(0, Object(e, "m_compressTargetRes"), "Write") \in OwnCall(e)
      /\ bindComputePso(Object(e, "m_compressPso")) \in OwnCall(e)
      /\ glUniform(<<1>>) \in OwnCall(e) /\ glDispatchCompute \in OwnCall(e)
  BY OwnPlain, OwnBind, OwnBindUav DEF TexUnits, ImageUnits, Field
<1> HIDE DEF G
<1>10. Leads(e, r, BC6H_execute01(e, r), K, G)
  BY <1>7, <1>8, <1>9, LeadsFive DEF BC6H_execute01
<1>11. KnownAt(r, "execute01") = K
  BY KnownAtStages DEF K
<1> QED
  BY <1>3, <1>10, <1>11, LeadsWeaker

(* What EncoderBC1 and EncoderBC4 know before execute01.                   *)
ImageFacts == {x \in CleanFacts : x[2] = "image"}

(* Every field is in it.                                                   *)
LEMMA InImageFacts ==
  ASSUME NEW f \in Field
  PROVE  Unstored("image", f) \in ImageFacts /\ Untouched("image", f) \in ImageFacts
BY DEF ImageFacts, CleanFacts, Via, Unstored, Untouched

(* The copy of the result to the texture that is never read.               *)
LEMMA CopyLeads ==
  ASSUME NEW e \in Encoder, NEW r, NEW f \in Field
  PROVE  Leads(e, r, <<glMemoryBarrier({"TEXTURE_UPDATE", "SHADER_IMAGE_ACCESS"}),
                       copyImage(Object(e, f), Object(e, "m_dstTexture"))>>,
               Rest, Rest \cup ImageFacts)
<1> DEFINE bits == {"TEXTURE_UPDATE", "SHADER_IMAGE_ACCESS"}
           A == Settles(r, Rest, bits)
<1>1. \A x \in A : x[1] = "bound" => x[2] = pso
  BY DEF Settles, Rest, CleanFacts
<1>2. Unstored("copy", f) \in A /\ Untouched("copy", "m_dstTexture") \in A
  BY InSettles, BarrierBits DEF Via, Field
<1>3. Rest \cup ImageFacts \subseteq A
  BY BarrierBits DEF ImageFacts, Settles
<1> HIDE DEF A
<1>4. Follows(r, A, copyImage(Object(e, f), Object(e, "m_dstTexture")), A)
  <2>1. "m_dstTexture" \notin ProgramField
    BY DEF ProgramField
  <2> QED
    BY <1>1, <1>2, <2>1, ObjectSteps
<1>5. Follows(r, Rest, glMemoryBarrier(bits), A)
  BY PlainSteps DEF A
<1>6. /\ glMemoryBarrier(bits) \in OwnCall(e)
      /\ copyImage(Object(e, f), Object(e, "m_dstTexture")) \in OwnCall(e)
  BY OwnPlain, OwnTransfer DEF Bit, Field
<1>7. Leads(e, r, <<glMemoryBarrier(bits), copyImage(Object(e, f), Object(e, "m_dstTexture"))>>,
            Rest, A)
  BY <1>4, <1>5, <1>6, LeadsTwo
<1> QED
  BY <1>3, <1>7, LeadsWeaker

(* EncoderBC4: a channel at a time.                                        *)
LEMMA ChannelLeads ==
  ASSUME NEW e \in Encoder, NEW r, NEW t \in {"m_bc4TargetRes[0]", "m_bc4TargetRes[1]"},
         NEW n \in Int, NEW F,
         {Bound(tex(0), "m_srcTexture"), Bound(pso, "m_bc4Pso"),
          Unstored("fetch", "m_srcTexture"), Untouched("image", t)} \subseteq F
  PROVE  Leads(e, r, BC4_compressChannel(e, r, t, n), F,
               Uses(Binds(F, uav(0), t), {"m_srcTexture"}, {t}))
<1> DEFINE A == Binds(F, uav(0), t)
           G == Uses(A, {"m_srcTexture"}, {t})
           v == <<n, IF encodeSNorm(r) THEN 1 ELSE 0>>
<1>1. /\ t \in Field \ ProgramField /\ t # "m_downloadStaging"
      /\ "m_srcTexture" \in Field /\ "m_bc4Pso" \in ProgramField
      /\ FileOf(r, "m_bc4Pso") = "bc4.glsl"
  BY DEF Field, ProgramField, FileOf
<1>2. /\ Bound(tex(0), "m_srcTexture") \in A /\ Bound(uav(0), t) \in A
      /\ Bound(pso, "m_bc4Pso") \in A /\ Unstored("fetch", "m_srcTexture") \in A
      /\ Untouched("image", t) \in A
  BY InBinds, UnitsDiffer
<1>3. Follows(r, F, bindUav(0, Object(e, t), "Write"), A) /\ Follows(r, A, glUniform(v), A)
  BY BindSteps, PlainSteps
<1> HIDE DEF A
<1>4. Follows(r, A, glDispatchCompute, G)
  BY <1>1, <1>2, ShaderUnits, DispatchOne
<1>5. /\ bindUav(0, Object(e, t), "Write") \in OwnCall(e)
      /\ glUniform(v) \in OwnCall(e) /\ glDispatchCompute \in OwnCall(e)
  BY <1>1, OwnBindUav, OwnPlain DEF ImageUnits
<1> HIDE DEF G
<1>6. Leads(e, r, <<bindUav(0, Object(e, t), "Write"), glUniform(v), glDispatchCompute>>, F, G)
  BY <1>3, <1>4, <1>5, LeadsThree
<1> QED
  BY <1>6 DEF BC4_compressChannel, G, A

(* The steps of EncoderBC4.                                                *)
LEMMA BC4Leads ==
  ASSUME NEW e \in Encoder, NEW r, UsesBC4(r)
  PROVE  /\ Leads(e, r, BC4_execute01(e, r), KnownAt(r, "execute01"), KnownAt(r, "execute02"))
         /\ Leads(e, r, BC4_execute02(e, r), KnownAt(r, "execute02"), Rest)
         /\ Leads(e, r, BC4_execute03(e, r), Rest, KnownAt(r, "execute01"))
<1> DEFINE K == Rest \cup ImageFacts
           A == Binds(K, tex(0), "m_srcTexture")
           B == Binds(A, pso, "m_bc4Pso")
           C == Uses(Binds(B, uav(0), "m_bc4TargetRes[0]"), {"m_srcTexture"},
                     {"m_bc4TargetRes[0]"})
           D == Uses(Binds(C, uav(0), "m_bc4TargetRes[1]"), {"m_srcTexture"},
                     {"m_bc4TargetRes[1]"})
<1>1. /\ KnownAt(r, "execute01") = K /\ KnownAt(r, "execute02") = StitchFacts
      /\ ~UsesETC2(r)
  BY KnownAtStages DEF UsesBC4, UsesETC2, ImageFacts
<1>2. redGreen(r) \in BOOLEAN /\ "m_bc4Pso" \in ProgramField /\ Links(FileOf(r, "m_bc4Pso"))
  BY DEF redGreen, ProgramField, FileOf, Links
<1>3. /\ Unstored("fetch", "m_srcTexture") \in K
      /\ Untouched("image", "m_bc4TargetRes[0]") \in K
      /\ Untouched("image", "m_bc4TargetRes[1]") \in K
      /\ Untouched("image", "m_stitchedTarget") \in K
  BY InRest, InImageFacts DEF Via, Field, StoredField
<1>4. Rest \subseteq C /\ Rest \subseteq D
  <2>1. Rest \subseteq K
    OBVIOUS
  <2>2. /\ {"m_srcTexture"} \subseteq TouchedField
        /\ {"m_bc4TargetRes[0]"} \subseteq StoredField
        /\ {"m_bc4TargetRes[1]"} \subseteq StoredField
    BY DEF TouchedField, StoredField
  <2> HIDE DEF K
  <2>3. Rest \subseteq C
    BY <2>1, <2>2, RestIsKept
  <2> HIDE DEF C
  <2> QED
    BY <2>2, <2>3, RestIsKept
<1>5. Leads(e, r, <<bindTexture(0, Object(e, "m_srcTexture")),
                    bindComputePso(Object(e, "m_bc4Pso"))>>, K, B)
  <2>1. /\ Follows(r, K, bindTexture(0, Object(e, "m_srcTexture")), A)
        /\ Follows(r, A, bindComputePso(Object(e, "m_bc4Pso")), B)
    BY <1>2, BindSteps, ProgramSteps
  <2>2. /\ bindTexture(0, Object(e, "m_srcTexture")) \in OwnCall(e)
        /\ bindComputePso(Object(e, "m_bc4Pso")) \in OwnCall(e)
    BY OwnBind DEF TexUnits, Field
  <2> HIDE DEF K, A, B
  <2> QED
    BY <2>1, <2>2, LeadsTwo
<1> HIDE DEF K
<1>6. /\ Bound(tex(0), "m_srcTexture") \in A /\ Unstored("fetch", "m_srcTexture") \in A
      /\ Untouched("image", "m_bc4TargetRes[0]") \in A
      /\ Untouched("image", "m_bc4TargetRes[1]") \in A
      /\ Untouched("image", "m_stitchedTarget") \in A
  BY <1>3, InBinds
<1> HIDE DEF A
<1>7. /\ Bound(tex(0), "m_srcTexture") \in B /\ Unstored("fetch", "m_srcTexture") \in B
      /\ Bound(pso, "m_bc4Pso") \in B
      /\ Untouched("image", "m_bc4TargetRes[0]") \in B
      /\ Untouched("image", "m_bc4TargetRes[1]") \in B
      /\ Untouched("image", "m_stitchedTarget") \in B
  BY <1>6, InBinds, UnitsDiffer
<1> HIDE DEF B
<1>8. /\ Bound(tex(0), "m_srcTexture") \in C /\ Unstored("fetch", "m_srcTexture") \in C
      /\ Bound(pso, "m_bc4Pso") \in C
      /\ Untouched("image", "m_bc4TargetRes[1]") \in C
      /\ Untouched("image", "m_stitchedTarget") \in C
  <2> DEFINE X == Binds(B, uav(0), "m_bc4TargetRes[0]")
  <2>1. /\ Bound(tex(0), "m_srcTexture") \in X /\ Unstored("fetch", "m_srcTexture") \in X
        /\ Bound(pso, "m_bc4Pso") \in X
        /\ Untouched("image", "m_bc4TargetRes[1]") \in X
        /\ Untouched("image", "m_stitchedTarget") \in X
    BY <1>7, InBinds, UnitsDiffer
  <2> HIDE DEF X
  <2>2. C = Uses(X, {"m_srcTexture"}, {"m_bc4TargetRes[0]"})
    BY DEF X
  <2> HIDE DEF C
  <2> QED
    BY <2>1, <2>2, InUses
<1>9. Untouched("image", "m_stitchedTarget") \in D
  <2>1. Untouched("image", "m_stitchedTarget") \in Binds(C, uav(0), "m_bc4TargetRes[1]")
    BY <1>8, InBinds
  <2> HIDE DEF C
  <2> QED
    BY <2>1, InUses
<1>10. Leads(e, r, BC4_compressChannel(e, r, "m_bc4TargetRes[0]", 0), B, C)
  BY <1>7, ChannelLeads
<1> HIDE DEF C
<1>11. Leads(e, r, BC4_compressChannel(e, r, "m_bc4TargetRes[1]", 1), C, D)
  BY <1>8, ChannelLeads
<1>12. StitchFacts \subseteq C /\ StitchFacts \subseteq D
  BY <1>4, <1>8, <1>9 DEF StitchFacts
<1> HIDE DEF D
<1>13. Leads(e, r, When(redGreen(r), BC4_compressChannel(e, r, "m_bc4TargetRes[1]", 1)),
             C, StitchFacts)
  BY <1>2, <1>11, <1>12, LeadsWhen, LeadsWeaker
<1>14. Leads(e, r, BC4_execute01(e, r), K, StitchFacts)
  BY <1>5, <1>10, <1>13, LeadsOn DEF BC4_execute01
<1>15. Leads(e, r, BC4_execute02(e, r), StitchFacts, Rest)
  <2>1. Leads(e, r, Stitch(e, "m_bc4TargetRes[1]", "m_bc4TargetRes[0]"), StitchFacts, Rest)
    BY <1>1, StitchLeads DEF StoredField
  <2> QED
    BY <1>2, <2>1, LeadsWhen DEF BC4_execute02, Stitch, StitchFacts
<1>16. Leads(e, r, BC4_execute03(e, r), Rest, K)
  <2>1. BC4_resultTexture(r) \in Field
    BY DEF BC4_resultTexture, Field
  <2> QED
    BY <2>1, CopyLeads DEF BC4_execute03, K
<1> QED
  BY <1>1, <1>14, <1>15, <1>16

(* What EncoderBC1 binds for its first dispatch is there to be used.       *)
LEMMA BC1BlocksLeads ==
  ASSUME NEW e \in Encoder, NEW r, UsesBC1(r), NEW K,
         {Unstored("fetch", "m_srcTexture"), Unstored("buffer", "m_bc1TablesSsbo"),
          Untouched("image", "m_bc1TargetRes"), Untouched("image", "m_bc4TargetRes"),
          Untouched("image", "m_stitchedTarget")} \cup Rest \subseteq K
  PROVE  \E G : /\ Leads(e, r, <<bindTexture(0, Object(e, "m_srcTexture")),
                                 bindComputePso(Object(e, "m_bc1Pso")),
                                 bindUav(0, Object(e, "m_bc1TargetRes"), "Write"),
                                 bindUavBuffer(1, Object(e, "m_bc1TablesSsbo")),
                                 glUniform(<<2>>),
                                 glDispatchCompute>>, K, G)
                /\ {Bound(tex(0), "m_srcTexture"), Unstored("fetch", "m_srcTexture"),
                    Untouched("image", "m_bc4TargetRes"),
                    Untouched("image", "m_stitchedTarget")} \cup Rest \subseteq G
<1> DEFINE A == Binds(K, tex(0), "m_srcTexture")
           B == Binds(A, pso, "m_bc1Pso")
           C == Binds(B, uav(0), "m_bc1TargetRes")
           D == Binds(C, ssbo, "m_bc1TablesSsbo")
           G == Uses(D, {"m_srcTexture", "m_bc1TablesSsbo"}, {"m_bc1TargetRes"})
<1>1. /\ "m_bc1Pso" \in ProgramField /\ Links(FileOf(r, "m_bc1Pso"))
      /\ ReadUnits(FileOf(r, "m_bc1Pso")) = {tex(0), ssbo}
      /\ WriteUnits(FileOf(r, "m_bc1Pso")) = {uav(0)}
  <2>1. FileOf(r, "m_bc1Pso") \in {"bc1.glsl", "bc1_dither.glsl"}
    BY DEF FileOf
  <2> QED
    BY <2>1, ShaderUnits DEF ProgramField, Links
<1>2. Rest \subseteq G
  <2>1. /\ {"m_srcTexture", "m_bc1TablesSsbo"} \subseteq TouchedField
        /\ {"m_bc1TargetRes"} \subseteq StoredField
    BY DEF TouchedField, StoredField
  <2> QED
    BY <2>1, RestIsKept
<1>3. /\ Follows(r, K, bindTexture(0, Object(e, "m_srcTexture")), A)
      /\ Follows(r, A, bindComputePso(Object(e, "m_bc1Pso")), B)
      /\ Follows(r, B, bindUav(0, Object(e, "m_bc1TargetRes"), "Write"), C)
      /\ Follows(r, C, bindUavBuffer(1, Object(e, "m_bc1TablesSsbo")), D)
      /\ Follows(r, D, glUniform(<<2>>), D)
  BY <1>1, BindSteps, ProgramSteps, PlainSteps
<1>4. /\ bindTexture(0, Object(e, "m_srcTexture")) \in OwnCall(e)
      /\ bindComputePso(Object(e, "m_bc1Pso")) \in OwnCall(e)
      /\ bindUav(0, Object(e, "m_bc1TargetRes"), "Write") \in OwnCall(e)
      /\ bindUavBuffer(1, Object(e, "m_bc1TablesSsbo")) \in OwnCall(e)
      /\ glUniform(<<2>>) \in OwnCall(e) /\ glDispatchCompute \in OwnCall(e)
  BY OwnBind, OwnBindUav, OwnPlain DEF TexUnits, ImageUnits, Field
<1>5. /\ Bound(tex(0), "m_srcTexture") \in A /\ Unstored("fetch", "m_srcTexture") \in A
      /\ Unstored("buffer", "m_bc1TablesSsbo") \in A
      /\ Untouched("image", "m_bc1TargetRes") \in A
      /\ Untouched("image", "m_bc4TargetRes") \in A
      /\ Untouched("image", "m_stitchedTarget") \in A
  BY InBinds
<1> HIDE DEF A
<1>6. /\ Bound(tex(0), "m_srcTexture") \in B /\ Unstored("fetch", "m_srcTexture") \in B
      /\ Unstored("buffer", "m_bc1TablesSsbo") \in B /\ Bound(pso, "m_bc1Pso") \in B
      /\ Untouched("image", "m_bc1TargetRes") \in B
      /\ Untouched("image", "m_bc4TargetRes") \in B
      /\ Untouched("image", "m_stitchedTarget") \in B
  BY <1>5, InBinds, UnitsDiffer
<1> HIDE DEF B
<1>7. /\ Bound(tex(0), "m_srcTexture") \in C /\ Unstored("fetch", "m_srcTexture") \in C
      /\ Unstored("buffer", "m_bc1TablesSsbo") \in C /\ Bound(pso, "m_bc1Pso") \in C
      /\ Bound(uav(0), "m_bc1TargetRes") \in C
      /\ Untouched("image", "m_bc1TargetRes") \in C
      /\ Untouched("image", "m_bc4TargetRes") \in C
      /\ Untouched("image", "m_stitchedTarget") \in C
  BY <1>6, InBinds, UnitsDiffer
<1> HIDE DEF C
<1>8. /\ Bound(tex(0), "m_srcTexture") \in D /\ Unstored("fetch", "m_srcTexture") \in D
      /\ Unstored("buffer", "m_bc1TablesSsbo") \in D /\ Bound(pso, "m_bc1Pso") \in D
      /\ Bound(uav(0), "m_bc1TargetRes") \in D /\ Bound(ssbo, "m_bc1TablesSsbo") \in D
      /\ Untouched("image", "m_bc1TargetRes") \in D
      /\ Untouched("image", "m_bc4TargetRes") \in D
      /\ Untouched("image", "m_stitchedTarget") \in D
  BY <1>7, InBinds, UnitsDiffer
<1> HIDE DEF D
<1>9. Follows(r, D, glDispatchCompute, G)
  <2>1. /\ "m_srcTexture" \in Field /\ "m_bc1TablesSsbo" \in Field
        /\ "m_bc1TargetRes" \in Field \ ProgramField
    BY DEF Field, ProgramField
  <2> HIDE DEF G
  <2>2. Follows(r, D, glDispatchCompute, Uses(D, {"m_srcTexture", "m_bc1TablesSsbo"},
                                              {"m_bc1TargetRes"}))
    BY <1>1, <1>8, <2>1, DispatchTable
  <2> QED
    BY <2>2 DEF G
<1>10. {Bound(tex(0), "m_srcTexture"), Unstored("fetch", "m_srcTexture"),
        Untouched("image", "m_bc4TargetRes"),
        Untouched("image", "m_stitchedTarget")} \subseteq G
  BY <1>8, InUses
<1> HIDE DEF G
<1>11. Leads(e, r, <<bindTexture(0, Object(e, "m_srcTexture")),
                    bindComputePso(Object(e, "m_bc1Pso")),
                    bindUav(0, Object(e, "m_bc1TargetRes"), "Write"),
                    bindUavBuffer(1, Object(e, "m_bc1TablesSsbo")),
                    glUniform(<<2>>),
                    glDispatchCompute>>, K, G)
  BY <1>3, <1>4, <1>9, LeadsSix
<1> QED
  BY <1>2, <1>10, <1>11

(* BC4 blocks of the alpha channel.                                        *)
LEMMA BC1AlphaLeads ==
  ASSUME NEW e \in Encoder, NEW r, UsesBC1(r), NEW F,
         {Bound(tex(0), "m_srcTexture"), Unstored("fetch", "m_srcTexture"),
          Untouched("image", "m_bc4TargetRes"),
          Untouched("image", "m_stitchedTarget")} \cup Rest \subseteq F
  PROVE  Leads(e, r, <<bindComputePso(Object(e, "m_bc4Pso")),
                       bindUav(0, Object(e, "m_bc4TargetRes"), "Write"),
                       glUniform(<<3, 0>>),
                       glDispatchCompute>>, F, StitchFacts)
<1> DEFINE A == Binds(F, pso, "m_bc4Pso")
           B == Binds(A, uav(0), "m_bc4TargetRes")
           G == Uses(B, {"m_srcTexture"}, {"m_bc4TargetRes"})
<1>1. /\ "m_bc4Pso" \in ProgramField /\ FileOf(r, "m_bc4Pso") = "bc4.glsl"
      /\ Links(FileOf(r, "m_bc4Pso"))
      /\ "m_srcTexture" \in Field /\ "m_bc4TargetRes" \in Field \ ProgramField
  BY DEF Field, ProgramField, FileOf, Links
<1>2. Rest \subseteq G
  <2>1. {"m_srcTexture"} \subseteq TouchedField /\ {"m_bc4TargetRes"} \subseteq StoredField
    BY DEF TouchedField, StoredField
  <2> QED
    BY <2>1, RestIsKept
<1>3. /\ Follows(r, F, bindComputePso(Object(e, "m_bc4Pso")), A)
      /\ Follows(r, A, bindUav(0, Object(e, "m_bc4TargetRes"), "Write"), B)
      /\ Follows(r, B, glUniform(<<3, 0>>), B)
  BY <1>1, BindSteps, ProgramSteps, PlainSteps
<1>4. /\ bindComputePso(Object(e, "m_bc4Pso")) \in OwnCall(e)
      /\ bindUav(0, Object(e, "m_bc4TargetRes"), "Write") \in OwnCall(e)
      /\ glUniform(<<3, 0>>) \in OwnCall(e) /\ glDispatchCompute \in OwnCall(e)
  BY OwnBind, OwnBindUav, OwnPlain DEF TexUnits, ImageUnits, Field
<1>5. /\ Bound(tex(0), "m_srcTexture") \in A /\ Unstored("fetch", "m_srcTexture") \in A
      /\ Bound(pso, "m_bc4Pso") \in A
      /\ Untouched("image", "m_bc4TargetRes") \in A
      /\ Untouched("image", "m_stitchedTarget") \in A
  BY InBinds, UnitsDiffer
<1> HIDE DEF A
<1>6. /\ Bound(tex(0), "m_srcTexture") \in B /\ Unstored("fetch", "m_srcTexture") \in B
      /\ Bound(pso, "m_bc4Pso") \in B /\ Bound(uav(0), "m_bc4TargetRes") \in B
      /\ Untouched("image", "m_bc4TargetRes") \in B
      /\ Untouched("image", "m_stitchedTarget") \in B
  BY <1>5, InBinds, UnitsDiffer
<1> HIDE DEF B
<1>7. Untouched("image", "m_stitchedTarget") \in G
  BY <1>6, InUses
<1>8. Follows(r, B, glDispatchCompute, G)
  BY <1>1, <1>6, ShaderUnits, DispatchOne
<1> HIDE DEF G
<1>9. StitchFacts \subseteq G
  BY <1>2, <1>7 DEF StitchFacts
<1> QED
  BY <1>3, <1>4, <1>8, <1>9, LeadsFour, LeadsWeaker

(* EncoderBC1: colour blocks, for BC3 alpha blocks too, then both together.*)
LEMMA BC1Leads ==
  ASSUME NEW e \in Encoder, NEW r, UsesBC1(r)
  PROVE  /\ Leads(e, r, BC1_execute01(e, r), KnownAt(r, "execute01"), KnownAt(r, "execute02"))
         /\ Leads(e, r, BC1_execute02(e, r), KnownAt(r, "execute02"), Rest)
         /\ Leads(e, r, BC1_execute03(e, r), Rest, KnownAt(r, "execute01"))
<1> DEFINE K == Rest \cup ImageFacts
<1>1. /\ KnownAt(r, "execute01") = K /\ KnownAt(r, "execute02") = StitchFacts
      /\ ~UsesETC2(r)
  BY KnownAtStages DEF UsesBC1, UsesETC2, ImageFacts
<1>2. useBC3(r) \in BOOLEAN
  BY DEF useBC3
<1>3. {Unstored("fetch", "m_srcTexture"), Unstored("buffer", "m_bc1TablesSsbo"),
       Untouched("image", "m_bc1TargetRes"), Untouched("image", "m_bc4TargetRes"),
       Untouched("image", "m_stitchedTarget")} \cup Rest \subseteq K
  BY InRest, InImageFacts DEF Via, Field, StoredField
<1> HIDE DEF K
<1>4. Leads(e, r, BC1_execute01(e, r), K, StitchFacts)
  <2> DEFINE b == <<bindTexture(0, Object(e, "m_srcTexture")),
                    bindComputePso(Object(e, "m_bc1Pso")),
                    bindUav(0, Object(e, "m_bc1TargetRes"), "Write"),
                    bindUavBuffer(1, Object(e, "m_bc1TablesSsbo")),
                    glUniform(<<2>>),
                    glDispatchCompute>>
             a == <<bindComputePso(Object(e, "m_bc4Pso")),
                    bindUav(0, Object(e, "m_bc4TargetRes"), "Write"),
                    glUniform(<<3, 0>>),
                    glDispatchCompute>>
  <2>1. PICK G : /\ Leads(e, r, b, K, G)
                 /\ {Bound(tex(0), "m_srcTexture"), Unstored("fetch", "m_srcTexture"),
                     Untouched("image", "m_bc4TargetRes"),
                     Untouched("image", "m_stitchedTarget")} \cup Rest \subseteq G
    BY <1>3, BC1BlocksLeads
  <2>2. Leads(e, r, a, G, StitchFacts)
    BY <2>1, BC1AlphaLeads
  <2>3. StitchFacts \subseteq G
    BY <2>1 DEF StitchFacts
  <2>4. BC1_execute01(e, r) = b \o When(useBC3(r), a)
    BY DEF BC1_execute01
  <2> HIDE DEF a, b
  <2> QED
    BY <1>2, <2>1, <2>2, <2>3, <2>4, LeadsWhen, LeadsOn
<1>5. Leads(e, r, BC1_execute02(e, r), StitchFacts, Rest)
  <2>1. Leads(e, r, Stitch(e, "m_bc1TargetRes", "m_bc4TargetRes"), StitchFacts, Rest)
    BY <1>1, StitchLeads DEF StoredField
  <2> QED
    BY <1>2, <2>1, LeadsWhen DEF BC1_execute02, Stitch, StitchFacts
<1>6. Leads(e, r, BC1_execute03(e, r), Rest, K)
  <2>1. BC1_resultTexture(r) \in Field
    BY DEF BC1_resultTexture, Field
  <2> QED
    BY <2>1, CopyLeads DEF BC1_execute03, K
<1> QED
  BY <1>1, <1>4, <1>5, <1>6

(* What ETC1 and ETC2 know after ETC1::execute00.                          *)
DitherFacts ==
  CleanFacts \ {x \in Spoilt : /\ x[3] \in {"m_srcTexture", "m_ditheredTexture"}
                               /\ x # Unstored("fetch", "m_ditheredTexture")}

(* And after ETC1::execute01.                                              *)
EtcFacts(r) ==
  Rest \cup {Unstored("fetch", ditheredTexture(r)), Unstored("image", "m_thModesC0C1")}
    \cup {Untouched("image", f) :
            f \in {"m_stitchedTarget", "m_thModesTargetRes", "m_thModesError",
                   "m_pModeTargetRes", "m_pModeError"}}

(* The dithered texture is stored, and can be fetched from.                *)
LEMMA ETC1_execute00Leads ==
  ASSUME NEW e \in Encoder, NEW r, r.dither \in BOOLEAN
  PROVE  Leads(e, r, ETC1_execute00(e, r), CleanFacts, DitherFacts)
<1> DEFINE K == CleanFacts
           A == Binds(K, tex(0), "m_srcTexture")
           B == Binds(A, uav(0), "m_ditheredTexture")
           C == Binds(B, pso, "m_ditherPso")
           D == Uses(C, {"m_srcTexture"}, {"m_ditheredTexture"})
           G == Settles(r, D, {"TEXTURE_FETCH"})
<1>1. /\ "m_ditherPso" \in ProgramField /\ FileOf(r, "m_ditherPso") = "dither555.glsl"
      /\ Links(FileOf(r, "m_ditherPso"))
      /\ "m_srcTexture" \in Field /\ "m_ditheredTexture" \in Field \ ProgramField
  BY DEF Field, ProgramField, FileOf, Links
<1>2. /\ Follows(r, K, bindTexture(0, Object(e, "m_srcTexture")), A)
      /\ Follows(r, A, bindUav(0, Object(e, "m_ditheredTexture"), "Write"), B)
      /\ Follows(r, B, bindComputePso(Object(e, "m_ditherPso")), C)
      /\ Follows(r, D, glMemoryBarrier({"TEXTURE_FETCH"}), G)
  BY <1>1, BindSteps, ProgramSteps, PlainSteps
<1>3. /\ bindTexture(0, Object(e, "m_srcTexture")) \in OwnCall(e)
      /\ bindUav(0, Object(e, "m_ditheredTexture"), "Write") \in OwnCall(e)
      /\ bindComputePso(Object(e, "m_ditherPso")) \in OwnCall(e)
      /\ glMemoryBarrier({"TEXTURE_FETCH"}) \in OwnCall(e) /\ glDispatchCompute \in OwnCall(e)
  BY OwnBind, OwnBindUav, OwnPlain DEF TexUnits, ImageUnits, Field, Bit
<1>4. /\ Unstored("fetch", "m_srcTexture") \in K /\ Untouched("image", "m_ditheredTexture") \in K
  BY InRest DEF Via, Field
<1>5. CleanFacts \subseteq K
  OBVIOUS
<1>6. DitherFacts \subseteq K
  BY DEF DitherFacts
<1> HIDE DEF K
<1>7. /\ Bound(tex(0), "m_srcTexture") \in A /\ CleanFacts \subseteq A
      /\ Unstored("fetch", "m_srcTexture") \in A /\ Untouched("image", "m_ditheredTexture") \in A
  BY <1>4, <1>5, InBinds
<1> HIDE DEF A
<1>8. /\ Bound(tex(0), "m_srcTexture") \in B /\ CleanFacts \subseteq B
      /\ Bound(uav(0), "m_ditheredTexture") \in B
      /\ Unstored("fetch", "m_srcTexture") \in B /\ Untouched("image", "m_ditheredTexture") \in B
  BY <1>7, InBinds, UnitsDiffer
<1> HIDE DEF B
<1>9. /\ Bound(tex(0), "m_srcTexture") \in C /\ CleanFacts \subseteq C
      /\ Bound(uav(0), "m_ditheredTexture") \in C /\ Bound(pso, "m_ditherPso") \in C
      /\ Unstored("fetch", "m_srcTexture") \in C /\ Untouched("image", "m_ditheredTexture") \in C
  BY <1>8, InBinds, UnitsDiffer
<1> HIDE DEF C
<1>10. Follows(r, C, glDispatchCompute, D)
  BY <1>1, <1>9, ShaderUnits, DispatchOne
<1>11. DitherFacts \subseteq G
  <2>1. Unstored("fetch", "m_ditheredTexture") \in G
    BY InSettles, BarrierBits DEF Via, Field
  <2>2. D \subseteq G
    BY InSettles
  <2>3. ASSUME NEW x \in DitherFacts, x # Unstored("fetch", "m_ditheredTexture")
        PROVE  x \in D
    <3>1. x \in C /\ x \in CleanFacts
      BY <1>9 DEF DitherFacts
    <3>2. x[1] = "unstored" => x[3] # "m_ditheredTexture"
      BY <2>3, <3>1 DEF DitherFacts, Spoilt, StoredField, CleanFacts
    <3>3. x[1] = "untouched" => x[3] \notin {"m_srcTexture", "m_ditheredTexture"}
      BY <2>3, <3>1 DEF DitherFacts, Spoilt, StoredField, TouchedField, CleanFacts, Unstored
    <3> QED
      BY <3>1, <3>2, <3>3 DEF Uses
  <2> QED
    BY <2>1, <2>2, <2>3
<1> HIDE DEF D, G
<1>12. Leads(e, r, <<bindTexture(0, Object(e, "m_srcTexture")),
                    bindUav(0, Object(e, "m_ditheredTexture"), "Write"),
                    bindComputePso(Object(e, "m_ditherPso")),
                    glDispatchCompute,
                    glMemoryBarrier({"TEXTURE_FETCH"})>>, K, G)
  BY <1>2, <1>3, <1>10, LeadsFive
<1>13. Leads(e, r, ETC1_execute00(e, r), K, DitherFacts)
  BY <1>6, <1>11, <1>12, LeadsWeaker, LeadsWhen DEF ETC1_execute00
<1> QED
  BY <1>13 DEF K

(* The cluster pairs are stored, and can be loaded.                        *)
LEMMA ETC2_execute00Leads ==
  ASSUME NEW e \in Encoder, NEW r, r.dither \in BOOLEAN, UsesETC2(r)
  PROVE  Leads(e, r, ETC2_execute00(e, r), CleanFacts, KnownAt(r, "execute01"))
<1> DEFINE d == ditheredTexture(r)
           K == DitherFacts
           A == Binds(K, tex(0), d)
           B == Binds(A, uav(0), "m_thModesC0C1")
           C == Binds(B, pso, "m_thModesFindBestC0C1")
           D == Uses(C, {d}, {"m_thModesC0C1"})
           G == Settles(r, D, {"SHADER_IMAGE_ACCESS"})
           s == <<bindTexture(0, Object(e, d)),
                  bindUav(0, Object(e, "m_thModesC0C1"), "Write"),
                  bindComputePso(Object(e, "m_thModesFindBestC0C1")),
                  glDispatchCompute,
                  glMemoryBarrier({"SHADER_IMAGE_ACCESS"})>>
<1>1. /\ "m_thModesFindBestC0C1" \in ProgramField
      /\ FileOf(r, "m_thModesFindBestC0C1") = "etc2_th_find_best_c0c1_k_means.glsl"
      /\ Links(FileOf(r, "m_thModesFindBestC0C1"))
      /\ d \in {"m_srcTexture", "m_ditheredTexture"}
      /\ d \in Field /\ "m_thModesC0C1" \in Field \ ProgramField
  BY DEF Field, ProgramField, FileOf, Links, ditheredTexture
<1>2. /\ Unstored("fetch", d) \in K /\ Untouched("image", "m_thModesC0C1") \in K
      /\ K \subseteq CleanFacts
  <2>1. Unstored("fetch", d) \in CleanFacts /\ Untouched("image", "m_thModesC0C1") \in CleanFacts
    BY <1>1, InRest DEF Via
  <2>2. Unstored("fetch", "m_srcTexture") \notin Spoilt
    BY DEF Spoilt, StoredField, Unstored
  <2> QED
    BY <1>1, <2>1, <2>2 DEF DitherFacts, Untouched, Unstored
<1> HIDE DEF d
<1>3. /\ Follows(r, K, bindTexture(0, Object(e, d)), A)
      /\ Follows(r, A, bindUav(0, Object(e, "m_thModesC0C1"), "Write"), B)
      /\ Follows(r, B, bindComputePso(Object(e, "m_thModesFindBestC0C1")), C)
      /\ Follows(r, D, glMemoryBarrier({"SHADER_IMAGE_ACCESS"}), G)
  BY <1>1, BindSteps, ProgramSteps, PlainSteps
<1>4. /\ bindTexture(0, Object(e, d)) \in OwnCall(e)
      /\ bindUav(0, Object(e, "m_thModesC0C1"), "Write") \in OwnCall(e)
      /\ bindComputePso(Object(e, "m_thModesFindBestC0C1")) \in OwnCall(e)
      /\ glMemoryBarrier({"SHADER_IMAGE_ACCESS"}) \in OwnCall(e)
      /\ glDispatchCompute \in OwnCall(e)
  BY <1>1, OwnBind, OwnBindUav, OwnPlain DEF TexUnits, ImageUnits, Field, Bit
<1> HIDE DEF K
<1>5. /\ Bound(tex(0), d) \in A /\ K \subseteq A
      /\ Unstored("fetch", d) \in A /\ Untouched("image", "m_thModesC0C1") \in A
  BY <1>2, InBinds
<1> HIDE DEF A
<1>6. /\ Bound(tex(0), d) \in B /\ K \subseteq B /\ Bound(uav(0), "m_thModesC0C1") \in B
      /\ Unstored("fetch", d) \in B /\ Untouched("image", "m_thModesC0C1") \in B
  BY <1>2, <1>5, InBinds, UnitsDiffer
<1> HIDE DEF B
<1>7. /\ Bound(tex(0), d) \in C /\ K \subseteq C /\ Bound(uav(0), "m_thModesC0C1") \in C
      /\ Bound(pso, "m_thModesFindBestC0C1") \in C
      /\ Unstored("fetch", d) \in C /\ Untouched("image", "m_thModesC0C1") \in C
  BY <1>2, <1>6, InBinds, UnitsDiffer
<1> HIDE DEF C
<1>8. Follows(r, C, glDispatchCompute, D)
  BY <1>1, <1>7, ShaderUnits, DispatchOne
<1>9. KnownAt(r, "execute01") \subseteq G
  <2>1. Unstored("image", "m_thModesC0C1") \in G
    BY InSettles, BarrierBits DEF Via, Field
  <2>2. D \subseteq G
    BY InSettles
  <2>3. Has00(r) /\ ~UsesEAC(r)
    BY DEF Has00, UsesETC2, UsesEAC
  <2>4. ASSUME NEW x \in KnownAt(r, "execute01"), x # Unstored("image", "m_thModesC0C1")
        PROVE  x \in D
    <3>1. /\ x \in CleanFacts
          /\ x \in Spoilt => \/ x[3] \notin {"m_srcTexture", "m_ditheredTexture", "m_thModesC0C1"}
                             \/ x = Unstored("fetch", "m_ditheredTexture")
      BY <2>3, <2>4 DEF KnownAt, SpoiltAt
    <3>2. x \in C
      BY <1>7, <3>1 DEF K, DitherFacts
    <3>3. x[1] = "unstored" => x[3] # "m_thModesC0C1"
      BY <3>1 DEF Spoilt, StoredField, CleanFacts, Unstored
    <3>4. x[1] = "untouched" => x[3] \notin {d, "m_thModesC0C1"}
      BY <1>1, <3>1 DEF Spoilt, StoredField, TouchedField, CleanFacts, Unstored
    <3> QED
      BY <3>2, <3>3, <3>4 DEF Uses
  <2> QED
    BY <2>1, <2>2, <2>4
<1> HIDE DEF D, G
<1>10. Leads(e, r, s, K, G)
  BY <1>3, <1>4, <1>8, LeadsFive
<1>11. Leads(e, r, ETC1_execute00(e, r), CleanFacts, K)
  BY ETC1_execute00Leads DEF K
<1>12. ETC2_execute00(e, r) = ETC1_execute00(e, r) \o s
  BY DEF ETC2_execute00, d
<1> HIDE DEF s
<1> QED
  BY <1>9, <1>10, <1>11, <1>12, LeadsOn, LeadsWeaker

(* What the two know before execute01.                                     *)
LEMMA KnownOfEtc ==
  ASSUME NEW r, Has00(r)
  PROVE  /\ KnownAt(r, "execute01") \subseteq DitherFacts
         /\ EtcFacts(r) \subseteq KnownAt(r, "execute01")
         /\ \A f \in {"m_compressTargetRes", "m_etc1Error", "m_eacTargetRes"} :
              Untouched("image", f) \in KnownAt(r, "execute01")
         /\ EtcFacts(r) \subseteq CleanFacts
         /\ Unstored("fetch", "m_srcTexture") \in Rest
         /\ Unstored("buffer", "m_etc1TablesSsbo") \in Rest
<1> DEFINE K == KnownAt(r, "execute01")
<1>1. K = CleanFacts
            \ {x \in Spoilt : /\ x[3] \in {"m_srcTexture", "m_ditheredTexture", "m_thModesC0C1"}
                              /\ x # Unstored("fetch", "m_ditheredTexture")
                              /\ x # Unstored("image", "m_thModesC0C1")}
  <2>1. ~UsesEAC(r)
    BY DEF Has00, UsesETC1, UsesETC2, UsesEAC
  <2> QED
    BY <2>1 DEF KnownAt, SpoiltAt
<1>2. K \subseteq DitherFacts
  BY <1>1 DEF DitherFacts, Unstored
<1>3. ASSUME NEW f \in Field \ {"m_srcTexture", "m_ditheredTexture", "m_thModesC0C1"}
      PROVE  Untouched("image", f) \in K
  <2>1. Untouched("image", f) \in CleanFacts /\ Untouched("image", f)[3] = f
    BY InRest DEF Via, Untouched
  <2> QED
    BY <1>1, <2>1
<1>4. Unstored("fetch", ditheredTexture(r)) \in K /\ Unstored("image", "m_thModesC0C1") \in K
  <2>1. /\ Unstored("fetch", ditheredTexture(r)) \in CleanFacts
        /\ Unstored("image", "m_thModesC0C1") \in CleanFacts
    BY InRest DEF Via, Field, ditheredTexture
  <2>2. Unstored("fetch", "m_srcTexture") \notin Spoilt
    BY DEF Spoilt, StoredField, Unstored
  <2> QED
    BY <1>1, <2>1, <2>2 DEF ditheredTexture
<1>5. Rest \subseteq K /\ K \subseteq CleanFacts
  BY <1>1 DEF Rest
<1> HIDE DEF K
<1>6. EtcFacts(r) \subseteq K
  BY <1>3, <1>4, <1>5 DEF EtcFacts, Field
<1>7. \A f \in {"m_compressTargetRes", "m_etc1Error", "m_eacTargetRes"} :
        Untouched("image", f) \in K
  BY <1>3 DEF Field
<1>8. /\ Unstored("fetch", "m_srcTexture") \in Rest
      /\ Unstored("buffer", "m_etc1TablesSsbo") \in Rest
  BY InRest DEF Via, Field, StoredField
<1> QED
  BY <1>2, <1>5, <1>6, <1>7, <1>8 DEF K

(* What the alpha blocks of ETC1::execute01 need is kept by its colour     *)
(* blocks.                                                                 *)
AlphaFacts(r) == EtcFacts(r) \cup {Untouched("image", "m_eacTargetRes")}

(* Whatever the colour blocks store.                                       *)
LEMMA AlphaFactsAreKept ==
  ASSUME NEW r, Has00(r), NEW F, AlphaFacts(r) \subseteq F, NEW W,
         W \subseteq {"m_compressTargetRes", "m_etc1Error"}
  PROVE  AlphaFacts(r) \subseteq Uses(F, {ditheredTexture(r), "m_etc1TablesSsbo"}, W)
<1> DEFINE R == {ditheredTexture(r), "m_etc1TablesSsbo"}
           X == {"m_stitchedTarget", "m_thModesTargetRes", "m_thModesError",
                 "m_pModeTargetRes", "m_pModeError", "m_eacTargetRes"}
<1>1. R \subseteq TouchedField /\ W \subseteq StoredField
  BY DEF ditheredTexture, TouchedField, StoredField
<1>2. Rest \subseteq Uses(F, R, W)
  BY <1>1, RestIsKept DEF AlphaFacts, EtcFacts
<1>3. \A f \in X : f \notin R \cup W
  BY DEF ditheredTexture
<1>4. /\ Unstored("fetch", ditheredTexture(r)) \in Uses(F, R, W)
      /\ Unstored("image", "m_thModesC0C1") \in Uses(F, R, W)
  <2>1. ditheredTexture(r) \notin W /\ "m_thModesC0C1" \notin W
    BY DEF ditheredTexture
  <2> QED
    BY <2>1, InUses DEF AlphaFacts, EtcFacts
<1>5. \A f \in X : Untouched("image", f) \in Uses(F, R, W)
  <2>1. \A f \in X : Untouched("image", f) \in F
    BY DEF AlphaFacts, EtcFacts
  <2> QED
    BY <1>3, <2>1, InUses
<1> QED
  BY <1>2, <1>4, <1>5 DEF AlphaFacts, EtcFacts

(* The colour blocks, with the error of each or without.                   *)
LEMMA ETC1ColourLeads ==
  ASSUME NEW e \in Encoder, NEW r, Has00(r), r.quality \in Int
  PROVE  Leads(e, r,
           <<bindTexture(0, Object(e, ditheredTexture(r))),
             bindUav(0, Object(e, "m_compressTargetRes"), "Write"),
             bindUavBuffer(1, Object(e, "m_etc1TablesSsbo"))>>
           \o When(forEtc2(r), <<bindUav(2, Object(e, "m_etc1Error"), "Write")>>)
           \o <<bindComputePso(Object(e, "m_compressPso")),
                glUniform(<<r.quality>>),
                glDispatchCompute>>,
           KnownAt(r, "execute01"), AlphaFacts(r))
<1> DEFINE d == ditheredTexture(r)
           K == KnownAt(r, "execute01")
           A == Binds(K, tex(0), d)
           B == Binds(A, uav(0), "m_compressTargetRes")
           C == Binds(B, ssbo, "m_etc1TablesSsbo")
           C2 == Binds(C, uav(2), "m_etc1Error")
           s == <<bindTexture(0, Object(e, d)),
                  bindUav(0, Object(e, "m_compressTargetRes"), "Write"),
                  bindUavBuffer(1, Object(e, "m_etc1TablesSsbo"))>>
           t == <<bindUav(2, Object(e, "m_etc1Error"), "Write")>>
           w == <<bindComputePso(Object(e, "m_compressPso")),
                  glUniform(<<r.quality>>),
                  glDispatchCompute>>
           Facts == {Unstored("fetch", d), Unstored("buffer", "m_etc1TablesSsbo"),
                     Untouched("image", "m_compressTargetRes"),
                     Untouched("image", "m_etc1Error")} \cup AlphaFacts(r)
           Bounds == {Bound(tex(0), d), Bound(uav(0), "m_compressTargetRes"),
                      Bound(ssbo, "m_etc1TablesSsbo")}
<1>1. /\ "m_compressPso" \in ProgramField /\ ~UsesBC6H(r)
      /\ FileOf(r, "m_compressPso") = IF forEtc2(r) THEN "etc1_with_error.glsl"
                                                    ELSE "etc1.glsl"
      /\ Links(FileOf(r, "m_compressPso"))
      /\ d \in Field /\ d \in {"m_srcTexture", "m_ditheredTexture"}
      /\ "m_etc1TablesSsbo" \in Field
      /\ "m_compressTargetRes" \in Field \ ProgramField
      /\ "m_etc1Error" \in Field \ ProgramField
      /\ forEtc2(r) \in BOOLEAN
  BY DEF Field, ProgramField, FileOf, Links, ditheredTexture, Has00, UsesETC1, UsesETC2,
         UsesBC6H, forEtc2
<1>2. Facts \subseteq K /\ Facts \subseteq CleanFacts
  <2>1. Facts \subseteq K
    BY KnownOfEtc DEF EtcFacts, AlphaFacts
  <2>2. K \subseteq CleanFacts
    BY KnownOfEtc DEF DitherFacts
  <2> QED
    BY <2>1, <2>2
<1> HIDE DEF Facts
<1>3. /\ Follows(r, K, bindTexture(0, Object(e, d)), A)
      /\ Follows(r, A, bindUav(0, Object(e, "m_compressTargetRes"), "Write"), B)
      /\ Follows(r, B, bindUavBuffer(1, Object(e, "m_etc1TablesSsbo")), C)
      /\ Follows(r, C, bindUav(2, Object(e, "m_etc1Error"), "Write"), C2)
  BY BindSteps
<1>4. /\ bindTexture(0, Object(e, d)) \in OwnCall(e)
      /\ bindUav(0, Object(e, "m_compressTargetRes"), "Write") \in OwnCall(e)
      /\ bindUavBuffer(1, Object(e, "m_etc1TablesSsbo")) \in OwnCall(e)
      /\ bindUav(2, Object(e, "m_etc1Error"), "Write") \in OwnCall(e)
      /\ bindComputePso(Object(e, "m_compressPso")) \in OwnCall(e)
      /\ glUniform(<<r.quality>>) \in OwnCall(e) /\ glDispatchCompute \in OwnCall(e)
  BY <1>1, OwnBind, OwnBindUav, OwnPlain DEF TexUnits, ImageUnits, Field
<1> HIDE DEF K, d
<1>5. Bound(tex(0), d) \in A /\ Facts \subseteq A
  BY <1>2, InBinds
<1> HIDE DEF A
<1>6. Bound(tex(0), d) \in B /\ Bound(uav(0), "m_compressTargetRes") \in B
      /\ Facts \subseteq B
  BY <1>2, <1>5, InBinds, UnitsDiffer
<1> HIDE DEF B
<1>7. Bounds \subseteq C /\ Facts \subseteq C
  BY <1>2, <1>6, InBinds, UnitsDiffer
<1> HIDE DEF C
<1>8. Bounds \subseteq C2 /\ Facts \subseteq C2 /\ Bound(uav(2), "m_etc1Error") \in C2
  <2>1. uav(0) # uav(2)
    BY UnitsDiffer
  <2> QED
    BY <1>2, <1>7, <2>1, InBinds, UnitsDiffer
<1> HIDE DEF C2
<1>9. Leads(e, r, s, K, C) /\ Leads(e, r, t, C, C2)
  BY <1>3, <1>4, LeadsThree, LeadsOne
<1>10. ASSUME NEW F, Bounds \subseteq F, Facts \subseteq F,
              forEtc2(r) => Bound(uav(2), "m_etc1Error") \in F
       PROVE  Leads(e, r, w, F, AlphaFacts(r))
  <2> DEFINE D == Binds(F, pso, "m_compressPso")
             W == IF forEtc2(r) THEN {"m_compressTargetRes", "m_etc1Error"}
                                ELSE {"m_compressTargetRes"}
             G == Uses(D, {d, "m_etc1TablesSsbo"}, W)
  <2>1. Follows(r, F, bindComputePso(Object(e, "m_compressPso")), D)
    BY <1>1, ProgramSteps
  <2>2. Follows(r, D, glUniform(<<r.quality>>), D)
    BY PlainSteps
  <2>3. /\ Bounds \subseteq D /\ Facts \subseteq D /\ Bound(pso, "m_compressPso") \in D
        /\ forEtc2(r) => Bound(uav(2), "m_etc1Error") \in D
    BY <1>2, <1>10, InBinds, UnitsDiffer
  <2> HIDE DEF D
  <2>4. Follows(r, D, glDispatchCompute, G)
    <3>1. CASE forEtc2(r)
      <4>1. Follows(r, D, glDispatchCompute, Uses(D, {d, "m_etc1TablesSsbo"},
                                                  {"m_compressTargetRes", "m_etc1Error"}))
        BY <1>1, <2>3, <3>1, ShaderUnits, DispatchError DEF Facts
      <4> QED
        BY <3>1, <4>1
    <3>2. CASE ~forEtc2(r)
      <4>1. Follows(r, D, glDispatchCompute, Uses(D, {d, "m_etc1TablesSsbo"},
                                                  {"m_compressTargetRes"}))
        BY <1>1, <2>3, <3>2, ShaderUnits, DispatchTable DEF Facts
      <4> QED
        BY <3>2, <4>1
    <3> QED
      BY <3>1, <3>2
  <2>5. AlphaFacts(r) \subseteq G
    BY <2>3, AlphaFactsAreKept DEF Facts, d
  <2> HIDE DEF G
  <2>6. Leads(e, r, w, F, G)
    BY <1>4, <2>1, <2>2, <2>4, LeadsThree
  <2> QED
    BY <2>5, <2>6, LeadsWeaker
<1> HIDE DEF s, t, w
<1>11. CASE forEtc2(r)
  <2>1. Leads(e, r, When(forEtc2(r), t), C, C2)
    BY <1>9, <1>11 DEF When
  <2>2. Leads(e, r, w, C2, AlphaFacts(r))
    BY <1>8, <1>10
  <2>3. Leads(e, r, s \o When(forEtc2(r), t) \o w, K, AlphaFacts(r))
    BY <1>9, <2>1, <2>2, LeadsOn
  <2> QED
    BY <2>3 DEF s, t, w, d, K
<1>12. CASE ~forEtc2(r)
  <2>1. Leads(e, r, When(forEtc2(r), t), C, C)
    BY <1>12, LeadsNowhere DEF When
  <2>2. Leads(e, r, w, C, AlphaFacts(r))
    BY <1>7, <1>10, <1>12
  <2>3. Leads(e, r, s \o When(forEtc2(r), t) \o w, K, AlphaFacts(r))
    BY <1>9, <2>1, <2>2, LeadsOn
  <2> QED
    BY <2>3 DEF s, t, w, d, K
<1> QED
  BY <1>11, <1>12

(* ETC1::execute01, as EncoderETC1 and EncoderETC2 run it.                 *)
LEMMA ETC1_execute01Leads ==
  ASSUME NEW e \in Encoder, NEW r, Has00(r), r.quality \in Int
  PROVE  Leads(e, r, ETC1_execute01(e, r), KnownAt(r, "execute01"), EtcFacts(r))
<1> DEFINE K == AlphaFacts(r)
           A == Binds(K, tex(0), "m_srcTexture")
           B == Binds(A, uav(0), "m_eacTargetRes")
           C == Binds(B, pso, "m_eacPso")
           G == Uses(C, {"m_srcTexture"}, {"m_eacTargetRes"})
           s == <<bindTexture(0, Object(e, "m_srcTexture")),
                  bindUav(0, Object(e, "m_eacTargetRes"), "Write"),
                  bindComputePso(Object(e, "m_eacPso")),
                  glDispatchCompute>>
           c == <<bindTexture(0, Object(e, ditheredTexture(r))),
                  bindUav(0, Object(e, "m_compressTargetRes"), "Write"),
                  bindUavBuffer(1, Object(e, "m_etc1TablesSsbo"))>>
                \o When(forEtc2(r), <<bindUav(2, Object(e, "m_etc1Error"), "Write")>>)
                \o <<bindComputePso(Object(e, "m_compressPso")),
                     glUniform(<<r.quality>>),
                     glDispatchCompute>>
<1>1. /\ "m_eacPso" \in ProgramField /\ FileOf(r, "m_eacPso") = "eac.glsl"
      /\ Links(FileOf(r, "m_eacPso"))
      /\ "m_srcTexture" \in Field /\ "m_eacTargetRes" \in Field \ ProgramField
      /\ hasAlpha(r) \in BOOLEAN
  BY DEF Field, ProgramField, FileOf, Links, Has00, UsesETC1, UsesETC2, UsesEAC, hasAlpha
<1>2. /\ Unstored("fetch", "m_srcTexture") \in K /\ Untouched("image", "m_eacTargetRes") \in K
      /\ EtcFacts(r) \subseteq K /\ EtcFacts(r) \subseteq CleanFacts
  BY KnownOfEtc DEF AlphaFacts, EtcFacts
<1>3. /\ Follows(r, K, bindTexture(0, Object(e, "m_srcTexture")), A)
      /\ Follows(r, A, bindUav(0, Object(e, "m_eacTargetRes"), "Write"), B)
      /\ Follows(r, B, bindComputePso(Object(e, "m_eacPso")), C)
  BY <1>1, BindSteps, ProgramSteps
<1>4. /\ bindTexture(0, Object(e, "m_srcTexture")) \in OwnCall(e)
      /\ bindUav(0, Object(e, "m_eacTargetRes"), "Write") \in OwnCall(e)
      /\ bindComputePso(Object(e, "m_eacPso")) \in OwnCall(e)
      /\ glDispatchCompute \in OwnCall(e)
  BY <1>1, OwnBind, OwnBindUav, OwnPlain DEF TexUnits, ImageUnits, Field
<1>5. Leads(e, r, c, KnownAt(r, "execute01"), K)
  BY ETC1ColourLeads
<1> HIDE DEF K
<1>6. /\ Bound(tex(0), "m_srcTexture") \in A /\ EtcFacts(r) \subseteq A
      /\ Unstored("fetch", "m_srcTexture") \in A /\ Untouched("image", "m_eacTargetRes") \in A
  BY <1>2, InBinds
<1> HIDE DEF A
<1>7. /\ Bound(tex(0), "m_srcTexture") \in B /\ EtcFacts(r) \subseteq B
      /\ Bound(uav(0), "m_eacTargetRes") \in B
      /\ Unstored("fetch", "m_srcTexture") \in B /\ Untouched("image", "m_eacTargetRes") \in B
  BY <1>2, <1>6, InBinds, UnitsDiffer
<1> HIDE DEF B
<1>8. /\ Bound(tex(0), "m_srcTexture") \in C /\ EtcFacts(r) \subseteq C
      /\ Bound(uav(0), "m_eacTargetRes") \in C /\ Bound(pso, "m_eacPso") \in C
      /\ Unstored("fetch", "m_srcTexture") \in C /\ Untouched("image", "m_eacTargetRes") \in C
  BY <1>2, <1>7, InBinds, UnitsDiffer
<1> HIDE DEF C
<1>9. Follows(r, C, glDispatchCompute, G)
  BY <1>1, <1>8, ShaderUnits, DispatchOne
<1>10. EtcFacts(r) \subseteq G
  <2> DEFINE X == {"m_stitchedTarget", "m_thModesTargetRes", "m_thModesError",
                   "m_pModeTargetRes", "m_pModeError"}
  <2>1. {"m_srcTexture"} \subseteq TouchedField /\ {"m_eacTargetRes"} \subseteq StoredField
    BY DEF TouchedField, StoredField
  <2>2. Rest \subseteq G
    BY <1>8, <2>1, RestIsKept DEF EtcFacts
  <2>3. ditheredTexture(r) # "m_eacTargetRes"
    BY DEF ditheredTexture
  <2>4. \A f \in X : Untouched("image", f) \in C
    BY <1>8 DEF EtcFacts
  <2>5. \A f \in X : Untouched("image", f) \in G
    BY <2>4, InUses
  <2>6. Unstored("fetch", ditheredTexture(r)) \in G /\ Unstored("image", "m_thModesC0C1") \in G
    BY <1>8, <2>3, InUses DEF EtcFacts
  <2> QED
    BY <2>2, <2>5, <2>6 DEF EtcFacts
<1> HIDE DEF G
<1>11. Leads(e, r, s, K, G)
  BY <1>3, <1>4, <1>9, LeadsFour
<1>12. ETC1_execute01(e, r) = c \o When(hasAlpha(r), s)
  BY DEF ETC1_execute01
<1> HIDE DEF c, s
<1>13. Leads(e, r, When(hasAlpha(r), s), K, EtcFacts(r))
  BY <1>1, <1>2, <1>10, <1>11, LeadsWeaker, LeadsWhen
<1> QED
  BY <1>5, <1>12, <1>13, LeadsOn

(* The T and H blocks, once the cluster pairs can be loaded.               *)
LEMMA THLeads ==
  ASSUME NEW e \in Encoder, NEW r, UsesETC2(r)
  PROVE  \E G : /\ Leads(e, r, <<bindTexture(0, Object(e, ditheredTexture(r))),
                                 bindUav(0, Object(e, "m_thModesTargetRes"), "Write"),
                                 bindUav(1, Object(e, "m_thModesError"), "Write"),
                                 bindUav(2, Object(e, "m_thModesC0C1"), "Write"),
                                 bindComputePso(Object(e, "m_thModesPso")),
                                 glDispatchCompute>>, EtcFacts(r), G)
                /\ {Bound(tex(0), ditheredTexture(r)), Unstored("fetch", ditheredTexture(r)),
                    Untouched("image", "m_pModeTargetRes"),
                    Untouched("image", "m_pModeError")} \cup Rest \subseteq G
<1> DEFINE d == ditheredTexture(r)
           K == EtcFacts(r)
           A == Binds(K, tex(0), d)
           B == Binds(A, uav(0), "m_thModesTargetRes")
           C == Binds(B, uav(1), "m_thModesError")
           D == Binds(C, uav(2), "m_thModesC0C1")
           E == Binds(D, pso, "m_thModesPso")
           R == {d, "m_thModesC0C1"}
           W == {"m_thModesTargetRes", "m_thModesError"}
           G == Uses(E, R, W)
           Kept0 == {Unstored("fetch", d), Untouched("image", "m_pModeTargetRes"),
                     Untouched("image", "m_pModeError")} \cup Rest
           Facts == {Unstored("image", "m_thModesC0C1"),
                     Untouched("image", "m_thModesTargetRes"),
                     Untouched("image", "m_thModesError")} \cup Kept0
<1>1. /\ "m_thModesPso" \in ProgramField /\ FileOf(r, "m_thModesPso") = "etc2_th.glsl"
      /\ Links(FileOf(r, "m_thModesPso"))
      /\ d \in Field /\ d \in {"m_srcTexture", "m_ditheredTexture"}
      /\ "m_thModesC0C1" \in Field
      /\ "m_thModesTargetRes" \in Field \ ProgramField
      /\ "m_thModesError" \in Field \ ProgramField
  BY DEF Field, ProgramField, FileOf, Links, ditheredTexture
<1>2. Facts \subseteq K /\ Facts \subseteq CleanFacts
  <2>1. Facts \subseteq K
    BY DEF EtcFacts
  <2>2. K \subseteq CleanFacts
    BY KnownOfEtc DEF Has00
  <2> QED
    BY <2>1, <2>2
<1>3. Kept0 \subseteq Facts
  OBVIOUS
<1>4. /\ Follows(r, K, bindTexture(0, Object(e, d)), A)
      /\ Follows(r, A, bindUav(0, Object(e, "m_thModesTargetRes"), "Write"), B)
      /\ Follows(r, B, bindUav(1, Object(e, "m_thModesError"), "Write"), C)
      /\ Follows(r, C, bindUav(2, Object(e, "m_thModesC0C1"), "Write"), D)
      /\ Follows(r, D, bindComputePso(Object(e, "m_thModesPso")), E)
  BY <1>1, BindSteps, ProgramSteps
<1>5. /\ bindTexture(0, Object(e, d)) \in OwnCall(e)
      /\ bindUav(0, Object(e, "m_thModesTargetRes"), "Write") \in OwnCall(e)
      /\ bindUav(1, Object(e, "m_thModesError"), "Write") \in OwnCall(e)
      /\ bindUav(2, Object(e, "m_thModesC0C1"), "Write") \in OwnCall(e)
      /\ bindComputePso(Object(e, "m_thModesPso")) \in OwnCall(e)
      /\ glDispatchCompute \in OwnCall(e)
  BY <1>1, OwnBind, OwnBindUav, OwnPlain DEF TexUnits, ImageUnits, Field
<1> HIDE DEF Facts, K, d
<1>6. uav(0) # uav(1) /\ uav(0) # uav(2) /\ uav(1) # uav(2)
  BY UnitsDiffer
<1>7. Bound(tex(0), d) \in A /\ Facts \subseteq A
  BY <1>2, InBinds
<1> HIDE DEF A
<1>8. /\ Bound(tex(0), d) \in B /\ Bound(uav(0), "m_thModesTargetRes") \in B
      /\ Facts \subseteq B
  BY <1>2, <1>7, InBinds, UnitsDiffer
<1> HIDE DEF B
<1>9. /\ Bound(tex(0), d) \in C /\ Bound(uav(0), "m_thModesTargetRes") \in C
      /\ Bound(uav(1), "m_thModesError") \in C /\ Facts \subseteq C
  BY <1>2, <1>6, <1>8, InBinds, UnitsDiffer
<1> HIDE DEF C
<1>10. /\ Bound(tex(0), d) \in D /\ Bound(uav(0), "m_thModesTargetRes") \in D
       /\ Bound(uav(1), "m_thModesError") \in D /\ Bound(uav(2), "m_thModesC0C1") \in D
       /\ Facts \subseteq D
  BY <1>2, <1>6, <1>9, InBinds, UnitsDiffer
<1> HIDE DEF D
<1>11. /\ Bound(tex(0), d) \in E /\ Bound(uav(0), "m_thModesTargetRes") \in E
       /\ Bound(uav(1), "m_thModesError") \in E /\ Bound(uav(2), "m_thModesC0C1") \in E
       /\ Bound(pso, "m_thModesPso") \in E /\ Facts \subseteq E
  BY <1>2, <1>10, InBinds, UnitsDiffer
<1> HIDE DEF E
<1>12. Follows(r, E, glDispatchCompute, G)
  <2>1. {Unstored("fetch", d), Unstored("image", "m_thModesC0C1"),
         Untouched("image", "m_thModesTargetRes"),
         Untouched("image", "m_thModesError")} \subseteq E
    BY <1>11 DEF Facts
  <2> QED
    BY <1>1, <1>11, <2>1, ShaderUnits, DispatchTH
<1>13. Kept0 \subseteq G
  <2>1. R \subseteq TouchedField /\ W \subseteq StoredField
    BY <1>1 DEF TouchedField, StoredField
  <2>2. Kept0 \subseteq E
    BY <1>3, <1>11
  <2>3. d \notin W /\ "m_pModeTargetRes" \notin R \cup W /\ "m_pModeError" \notin R \cup W
    BY <1>1
  <2>4. Rest \subseteq G
    BY <2>1, <2>2, RestIsKept
  <2>5. /\ Unstored("fetch", d) \in G /\ Untouched("image", "m_pModeTargetRes") \in G
        /\ Untouched("image", "m_pModeError") \in G
    BY <2>2, <2>3, InUses
  <2> QED
    BY <2>4, <2>5
<1>14. Bound(tex(0), d) \in G
  BY <1>11, InUses
<1> HIDE DEF G
<1>15. Leads(e, r, <<bindTexture(0, Object(e, d)),
                     bindUav(0, Object(e, "m_thModesTargetRes"), "Write"),
                     bindUav(1, Object(e, "m_thModesError"), "Write"),
                     bindUav(2, Object(e, "m_thModesC0C1"), "Write"),
                     bindComputePso(Object(e, "m_thModesPso")),
                     glDispatchCompute>>, K, G)
  BY <1>4, <1>5, <1>12, LeadsSix
<1> QED
  BY <1>13, <1>14, <1>15 DEF K, d

(* The P blocks.                                                           *)
LEMMA PLeads ==
  ASSUME NEW e \in Encoder, NEW r, NEW F,
         {Bound(tex(0), ditheredTexture(r)), Unstored("fetch", ditheredTexture(r)),
          Untouched("image", "m_pModeTargetRes"),
          Untouched("image", "m_pModeError")} \cup Rest \subseteq F
  PROVE  Leads(e, r, <<bindUav(0, Object(e, "m_pModeTargetRes"), "Write"),
                       bindUav(1, Object(e, "m_pModeError"), "Write"),
                       bindComputePso(Object(e, "m_pModePso")),
                       glDispatchCompute>>, F, Rest)
<1> DEFINE d == ditheredTexture(r)
           A == Binds(F, uav(0), "m_pModeTargetRes")
           B == Binds(A, uav(1), "m_pModeError")
           C == Binds(B, pso, "m_pModePso")
           G == Uses(C, {d}, {"m_pModeTargetRes", "m_pModeError"})
           Facts == {Unstored("fetch", d), Untouched("image", "m_pModeTargetRes"),
                     Untouched("image", "m_pModeError")}
<1>1. /\ "m_pModePso" \in ProgramField /\ FileOf(r, "m_pModePso") = "etc2_p.glsl"
      /\ Links(FileOf(r, "m_pModePso"))
      /\ d \in Field /\ d \in {"m_srcTexture", "m_ditheredTexture"}
      /\ "m_pModeTargetRes" \in Field \ ProgramField
      /\ "m_pModeError" \in Field \ ProgramField
  BY DEF Field, ProgramField, FileOf, Links, ditheredTexture
<1>2. Facts \subseteq F /\ Bound(tex(0), d) \in F
  OBVIOUS
<1>3. Rest \subseteq G
  <2>1. {d} \subseteq TouchedField /\ {"m_pModeTargetRes", "m_pModeError"} \subseteq StoredField
    BY <1>1 DEF TouchedField, StoredField
  <2> QED
    BY <2>1, RestIsKept
<1>4. /\ Follows(r, F, bindUav(0, Object(e, "m_pModeTargetRes"), "Write"), A)
      /\ Follows(r, A, bindUav(1, Object(e, "m_pModeError"), "Write"), B)
      /\ Follows(r, B, bindComputePso(Object(e, "m_pModePso")), C)
  BY <1>1, BindSteps, ProgramSteps
<1>5. /\ bindUav(0, Object(e, "m_pModeTargetRes"), "Write") \in OwnCall(e)
      /\ bindUav(1, Object(e, "m_pModeError"), "Write") \in OwnCall(e)
      /\ bindComputePso(Object(e, "m_pModePso")) \in OwnCall(e)
      /\ glDispatchCompute \in OwnCall(e)
  BY <1>1, OwnBind, OwnBindUav, OwnPlain DEF TexUnits, ImageUnits, Field
<1> HIDE DEF d
<1>6. uav(0) # uav(1)
  BY UnitsDiffer
<1>7. /\ Bound(tex(0), d) \in A /\ Bound(uav(0), "m_pModeTargetRes") \in A
      /\ Facts \subseteq A
  BY <1>2, InBinds, UnitsDiffer
<1> HIDE DEF A
<1>8. /\ Bound(tex(0), d) \in B /\ Bound(uav(0), "m_pModeTargetRes") \in B
      /\ Bound(uav(1), "m_pModeError") \in B /\ Facts \subseteq B
  BY <1>6, <1>7, InBinds, UnitsDiffer
<1> HIDE DEF B
<1>9. /\ Bound(tex(0), d) \in C /\ Bound(uav(0), "m_pModeTargetRes") \in C
      /\ Bound(uav(1), "m_pModeError") \in C /\ Bound(pso, "m_pModePso") \in C
      /\ Facts \subseteq C
  BY <1>6, <1>8, InBinds, UnitsDiffer
<1> HIDE DEF C
<1>10. Follows(r, C, glDispatchCompute, G)
  BY <1>1, <1>9, ShaderUnits, DispatchP
<1> HIDE DEF G, Facts
<1>11. Leads(e, r, <<bindUav(0, Object(e, "m_pModeTargetRes"), "Write"),
                     bindUav(1, Object(e, "m_pModeError"), "Write"),
                     bindComputePso(Object(e, "m_pModePso")),
                     glDispatchCompute>>, F, G)
  BY <1>4, <1>5, <1>10, LeadsFour
<1> QED
  BY <1>3, <1>11, LeadsWeaker

(* The calls of the two, as EncoderETC2 lists them.                        *)
LEMMA TenCalls ==
  ASSUME NEW a, NEW b, NEW c, NEW d, NEW f, NEW g, NEW h, NEW i, NEW j, NEW k
  PROVE  <<a, b, c, d, f, g, h, i, j, k>> = <<a, b, c, d, f, g>> \o <<h, i, j, k>>
OBVIOUS

(* They lead where their parts do.                                         *)
LEMMA LeadsTen ==
  ASSUME NEW e, NEW r, NEW F, NEW G, NEW H,
         NEW a, NEW b, NEW c, NEW d, NEW f, NEW g, NEW h, NEW i, NEW j, NEW k,
         Leads(e, r, <<a, b, c, d, f, g>>, F, G), Leads(e, r, <<h, i, j, k>>, G, H)
  PROVE  Leads(e, r, <<a, b, c, d, f, g, h, i, j, k>>, F, H)
<1> DEFINE s == <<a, b, c, d, f, g>>
           t == <<h, i, j, k>>
<1>1. <<a, b, c, d, f, g, h, i, j, k>> = s \o t
  BY TenCalls
<1>2. Leads(e, r, s, F, G) /\ Leads(e, r, t, G, H)
  OBVIOUS
<1> HIDE DEF s, t
<1> QED
  BY <1>1, <1>2, LeadsOn

(* EncoderETC2: after the ETC1 blocks the T and H blocks and the P blocks, *)
(* in any order.                                                           *)
LEMMA ETC2_execute01Leads ==
  ASSUME NEW e \in Encoder, NEW r, UsesETC2(r), r.quality \in Int
  PROVE  Leads(e, r, ETC2_execute01(e, r), KnownAt(r, "execute01"), Rest)
<1> DEFINE d == ditheredTexture(r)
           s == <<bindTexture(0, Object(e, d)),
                  bindUav(0, Object(e, "m_thModesTargetRes"), "Write"),
                  bindUav(1, Object(e, "m_thModesError"), "Write"),
                  bindUav(2, Object(e, "m_thModesC0C1"), "Write"),
                  bindComputePso(Object(e, "m_thModesPso")),
                  glDispatchCompute>>
           t == <<bindUav(0, Object(e, "m_pModeTargetRes"), "Write"),
                  bindUav(1, Object(e, "m_pModeError"), "Write"),
                  bindComputePso(Object(e, "m_pModePso")),
                  glDispatchCompute>>
           u == <<bindTexture(0, Object(e, d)),
                  bindUav(0, Object(e, "m_thModesTargetRes"), "Write"),
                  bindUav(1, Object(e, "m_thModesError"), "Write"),
                  bindUav(2, Object(e, "m_thModesC0C1"), "Write"),
                  bindComputePso(Object(e, "m_thModesPso")),
                  glDispatchCompute,
                  bindUav(0, Object(e, "m_pModeTargetRes"), "Write"),
                  bindUav(1, Object(e, "m_pModeError"), "Write"),
                  bindComputePso(Object(e, "m_pModePso")),
                  glDispatchCompute>>
<1>1. Leads(e, r, ETC1_execute01(e, r), KnownAt(r, "execute01"), EtcFacts(r))
  BY ETC1_execute01Leads DEF Has00
<1>2. PICK G : /\ Leads(e, r, s, EtcFacts(r), G)
               /\ {Bound(tex(0), d), Unstored("fetch", d),
                   Untouched("image", "m_pModeTargetRes"),
                   Untouched("image", "m_pModeError")} \cup Rest \subseteq G
  BY THLeads
<1>3. Leads(e, r, t, G, Rest)
  BY <1>2, PLeads
<1>4. Leads(e, r, u, EtcFacts(r), Rest)
  BY <1>2, <1>3, LeadsTen
<1>5. ETC2_execute01(e, r) = ETC1_execute01(e, r) \o u
  BY Zenon DEF ETC2_execute01
<1> HIDE DEF u
<1> QED
  BY <1>1, <1>4, <1>5, LeadsOn

(* Facts of H about images and, for each pair of h, what a unit holds.     *)
Bindings(H, h) == H \cup {Bound(p[1], p[2]) : p \in h}

(* One more unit is bound.                                                 *)
LEMMA HeldBinds ==
  ASSUME NEW H, H \subseteq CleanFacts, NEW h, NEW u, NEW f, \A p \in h : p[1] # u
  PROVE  Bindings(H, h \cup {<<u, f>>}) \subseteq Binds(Bindings(H, h), u, f)
<1>1. Bindings(H, h) \subseteq Binds(Bindings(H, h), u, f)
  BY DEF Bindings, Binds, KeptByBind, CleanFacts, Bound
<1>2. Bound(u, f) \in Binds(Bindings(H, h), u, f)
  BY DEF Binds
<1>3. ASSUME NEW x \in Bindings(H, h \cup {<<u, f>>})
      PROVE  x \in Bindings(H, h) \/ x = Bound(u, f)
  BY <1>3 DEF Bindings
<1> QED
  BY <1>1, <1>2, <1>3

(* What a bound program reads and writes then.                             *)
LEMMA HeldDispatch ==
  ASSUME NEW r, NEW H, NEW h, NEW f \in ProgramField, <<pso, f>> \in h,
         NEW R \in SUBSET h, NEW W \in SUBSET h,
         ReadUnits(FileOf(r, f)) = {p[1] : p \in R},
         WriteUnits(FileOf(r, f)) = {p[1] : p \in W},
         \A p \in R \cup W : p[1] \in Unit /\ p[2] \in Field,
         \A p, q \in R \cup W : p[1] = q[1] => p = q,
         \A p \in R : Unstored(ViaOf(p[1]), p[2]) \in H,
         \A p \in W : p[2] \notin ProgramField /\ Untouched("image", p[2]) \in H
  PROVE  Follows(r, Bindings(H, h), glDispatchCompute,
                 Uses(Bindings(H, h), {p[2] : p \in R}, {p[2] : p \in W}))
<1> DEFINE F == Bindings(H, h)
<1>1. H \subseteq F /\ \A p \in h : Bound(p[1], p[2]) \in F
  BY DEF Bindings
<1>2. Bound(pso, f) \in F
  BY <1>1
<1>3. Null \notin Field
  BY DEF Null, Field
<1> HIDE DEF F
<1>4. \A p \in R \cup W : p[1] \in Unit /\ p[2] # Null /\ Bound(p[1], p[2]) \in F
  BY <1>1, <1>3
<1>5. /\ \A p \in R : Unstored(ViaOf(p[1]), p[2]) \in F
      /\ \A p \in W : p[2] \notin ProgramField /\ Untouched("image", p[2]) \in F
  BY <1>1
<1>6. Follows(r, F, glDispatchCompute, Uses(F, {p[2] : p \in R}, {p[2] : p \in W}))
  BY <1>2, <1>4, <1>5, DispatchRuns
<1> QED
  BY <1>6 DEF F

(* The textures of the selectors, one by one.                              *)
SelectorPairs ==
  {<<tex(0), "m_etc1Error">>, <<tex(1), "m_thModesError">>, <<tex(2), "m_pModeError">>,
   <<tex(3), "m_compressTargetRes">>, <<tex(4), "m_thModesTargetRes">>}

(* What is known behind their barrier.                                     *)
SelectorFacts(r) == Settles(r, Rest, {"TEXTURE_UPDATE", "SHADER_IMAGE_ACCESS"})

(* The calls the two selectors begin with.                                 *)
LEMMA SelectorBindsLeads ==
  ASSUME NEW e \in Encoder, NEW r
  PROVE  Leads(e, r, <<glMemoryBarrier({"TEXTURE_UPDATE", "SHADER_IMAGE_ACCESS"}),
                       bindTexture(0, Object(e, "m_etc1Error")),
                       bindTexture(1, Object(e, "m_thModesError")),
                       bindTexture(2, Object(e, "m_pModeError")),
                       bindTexture(3, Object(e, "m_compressTargetRes")),
                       bindTexture(4, Object(e, "m_thModesTargetRes"))>>,
               Rest, Bindings(SelectorFacts(r), SelectorPairs))
<1> DEFINE H == SelectorFacts(r)
           bits == {"TEXTURE_UPDATE", "SHADER_IMAGE_ACCESS"}
           h1 == {} \cup {<<tex(0), "m_etc1Error">>}
           h2 == h1 \cup {<<tex(1), "m_thModesError">>}
           h3 == h2 \cup {<<tex(2), "m_pModeError">>}
           h4 == h3 \cup {<<tex(3), "m_compressTargetRes">>}
           h5 == h4 \cup {<<tex(4), "m_thModesTargetRes">>}
<1>1. H \subseteq CleanFacts
  BY DEF SelectorFacts, Settles, Rest
<1>2. /\ \A p \in {} : p[1] # tex(0)
      /\ \A p \in h1 : p[1] # tex(1)
      /\ \A p \in h2 : p[1] # tex(2)
      /\ \A p \in h3 : p[1] # tex(3)
      /\ \A p \in h4 : p[1] # tex(4)
  BY UnitsDiffer
<1>3. h5 = SelectorPairs /\ Bindings(H, {}) = H
  BY DEF SelectorPairs, Bindings
<1>4. Follows(r, Rest, glMemoryBarrier(bits), Bindings(H, {}))
  BY <1>3, PlainSteps DEF SelectorFacts
<1>5. /\ Bindings(H, h1) \subseteq Binds(Bindings(H, {}), tex(0), "m_etc1Error")
      /\ Bindings(H, h2) \subseteq Binds(Bindings(H, h1), tex(1), "m_thModesError")
      /\ Bindings(H, h3) \subseteq Binds(Bindings(H, h2), tex(2), "m_pModeError")
      /\ Bindings(H, h4) \subseteq Binds(Bindings(H, h3), tex(3), "m_compressTargetRes")
      /\ Bindings(H, h5) \subseteq Binds(Bindings(H, h4), tex(4), "m_thModesTargetRes")
  <2> HIDE DEF H
  <2>1. Bindings(H, h1) \subseteq Binds(Bindings(H, {}), tex(0), "m_etc1Error")
    BY <1>1, <1>2, HeldBinds
  <2> HIDE DEF h1
  <2>2. Bindings(H, h2) \subseteq Binds(Bindings(H, h1), tex(1), "m_thModesError")
    BY <1>1, <1>2, HeldBinds
  <2> HIDE DEF h2
  <2>3. Bindings(H, h3) \subseteq Binds(Bindings(H, h2), tex(2), "m_pModeError")
    BY <1>1, <1>2, HeldBinds
  <2> HIDE DEF h3
  <2>4. Bindings(H, h4) \subseteq Binds(Bindings(H, h3), tex(3), "m_compressTargetRes")
    BY <1>1, <1>2, HeldBinds
  <2> HIDE DEF h4
  <2>5. Bindings(H, h5) \subseteq Binds(Bindings(H, h4), tex(4), "m_thModesTargetRes")
    BY <1>1, <1>2, HeldBinds
  <2> QED
    BY <2>1, <2>2, <2>3, <2>4, <2>5
<1>6. /\ glMemoryBarrier(bits) \in OwnCall(e)
      /\ bindTexture(0, Object(e, "m_etc1Error")) \in OwnCall(e)
      /\ bindTexture(1, Object(e, "m_thModesError")) \in OwnCall(e)
      /\ bindTexture(2, Object(e, "m_pModeError")) \in OwnCall(e)
      /\ bindTexture(3, Object(e, "m_compressTargetRes")) \in OwnCall(e)
      /\ bindTexture(4, Object(e, "m_thModesTargetRes")) \in OwnCall(e)
  BY OwnPlain, OwnBind DEF Bit, Field, TexUnits
<1> HIDE DEF H, h1, h2, h3, h4, h5
<1>7. /\ Follows(r, Bindings(H, {}), bindTexture(0, Object(e, "m_etc1Error")), Bindings(H, h1))
      /\ Follows(r, Bindings(H, h1), bindTexture(1, Object(e, "m_thModesError")), Bindings(H, h2))
      /\ Follows(r, Bindings(H, h2), bindTexture(2, Object(e, "m_pModeError")), Bindings(H, h3))
      /\ Follows(r, Bindings(H, h3), bindTexture(3, Object(e, "m_compressTargetRes")), Bindings(H, h4))
      /\ Follows(r, Bindings(H, h4), bindTexture(4, Object(e, "m_thModesTargetRes")), Bindings(H, h5))
  BY <1>5, BindSteps, FollowsLess
<1>8. Leads(e, r, <<glMemoryBarrier(bits),
                    bindTexture(0, Object(e, "m_etc1Error")),
                    bindTexture(1, Object(e, "m_thModesError")),
                    bindTexture(2, Object(e, "m_pModeError")),
                    bindTexture(3, Object(e, "m_compressTargetRes")),
                    bindTexture(4, Object(e, "m_thModesTargetRes"))>>,
            Rest, Bindings(H, h5))
  BY <1>4, <1>6, <1>7, LeadsSix
<1> QED
  BY <1>3, <1>8 DEF H

(* The barrier of execute02 settles every path an image is used through.   *)
LEMMA InSelectorFacts ==
  ASSUME NEW r, UsesETC2(r), NEW f \in Field
  PROVE  /\ Unstored("fetch", f) \in SelectorFacts(r)
         /\ Unstored("image", f) \in SelectorFacts(r)
         /\ Untouched("image", f) \in SelectorFacts(r)
         /\ Rest \subseteq SelectorFacts(r) /\ SelectorFacts(r) \subseteq CleanFacts
<1>1. Rest \subseteq SelectorFacts(r) /\ SelectorFacts(r) \subseteq CleanFacts
  BY DEF SelectorFacts, Settles, Rest
<1> QED
  BY <1>1, InSettles, BarrierBits DEF SelectorFacts, Via

(* The selector of a picture with alpha                                    *)
LEMMA RgbaSelectorLeads ==
  ASSUME NEW e \in Encoder, NEW r, UsesETC2(r), hasAlpha(r)
  PROVE  Leads(e, r, <<bindTexture(5, Object(e, "m_pModeTargetRes")),
                       bindTexture(6, Object(e, "m_eacTargetRes")),
                       bindUav(0, Object(e, "m_stitchedTarget"), "Write"),
                       bindComputePso(Object(e, "m_stitchPso")), glDispatchCompute>>,
               Bindings(SelectorFacts(r), SelectorPairs), Rest)
<1> DEFINE H == SelectorFacts(r)
           h0 == SelectorPairs
           h1 == h0 \cup {<<tex(5), "m_pModeTargetRes">>}
           h2 == h1 \cup {<<tex(6), "m_eacTargetRes">>}
           h3 == h2 \cup {<<uav(0), "m_stitchedTarget">>}
           h4 == h3 \cup {<<pso, "m_stitchPso">>}
           W == {<<uav(0), "m_stitchedTarget">>}
           G == Uses(Bindings(H, h4), {p[2] : p \in h2}, {p[2] : p \in W})
<1>1. /\ H \subseteq CleanFacts /\ Rest \subseteq H
      /\ \A f \in Field : /\ Unstored("fetch", f) \in H /\ Untouched("image", f) \in H
  BY InSelectorFacts DEF Field
<1>2. /\ "m_stitchPso" \in ProgramField
      /\ FileOf(r, "m_stitchPso") = "etc2_rgba_selector.glsl"
      /\ Links(FileOf(r, "m_stitchPso"))
  BY DEF ProgramField, FileOf, Links
<1> HIDE DEF H
<1>3. /\ \A p \in h0 : p[1] # tex(5)
      /\ \A p \in h1 : p[1] # tex(6)
      /\ \A p \in h2 : p[1] # uav(0)
      /\ \A p \in h3 : p[1] # pso
  BY UnitsDiffer DEF SelectorPairs
<1>4. /\ ReadUnits(FileOf(r, "m_stitchPso")) = {p[1] : p \in h2}
      /\ WriteUnits(FileOf(r, "m_stitchPso")) = {p[1] : p \in W}
  BY <1>2, SelectorUnits DEF SelectorPairs
<1>5. /\ h2 \subseteq h4 /\ W \subseteq h4 /\ <<pso, "m_stitchPso">> \in h4
  OBVIOUS
<1>6. \A p \in h2 \cup W : p[1] \in Unit /\ p[2] \in Field
  BY DEF SelectorPairs, Unit, TexUnits, ImageUnits, Field
<1>7. \A p, q \in h2 \cup W : p[1] = q[1] => p = q
  BY UnitsDiffer DEF SelectorPairs
<1>8. \A p \in h2 : Unstored(ViaOf(p[1]), p[2]) \in H
  <2>1. \A p \in h2 : ViaOf(p[1]) = "fetch"
    BY DEF SelectorPairs, ViaOf, tex
  <2> QED
    BY <1>1, <1>6, <2>1
<1>9. \A p \in W : p[2] \notin ProgramField /\ Untouched("image", p[2]) \in H
  BY <1>1, <1>6 DEF ProgramField
<1>10. Rest \subseteq G
  <2>1. {p[2] : p \in h2} \subseteq TouchedField /\ {p[2] : p \in W} \subseteq StoredField
    BY DEF SelectorPairs, TouchedField, StoredField
  <2>2. Rest \subseteq Bindings(H, h4)
    BY <1>1 DEF Bindings
  <2> HIDE DEF h2, h4, W
  <2> QED
    BY <2>1, <2>2, RestIsKept
<1>11. Follows(r, Bindings(H, h4), glDispatchCompute, G)
  <2> HIDE DEF h2, h4, W
  <2> QED
    BY <1>2, <1>4, <1>5, <1>6, <1>7, <1>8, <1>9, HeldDispatch
<1> HIDE DEF G
<1>12. /\ Bindings(H, h1) \subseteq Binds(Bindings(H, h0), tex(5), "m_pModeTargetRes")
       /\ Bindings(H, h2) \subseteq Binds(Bindings(H, h1), tex(6), "m_eacTargetRes")
       /\ Bindings(H, h3) \subseteq Binds(Bindings(H, h2), uav(0), "m_stitchedTarget")
       /\ Bindings(H, h4) \subseteq Binds(Bindings(H, h3), pso, "m_stitchPso")
  <2> HIDE DEF h0
  <2>1. Bindings(H, h1) \subseteq Binds(Bindings(H, h0), tex(5), "m_pModeTargetRes")
    BY <1>1, <1>3, HeldBinds
  <2> HIDE DEF h1
  <2>2. Bindings(H, h2) \subseteq Binds(Bindings(H, h1), tex(6), "m_eacTargetRes")
    BY <1>1, <1>3, HeldBinds
  <2> HIDE DEF h2
  <2>3. Bindings(H, h3) \subseteq Binds(Bindings(H, h2), uav(0), "m_stitchedTarget")
    BY <1>1, <1>3, HeldBinds
  <2> HIDE DEF h3
  <2>4. Bindings(H, h4) \subseteq Binds(Bindings(H, h3), pso, "m_stitchPso")
    BY <1>1, <1>3, HeldBinds
  <2> QED
    BY <2>1, <2>2, <2>3, <2>4
<1>13. /\ bindTexture(5, Object(e, "m_pModeTargetRes")) \in OwnCall(e)
       /\ bindTexture(6, Object(e, "m_eacTargetRes")) \in OwnCall(e)
       /\ bindUav(0, Object(e, "m_stitchedTarget"), "Write") \in OwnCall(e)
       /\ bindComputePso(Object(e, "m_stitchPso")) \in OwnCall(e)
       /\ glDispatchCompute \in OwnCall(e)
  BY OwnPlain, OwnBind, OwnBindUav DEF TexUnits, ImageUnits, Field
<1> HIDE DEF h0, h1, h2, h3, h4
<1>14. /\ Follows(r, Bindings(H, h0), bindTexture(5, Object(e, "m_pModeTargetRes")), Bindings(H, h1))
       /\ Follows(r, Bindings(H, h1), bindTexture(6, Object(e, "m_eacTargetRes")), Bindings(H, h2))
       /\ Follows(r, Bindings(H, h2), bindUav(0, Object(e, "m_stitchedTarget"), "Write"),
                  Bindings(H, h3))
       /\ Follows(r, Bindings(H, h3), bindComputePso(Object(e, "m_stitchPso")), Bindings(H, h4))
  BY <1>2, <1>12, BindSteps, ProgramSteps, FollowsLess
<1>15. Leads(e, r, <<bindTexture(5, Object(e, "m_pModeTargetRes")),
                     bindTexture(6, Object(e, "m_eacTargetRes")),
                     bindUav(0, Object(e, "m_stitchedTarget"), "Write"),
                     bindComputePso(Object(e, "m_stitchPso")), glDispatchCompute>>,
             Bindings(H, h0), G)
  BY <1>11, <1>13, <1>14, LeadsFive
<1> QED
  BY <1>10, <1>15, LeadsWeaker DEF H, h0

(* and of one without, which replaces the P blocks in place.               *)
LEMMA RgbSelectorLeads ==
  ASSUME NEW e \in Encoder, NEW r, UsesETC2(r), ~hasAlpha(r)
  PROVE  Leads(e, r, <<bindUav(0, Object(e, "m_pModeTargetRes"), "ReadWrite"),
                       bindComputePso(Object(e, "m_stitchPso")), glDispatchCompute>>,
               Bindings(SelectorFacts(r), SelectorPairs), Rest)
<1> DEFINE H == SelectorFacts(r)
           h0 == SelectorPairs
           h1 == h0 \cup {<<uav(0), "m_pModeTargetRes">>}
           h2 == h1 \cup {<<pso, "m_stitchPso">>}
           W == {<<uav(0), "m_pModeTargetRes">>}
           G == Uses(Bindings(H, h2), {p[2] : p \in h1}, {p[2] : p \in W})
<1>1. /\ H \subseteq CleanFacts /\ Rest \subseteq H
      /\ \A f \in Field : /\ Unstored("fetch", f) \in H /\ Untouched("image", f) \in H
                          /\ Unstored("image", f) \in H
  BY InSelectorFacts DEF Field
<1>2. /\ "m_stitchPso" \in ProgramField
      /\ FileOf(r, "m_stitchPso") = "etc2_rgb_selector.glsl"
      /\ Links(FileOf(r, "m_stitchPso"))
  BY DEF ProgramField, FileOf, Links
<1> HIDE DEF H
<1>3. /\ \A p \in h0 : p[1] # uav(0)
      /\ \A p \in h1 : p[1] # pso
  BY UnitsDiffer DEF SelectorPairs
<1>4. /\ ReadUnits(FileOf(r, "m_stitchPso")) = {p[1] : p \in h1}
      /\ WriteUnits(FileOf(r, "m_stitchPso")) = {p[1] : p \in W}
  BY <1>2, SelectorUnits DEF SelectorPairs
<1>5. /\ h1 \subseteq h2 /\ W \subseteq h2 /\ <<pso, "m_stitchPso">> \in h2
  OBVIOUS
<1>6. \A p \in h1 \cup W : p[1] \in Unit /\ p[2] \in Field
  BY DEF SelectorPairs, Unit, TexUnits, ImageUnits, Field
<1>7. \A p, q \in h1 \cup W : p[1] = q[1] => p = q
  BY UnitsDiffer DEF SelectorPairs
<1>8. \A p \in h1 : Unstored(ViaOf(p[1]), p[2]) \in H
  <2>1. \A p \in h1 : ViaOf(p[1]) \in {"fetch", "image"}
    BY DEF SelectorPairs, ViaOf, tex, uav
  <2> QED
    BY <1>1, <1>6, <2>1
<1>9. \A p \in W : p[2] \notin ProgramField /\ Untouched("image", p[2]) \in H
  BY <1>1, <1>6 DEF ProgramField
<1>10. Rest \subseteq G
  <2>1. {p[2] : p \in h1} \subseteq TouchedField /\ {p[2] : p \in W} \subseteq StoredField
    BY DEF SelectorPairs, TouchedField, StoredField
  <2>2. Rest \subseteq Bindings(H, h2)
    BY <1>1 DEF Bindings
  <2> HIDE DEF h1, h2, W
  <2> QED
    BY <2>1, <2>2, RestIsKept
<1>11. Follows(r, Bindings(H, h2), glDispatchCompute, G)
  <2> HIDE DEF h1, h2, W
  <2> QED
    BY <1>2, <1>4, <1>5, <1>6, <1>7, <1>8, <1>9, HeldDispatch
<1> HIDE DEF G
<1>12. /\ Bindings(H, h1) \subseteq Binds(Bindings(H, h0), uav(0), "m_pModeTargetRes")
       /\ Bindings(H, h2) \subseteq Binds(Bindings(H, h1), pso, "m_stitchPso")
  <2> HIDE DEF h0
  <2>1. Bindings(H, h1) \subseteq Binds(Bindings(H, h0), uav(0), "m_pModeTargetRes")
    BY <1>1, <1>3, HeldBinds
  <2> HIDE DEF h1
  <2>2. Bindings(H, h2) \subseteq Binds(Bindings(H, h1), pso, "m_stitchPso")
    BY <1>1, <1>3, HeldBinds
  <2> QED
    BY <2>1, <2>2
<1>13. /\ bindUav(0, Object(e, "m_pModeTargetRes"), "ReadWrite") \in OwnCall(e)
       /\ bindComputePso(Object(e, "m_stitchPso")) \in OwnCall(e)
       /\ glDispatchCompute \in OwnCall(e)
  BY OwnPlain, OwnBind, OwnBindUav DEF TexUnits, ImageUnits, Field
<1> HIDE DEF h0, h1, h2
<1>14. /\ Follows(r, Bindings(H, h0), bindUav(0, Object(e, "m_pModeTargetRes"), "ReadWrite"),
                  Bindings(H, h1))
       /\ Follows(r, Bindings(H, h1), bindComputePso(Object(e, "m_stitchPso")), Bindings(H, h2))
  BY <1>2, <1>12, BindSteps, ProgramSteps, FollowsLess
<1>15. Leads(e, r, <<bindUav(0, Object(e, "m_pModeTargetRes"), "ReadWrite"),
                     bindComputePso(Object(e, "m_stitchPso")), glDispatchCompute>>,
             Bindings(H, h0), G)
  BY <1>11, <1>13, <1>14, LeadsThree
<1> QED
  BY <1>10, <1>15, LeadsWeaker DEF H, h0

(* Their calls, as EncoderETC2 lists them.                                 *)
LEMMA LeadsCut ==
  ASSUME NEW e, NEW r, NEW F, NEW G, NEW a, NEW b, NEW c, NEW d, NEW f
  PROVE  /\ Leads(e, r, <<a, b, c, d, f>>, F, G)
              => Leads(e, r, <<a, b, c>> \o <<d, f>>, F, G)
         /\ Leads(e, r, <<a, d, f>>, F, G) => Leads(e, r, <<a>> \o <<d, f>>, F, G)
<1>1. <<a, b, c, d, f>> = <<a, b, c>> \o <<d, f>>
  OBVIOUS
<1>2. <<a, d, f>> = <<a>> \o <<d, f>>
  OBVIOUS
<1> QED
  BY <1>1, <1>2

(* EncoderETC2::execute02.                                                 *)
LEMMA ETC2_execute02Leads ==
  ASSUME NEW e \in Encoder, NEW r, UsesETC2(r)
  PROVE  Leads(e, r, ETC2_execute02(e, r), Rest, Rest)
<1> DEFINE M == Bindings(SelectorFacts(r), SelectorPairs)
           s == <<glMemoryBarrier({"TEXTURE_UPDATE", "SHADER_IMAGE_ACCESS"}),
                  bindTexture(0, Object(e, "m_etc1Error")),
                  bindTexture(1, Object(e, "m_thModesError")),
                  bindTexture(2, Object(e, "m_pModeError")),
                  bindTexture(3, Object(e, "m_compressTargetRes")),
                  bindTexture(4, Object(e, "m_thModesTargetRes"))>>
           t == <<bindTexture(5, Object(e, "m_pModeTargetRes")),
                  bindTexture(6, Object(e, "m_eacTargetRes")),
                  bindUav(0, Object(e, "m_stitchedTarget"), "Write")>>
           u == <<bindUav(0, Object(e, "m_pModeTargetRes"), "ReadWrite")>>
           w == <<bindComputePso(Object(e, "m_stitchPso")), glDispatchCompute>>
<1>1. Leads(e, r, s, Rest, M)
  BY SelectorBindsLeads
<1>2. hasAlpha(r) => Leads(e, r, t \o w, M, Rest)
  BY RgbaSelectorLeads, LeadsCut, Zenon
<1>3. ~hasAlpha(r) => Leads(e, r, u \o w, M, Rest)
  BY RgbSelectorLeads, LeadsCut, Zenon
<1>4. /\ s \in Seq(OwnCall(e)) /\ t \in Seq(OwnCall(e)) /\ u \in Seq(OwnCall(e))
      /\ w \in Seq(OwnCall(e))
  <2>1. s \in Seq(OwnCall(e))
    BY <1>1 DEF Leads
  <2> HIDE DEF s
  <2> QED
    BY <2>1, OwnPlain, OwnBind, OwnBindUav DEF TexUnits, ImageUnits, Field
<1>5. ETC2_execute02(e, r) = s \o (IF hasAlpha(r) THEN t ELSE u) \o w
  BY DEF ETC2_execute02
<1> HIDE DEF M, s, t, u, w
<1>6. CASE hasAlpha(r)
  <2>1. ETC2_execute02(e, r) = s \o (t \o w)
    BY <1>4, <1>5, <1>6, ConcatProperties
  <2> QED
    BY <1>1, <1>2, <1>6, <2>1, LeadsOn
<1>7. CASE ~hasAlpha(r)
  <2>1. ETC2_execute02(e, r) = s \o (u \o w)
    BY <1>4, <1>5, <1>7, ConcatProperties
  <2> QED
    BY <1>1, <1>3, <1>7, <2>1, LeadsOn
<1> QED
  BY <1>6, <1>7

(* EncoderETC1::execute02 and execute03.                                   *)
LEMMA ETC1EndLeads ==
  ASSUME NEW e \in Encoder, NEW r, UsesETC1(r)
  PROVE  /\ Leads(e, r, ETC1_execute02(e, r), StitchFacts, Rest)
         /\ Leads(e, r, ETC1_execute03(e, r), Rest, CleanFacts)
<1> DEFINE bits == {"TEXTURE_UPDATE", "SHADER_IMAGE_ACCESS"}
           A == Settles(r, Rest, bits)
           b == glMemoryBarrier(bits)
           p == copyImage(Object(e, "m_compressTargetRes"), Object(e, "m_dstTexture"))
           c == createStagingTexture(Object(e, "stagingTex"))
           d == downloadStagingTexture(Object(e, "m_compressTargetRes"),
                                       Object(e, "stagingTex"), 8)
           x == destroy(Object(e, "stagingTex"))
<1>1. Leads(e, r, ETC1_execute02(e, r), StitchFacts, Rest)
  <2>1. ~UsesETC2(r) /\ hasAlpha(r) \in BOOLEAN
    BY OneEncoder DEF hasAlpha
  <2>2. Leads(e, r, Stitch(e, "m_compressTargetRes", "m_eacTargetRes"), StitchFacts, Rest)
    BY <2>1, StitchLeads DEF StoredField
  <2> QED
    BY <2>1, <2>2, LeadsWhen DEF ETC1_execute02, Stitch, StitchFacts
<1>2. \A y \in A : y[1] = "bound" => y[2] = pso
  BY DEF Settles, Rest, CleanFacts
<1>3. /\ Unstored("copy", "m_compressTargetRes") \in A
      /\ Untouched("copy", "m_dstTexture") \in A
      /\ Unstored("download", "m_compressTargetRes") \in A
      /\ Untouched("pack", "stagingTex") \in A
  BY InSettles, BarrierBits DEF Via, Field
<1>4. "m_dstTexture" \notin ProgramField /\ "stagingTex" \notin ProgramField
  BY DEF ProgramField
<1>5. Follows(r, Rest, b, A)
  BY PlainSteps
<1> HIDE DEF A
<1>6. /\ Follows(r, A, p, A) /\ Follows(r, A, c, A) /\ Follows(r, A, d, A)
  <2>1. Follows(r, A, p, A)
    BY <1>2, <1>3, <1>4, ObjectSteps
  <2>2. Follows(r, A, c, A)
    BY <1>2, <1>4, ObjectSteps DEF createStagingTexture
  <2>3. Follows(r, A, d, A)
    BY <1>2, <1>3, <1>4, ObjectSteps
  <2> QED
    BY <2>1, <2>2, <2>3
<1>7. Follows(r, A, glFinish, CleanFacts)
  BY PlainSteps, FollowsLess
<1>8. Follows(r, CleanFacts, x, CleanFacts)
  <2>1. \A y \in CleanFacts : y[1] = "bound" => y[2] = pso
    BY DEF CleanFacts
  <2> QED
    BY <2>1, ObjectSteps DEF destroy
<1>9. /\ b \in OwnCall(e) /\ p \in OwnCall(e) /\ c \in OwnCall(e) /\ d \in OwnCall(e)
      /\ glFinish \in OwnCall(e) /\ x \in OwnCall(e)
  BY OwnPlain, OwnTransfer, OwnCreate, OwnBind DEF Bit, Field
<1>10. ETC1_execute03(e, r) = <<b, p, c, d, glFinish, x>>
  BY DEF ETC1_execute03
<1> HIDE DEF b, p, c, d, x
<1>11. Leads(e, r, <<b, p, c, d, glFinish, x>>, Rest, CleanFacts)
  BY <1>5, <1>6, <1>7, <1>8, <1>9, LeadsSix
<1> QED
  BY <1>1, <1>10, <1>11

(* EncoderETC2::execute03, which main calls under RenderDoc only: its      *)
(* steps are not ordered.                                                  *)
LEMMA ETC2_execute03Leads ==
  ASSUME NEW e \in Encoder, NEW r, UsesETC2(r), r.usingRenderDoc
  PROVE  Leads(e, r, ETC2_execute03(e, r), Rest, CleanFacts)
<1> DEFINE p == copyImage(Object(e, ETC2_resultTexture(r)), Object(e, "m_dstTexture"))
           c == createStagingTexture(Object(e, "stagingTex"))
           d == downloadStagingTexture(Object(e, "m_pModeTargetRes"),
                                       Object(e, "stagingTex"), 8)
<1>1. ~Careful(r)
  BY DEF Careful
<1>2. \A y \in Rest : y[1] = "bound" => y[2] = pso
  BY DEF Rest, CleanFacts
<1>3. /\ "m_dstTexture" \notin ProgramField /\ "stagingTex" \notin ProgramField
      /\ ETC2_resultTexture(r) \in Field
  BY DEF ProgramField, ETC2_resultTexture, Field
<1>4. Follows(r, Rest, p, Rest)
  BY <1>1, <1>2, <1>3, ObjectSteps
<1>5. Follows(r, Rest, c, Rest)
  BY <1>2, <1>3, ObjectSteps DEF createStagingTexture
<1>6. Follows(r, Rest, d, Rest)
  BY <1>1, <1>2, <1>3, ObjectSteps
<1>7. Follows(r, Rest, glFinish, CleanFacts)
  BY PlainSteps, FollowsLess
<1>8. p \in OwnCall(e) /\ c \in OwnCall(e) /\ d \in OwnCall(e) /\ glFinish \in OwnCall(e)
  BY <1>3, OwnPlain, OwnTransfer, OwnCreate DEF Field
<1>9. ETC2_execute03(e, r) = <<p, c, d, glFinish>>
  BY DEF ETC2_execute03
<1> HIDE DEF p, c, d
<1> QED
  BY <1>4, <1>5, <1>6, <1>7, <1>8, <1>9, LeadsFour

(* The download every startDownload ends with.                             *)
LEMMA DownloadLeads ==
  ASSUME NEW e \in Encoder, NEW r, NEW L, NEW f \in Field, NEW n \in Nat
  PROVE  Leads(e, r, downloadResult(e, L, f, n), Rest, Rest)
<1> DEFINE A == Settles(r, Rest, {"PIXEL_BUFFER"})
           b == glMemoryBarrier({"PIXEL_BUFFER"})
           x == destroy(Object(e, "m_downloadStaging"))
           c == createStagingTexture(Object(e, "m_downloadStaging"))
           d == downloadStagingTexture(Object(e, f), Object(e, "m_downloadStaging"), n)
<1>1. \A y \in A : y[1] = "bound" => y[2] = pso
  BY DEF Settles, Rest, CleanFacts
<1>2. /\ Unstored("download", f) \in A /\ Untouched("pack", "m_downloadStaging") \in A
      /\ Rest \subseteq A
  <2>1. Untouched("pack", "m_downloadStaging") \in Rest
    BY InRest DEF Via, Field, TouchedField, StoredField
  <2> QED
    BY <2>1, InSettles, BarrierBits DEF Via
<1>3. "m_downloadStaging" \notin ProgramField
  BY DEF ProgramField
<1>4. Follows(r, Rest, b, A)
  BY PlainSteps
<1> HIDE DEF A
<1>5. Follows(r, A, x, A) /\ Follows(r, A, c, A) /\ Follows(r, A, d, A)
  <2>1. Follows(r, A, x, A)
    BY <1>1, ObjectSteps DEF destroy
  <2>2. Follows(r, A, c, A)
    BY <1>1, <1>3, ObjectSteps DEF createStagingTexture
  <2>3. Follows(r, A, d, A)
    BY <1>1, <1>2, <1>3, ObjectSteps
  <2> QED
    BY <2>1, <2>2, <2>3
<1>6. b \in OwnCall(e) /\ x \in OwnCall(e) /\ c \in OwnCall(e) /\ d \in OwnCall(e)
  BY OwnPlain, OwnTransfer, OwnCreate, OwnBind DEF Bit, Field
<1>7. downloadResult(e, L, f, n)
        = <<b>> \o When(Object(e, "m_downloadStaging") \in L, <<x>>) \o <<c, d>>
  BY DEF downloadResult, destroyDownloadStaging
<1> HIDE DEF b, c, d, x
<1>8. Leads(e, r, <<b>>, Rest, A) /\ Leads(e, r, <<x>>, A, A) /\ Leads(e, r, <<c, d>>, A, Rest)
  BY <1>2, <1>4, <1>5, <1>6, LeadsOne, LeadsTwo, LeadsWeaker
<1>9. Leads(e, r, When(Object(e, "m_downloadStaging") \in L, <<x>>), A, A)
  BY <1>8, LeadsNowhere DEF When
<1> QED
  BY <1>7, <1>8, <1>9, LeadsOn

(* EncoderBC6H::execute02 and every startDownload.                         *)
LEMMA StartDownloadLeads ==
  ASSUME NEW e \in Encoder, NEW r \in Request
  PROVE  Leads(e, r, StartDownloadCalls(e, r), Rest, Rest)
<1>1. ASSUME NEW f \in Field, NEW n \in Nat, StartDownloadCalls(e, r) = downloadResult(e, live, f, n)
      PROVE  Leads(e, r, StartDownloadCalls(e, r), Rest, Rest)
  BY <1>1, DownloadLeads
<1>2. CASE UsesETC1(r)
  BY <1>1, <1>2, OneEncoder DEF StartDownloadCalls, ETC1_startDownload, Field
<1>3. CASE UsesETC2(r)
  BY <1>1, <1>3, OneEncoder DEF StartDownloadCalls, ETC2_startDownload, ETC2_resultTexture, Field
<1>4. CASE UsesEAC(r)
  BY <1>1, <1>4, OneEncoder DEF StartDownloadCalls, EAC_startDownload, Field
<1>5. CASE UsesBC1(r)
  BY <1>1, <1>5, OneEncoder DEF StartDownloadCalls, BC1_startDownload, BC1_resultTexture, Field
<1>6. CASE UsesBC4(r)
  BY <1>1, <1>6, OneEncoder DEF StartDownloadCalls, BC4_startDownload, BC4_resultTexture, Field
<1>7. CASE UsesBC6H(r)
  BY <1>1, <1>7, OneEncoder DEF StartDownloadCalls, BC6H_startDownload, Field
<1> QED
  BY <1>2, <1>3, <1>4, <1>5, <1>6, <1>7, SomeEncoder

(* deinitResources deletes, and forgets nothing of what is known.          *)
LEMMA DeinitLeads ==
  ASSUME NEW e \in Encoder, NEW r \in Request
  PROVE  Leads(e, r, DeinitResourcesCalls(e, r), Rest, Rest)
<1> DEFINE S == {c \in OwnCall(e) : c.op = "destroy"}
<1>1. DeinitResourcesCalls(e, r) \in Seq(S)
  <2>1. ASSUME NEW s, NEW D, Frees(e, s, D)
        PROVE  s \in Seq(S)
    BY <2>1 DEF Frees
  <2> HIDE DEF S
  <2>2. CASE UsesETC1(r)
    BY <2>1, <2>2, OneEncoder, ETC1Frees DEF DeinitResourcesCalls
  <2>3. CASE UsesETC2(r)
    BY <2>1, <2>3, OneEncoder, ETC2Frees DEF DeinitResourcesCalls
  <2>4. CASE UsesEAC(r)
    BY <2>1, <2>4, OneEncoder, EACFrees DEF DeinitResourcesCalls
  <2>5. CASE UsesBC1(r)
    BY <2>1, <2>5, OneEncoder, BC1Frees DEF DeinitResourcesCalls
  <2>6. CASE UsesBC4(r)
    BY <2>1, <2>6, OneEncoder, BC4Frees DEF DeinitResourcesCalls
  <2>7. CASE UsesBC6H(r)
    BY <2>1, <2>7, OneEncoder, BC6HFrees DEF DeinitResourcesCalls
  <2> QED
    BY <2>2, <2>3, <2>4, <2>5, <2>6, <2>7, SomeEncoder
<1>2. \A y \in Rest : y[1] = "bound" => y[2] = pso
  BY DEF Rest, CleanFacts
<1>3. \A c \in S : Follows(r, Rest, c, Rest)
  BY <1>2, ObjectSteps
<1>4. S \subseteq OwnCall(e)
  OBVIOUS
<1> HIDE DEF S
<1> QED
  BY <1>1, <1>3, <1>4, LeadsSame

(* What initResources is made of: what the program fields are created from *)
(* is what FileOf says.                                                    *)
InitCall(e, r) ==
  {c \in OwnCall(e) :
     \/ c.op = "destroy"
     \/ /\ c.op = "create" /\ c.name = Object(e, c.name[2])
        /\ c.name[2] \in ProgramField => c.value.fn = FileOf(r, c.name[2])
     \/ c = uploadStagingTexture(Object(e, "stagingTex"), Object(e, "m_srcTexture"))}

(* The wrappers make such calls.                                           *)
LEMMA InitCallMembers ==
  ASSUME NEW e \in Encoder, NEW r
  PROVE  /\ \A f \in Field \ ProgramField :
              /\ createTexture(Object(e, f)) \in InitCall(e, r)
              /\ createTextureArray(Object(e, f)) \in InitCall(e, r)
              /\ createStagingTexture(Object(e, f)) \in InitCall(e, r)
              /\ createUavBuffer(Object(e, f), "etc1_tables") \in InitCall(e, r)
              /\ createUavBuffer(Object(e, f), "bc1_tables") \in InitCall(e, r)
         /\ \A f \in Field, g \in Shader :
              g = FileOf(r, f) => createComputePsoFromFile(Object(e, f), g) \in InitCall(e, r)
         /\ destroy(Object(e, "stagingTex")) \in InitCall(e, r)
         /\ uploadSource(e) \in Seq(InitCall(e, r))
<1>1. ASSUME NEW f \in Field \ ProgramField
      PROVE  /\ createTexture(Object(e, f)) \in InitCall(e, r)
             /\ createTextureArray(Object(e, f)) \in InitCall(e, r)
             /\ createStagingTexture(Object(e, f)) \in InitCall(e, r)
             /\ createUavBuffer(Object(e, f), "etc1_tables") \in InitCall(e, r)
             /\ createUavBuffer(Object(e, f), "bc1_tables") \in InitCall(e, r)
  BY OwnCreate, OwnTables
     DEF InitCall, createTexture, createTextureArray, createStagingTexture, createUavBuffer,
         Object
<1>2. ASSUME NEW f \in Field, NEW g \in Shader, g = FileOf(r, f)
      PROVE  createComputePsoFromFile(Object(e, f), g) \in InitCall(e, r)
  BY <1>2, OwnProgram DEF InitCall, createComputePsoFromFile, Object, Leaf
<1>3. destroy(Object(e, "stagingTex")) \in InitCall(e, r)
  BY OwnBind DEF InitCall, destroy, Field
<1>4. uploadSource(e) \in Seq(InitCall(e, r))
  <2>1. createStagingTexture(Object(e, "stagingTex")) \in InitCall(e, r)
    BY <1>1 DEF Field, ProgramField
  <2>2. uploadStagingTexture(Object(e, "stagingTex"), Object(e, "m_srcTexture"))
          \in InitCall(e, r)
    BY OwnTransfer DEF InitCall, Field
  <2> QED
    BY <2>1, <2>2 DEF uploadSource
<1> QED
  BY <1>1, <1>2, <1>3, <1>4

(* They keep what is known between two methods.                            *)
LEMMA InitCallsLead ==
  ASSUME NEW e \in Encoder, NEW r, NEW s \in Seq(InitCall(e, r)), NEW G,
         G \subseteq KnownAt(r, "initResources")
  PROVE  Leads(e, r, s, KnownAt(r, "initResources"), G)
<1> DEFINE K == KnownAt(r, "initResources")
<1>1. \A y \in K : y[1] = "bound" => y[2] = pso
  BY KnownAtStages DEF CleanFacts, NoProgram, Bound
<1>2. CleanFacts \subseteq K
  BY KnownAtStages
<1> HIDE DEF K
<1>3. ASSUME NEW c \in InitCall(e, r)
      PROVE  Follows(r, K, c, K)
  <2>1. CASE c.op = "destroy"
    BY <1>1, <2>1, ObjectSteps
  <2>2. CASE /\ c.op = "create" /\ c.name = Object(e, c.name[2])
             /\ c.name[2] \in ProgramField => c.value.fn = FileOf(r, c.name[2])
    <3> DEFINE f == c.name[2]
    <3>1. c.op = "create" /\ c.name = Object(e, f)
          /\ (f \in ProgramField => c.value.fn = FileOf(r, f))
      BY <2>2
    <3> HIDE DEF f
    <3> QED
      BY <1>1, <3>1, ObjectSteps
  <2>3. CASE c = uploadStagingTexture(Object(e, "stagingTex"), Object(e, "m_srcTexture"))
    <3>1. Unstored("unpack", "stagingTex") \in K /\ Untouched("upload", "m_srcTexture") \in K
      BY <1>2, InRest DEF Via, Field
    <3>2. "m_srcTexture" \notin ProgramField
      BY DEF ProgramField
    <3> QED
      BY <1>1, <2>3, <3>1, <3>2, ObjectSteps
  <2> QED
    BY <2>1, <2>2, <2>3 DEF InitCall
<1>4. InitCall(e, r) \subseteq OwnCall(e)
  BY DEF InitCall
<1> QED
  BY <1>3, <1>4, LeadsSame DEF K

(* The lists of EncoderETC1 and EncoderETC2.                               *)
LEMMA EtcInitCalls ==
  ASSUME NEW e \in Encoder, NEW r, Has00(r)
  PROVE  /\ UsesETC1(r) => ETC1_initResources(e, r) \in Seq(InitCall(e, r))
         /\ UsesETC2(r) => ETC2_initResources(e, r) \in Seq(InitCall(e, r))
<1> DEFINE S == InitCall(e, r)
           a1 == <<createTexture(Object(e, "m_srcTexture"))>>
           a2 == <<createTexture(Object(e, "m_ditheredTexture")),
                   createComputePsoFromFile(Object(e, "m_ditherPso"), "dither555.glsl")>>
           a3 == <<createTexture(Object(e, "m_compressTargetRes"))>>
           a4 == <<createTexture(Object(e, "m_etc1Error"))>>
           a5 == <<createTexture(Object(e, "m_dstTexture")),
                   createUavBuffer(Object(e, "m_etc1TablesSsbo"), "etc1_tables"),
                   createComputePsoFromFile(Object(e, "m_compressPso"),
                     IF forEtc2(r) THEN "etc1_with_error.glsl" ELSE "etc1.glsl")>>
           a6 == <<createTexture(Object(e, "m_eacTargetRes")),
                   createTexture(Object(e, "m_stitchedTarget")),
                   createComputePsoFromFile(Object(e, "m_eacPso"), "eac.glsl")>>
           a7 == <<createComputePsoFromFile(Object(e, "m_stitchPso"),
                                            "etc2_rgba_stitch.glsl")>>
           a8 == <<destroy(Object(e, "stagingTex"))>>
           b1 == <<createTexture(Object(e, "m_thModesTargetRes")),
                   createTexture(Object(e, "m_thModesError")),
                   createTextureArray(Object(e, "m_thModesC0C1")),
                   createTexture(Object(e, "m_pModeTargetRes")),
                   createTexture(Object(e, "m_pModeError")),
                   createComputePsoFromFile(Object(e, "m_thModesPso"), "etc2_th.glsl"),
                   createComputePsoFromFile(Object(e, "m_thModesFindBestC0C1"),
                                            "etc2_th_find_best_c0c1_k_means.glsl"),
                   createComputePsoFromFile(Object(e, "m_pModePso"), "etc2_p.glsl"),
                   createComputePsoFromFile(Object(e, "m_stitchPso"),
                     IF hasAlpha(r) THEN "etc2_rgba_selector.glsl"
                                    ELSE "etc2_rgb_selector.glsl")>>
<1>1. ~UsesEAC(r) /\ ~UsesBC6H(r) /\ (forEtc2(r) <=> UsesETC2(r))
  BY DEF Has00, UsesETC1, UsesETC2, UsesEAC, UsesBC6H, forEtc2
<1>2. a1 \in Seq(S) /\ a3 \in Seq(S) /\ a4 \in Seq(S)
  BY InitCallMembers DEF Field, ProgramField
<1>3. a2 \in Seq(S)
  <2>1. createComputePsoFromFile(Object(e, "m_ditherPso"), "dither555.glsl") \in S
    BY InitCallMembers DEF Field, Shader, FileOf
  <2>2. createTexture(Object(e, "m_ditheredTexture")) \in S
    BY InitCallMembers DEF Field, ProgramField
  <2> HIDE DEF S
  <2> QED
    BY <2>1, <2>2
<1>4. a5 \in Seq(S)
  <2>1. createComputePsoFromFile(Object(e, "m_compressPso"),
          IF forEtc2(r) THEN "etc1_with_error.glsl" ELSE "etc1.glsl") \in S
    BY <1>1, InitCallMembers DEF Field, Shader, FileOf
  <2>2. /\ createTexture(Object(e, "m_dstTexture")) \in S
        /\ createUavBuffer(Object(e, "m_etc1TablesSsbo"), "etc1_tables") \in S
    BY InitCallMembers DEF Field, ProgramField
  <2> HIDE DEF S
  <2> QED
    BY <2>1, <2>2
<1>5. a6 \in Seq(S)
  <2>1. createComputePsoFromFile(Object(e, "m_eacPso"), "eac.glsl") \in S
    BY <1>1, InitCallMembers DEF Field, Shader, FileOf
  <2>2. /\ createTexture(Object(e, "m_eacTargetRes")) \in S
        /\ createTexture(Object(e, "m_stitchedTarget")) \in S
    BY InitCallMembers DEF Field, ProgramField
  <2> HIDE DEF S
  <2> QED
    BY <2>1, <2>2
<1>6. ~forEtc2(r) => a7 \in Seq(S)
  <2>1. ~forEtc2(r) => createComputePsoFromFile(Object(e, "m_stitchPso"),
                                                "etc2_rgba_stitch.glsl") \in S
    BY <1>1, InitCallMembers DEF Field, Shader, FileOf
  <2> HIDE DEF S
  <2> QED
    BY <2>1
<1>7. a8 \in Seq(S) /\ uploadSource(e) \in Seq(S)
  BY InitCallMembers
<1>8. UsesETC2(r) => b1 \in Seq(S)
  <2>1. /\ createTexture(Object(e, "m_thModesTargetRes")) \in S
        /\ createTexture(Object(e, "m_thModesError")) \in S
        /\ createTextureArray(Object(e, "m_thModesC0C1")) \in S
        /\ createTexture(Object(e, "m_pModeTargetRes")) \in S
        /\ createTexture(Object(e, "m_pModeError")) \in S
    BY InitCallMembers DEF Field, ProgramField
  <2>2. /\ createComputePsoFromFile(Object(e, "m_thModesPso"), "etc2_th.glsl") \in S
        /\ createComputePsoFromFile(Object(e, "m_thModesFindBestC0C1"),
                                    "etc2_th_find_best_c0c1_k_means.glsl") \in S
        /\ createComputePsoFromFile(Object(e, "m_pModePso"), "etc2_p.glsl") \in S
    BY InitCallMembers DEF Field, Shader, FileOf
  <2>3. UsesETC2(r) => createComputePsoFromFile(Object(e, "m_stitchPso"),
                         IF hasAlpha(r) THEN "etc2_rgba_selector.glsl"
                                        ELSE "etc2_rgb_selector.glsl") \in S
    BY InitCallMembers DEF Field, Shader, FileOf
  <2> HIDE DEF S
  <2> QED
    BY <2>1, <2>2, <2>3
<1>9. /\ ETC1_initResources(e, r)
           = a1 \o When(r.dither, a2) \o a3 \o When(forEtc2(r), a4) \o a5
             \o When(hasAlpha(r), a6 \o When(~forEtc2(r), a7))
             \o uploadSource(e) \o a8
      /\ ETC2_initResources(e, r) = ETC1_initResources(e, r) \o b1
  BY DEF ETC1_initResources, ETC2_initResources
<1> HIDE DEF S, a1, a2, a3, a4, a5, a6, a7, a8, b1
<1>10. /\ When(r.dither, a2) \in Seq(S) /\ When(forEtc2(r), a4) \in Seq(S)
       /\ When(hasAlpha(r), a6 \o When(~forEtc2(r), a7)) \in Seq(S)
  BY <1>2, <1>3, <1>5, <1>6, ConcatProperties DEF When
<1>11. ETC1_initResources(e, r) \in Seq(S)
  BY <1>2, <1>4, <1>7, <1>9, <1>10, ConcatProperties
<1>12. UsesETC2(r) => ETC2_initResources(e, r) \in Seq(S)
  BY <1>8, <1>9, <1>11, ConcatProperties
<1> QED
  BY <1>11, <1>12 DEF S

(* The lists of the others.                                                *)
LEMMA EACInitCalls ==
  ASSUME NEW e \in Encoder, NEW r, UsesEAC(r)
  PROVE  EAC_initResources(e, r) \in Seq(InitCall(e, r))
<1> DEFINE S == InitCall(e, r)
           a1 == <<createTexture(Object(e, "m_srcTexture")),
                   createTexture(Object(e, "m_eacTargetRes[0]"))>>
           a2 == <<createTexture(Object(e, "m_eacTargetRes[1]"))>>
           a3 == <<createComputePsoFromFile(Object(e, "m_eacPso"), "eac_r11.glsl")>>
           a4 == <<createTexture(Object(e, "m_stitchedTarget")),
                   createComputePsoFromFile(Object(e, "m_stitchPso"),
                                            "etc2_rgba_stitch.glsl")>>
           a5 == <<destroy(Object(e, "stagingTex"))>>
<1>1. ~UsesETC2(r)
  BY OneEncoder
<1>2. a1 \in Seq(S) /\ a2 \in Seq(S)
  BY InitCallMembers DEF Field, ProgramField
<1>3. a3 \in Seq(S)
  <2>1. createComputePsoFromFile(Object(e, "m_eacPso"), "eac_r11.glsl") \in S
    BY InitCallMembers DEF Field, Shader, FileOf
  <2> HIDE DEF S
  <2> QED
    BY <2>1
<1>4. a4 \in Seq(S)
  <2>1. createComputePsoFromFile(Object(e, "m_stitchPso"), "etc2_rgba_stitch.glsl") \in S
    BY <1>1, InitCallMembers DEF Field, Shader, FileOf
  <2>2. createTexture(Object(e, "m_stitchedTarget")) \in S
    BY InitCallMembers DEF Field, ProgramField
  <2> HIDE DEF S
  <2> QED
    BY <2>1, <2>2
<1>5. a5 \in Seq(S) /\ uploadSource(e) \in Seq(S)
  BY InitCallMembers
<1>6. EAC_initResources(e, r)
        = a1 \o When(rg11(r), a2) \o a3 \o When(rg11(r), a4) \o uploadSource(e) \o a5
  BY DEF EAC_initResources
<1> HIDE DEF S, a1, a2, a3, a4, a5
<1>7. When(rg11(r), a2) \in Seq(S) /\ When(rg11(r), a4) \in Seq(S)
  BY <1>2, <1>4 DEF When
<1>8. EAC_initResources(e, r) \in Seq(S)
  BY <1>2, <1>3, <1>5, <1>6, <1>7, ConcatProperties
<1> QED
  BY <1>8 DEF S

(* EncoderBC1,                                                             *)
LEMMA BC1InitCalls ==
  ASSUME NEW e \in Encoder, NEW r, UsesBC1(r)
  PROVE  BC1_initResources(e, r) \in Seq(InitCall(e, r))
<1> DEFINE S == InitCall(e, r)
           a1 == <<createTexture(Object(e, "m_srcTexture")),
                   createTexture(Object(e, "m_bc1TargetRes")),
                   createTexture(Object(e, "m_dstTexture")),
                   createUavBuffer(Object(e, "m_bc1TablesSsbo"), "bc1_tables"),
                   createComputePsoFromFile(Object(e, "m_bc1Pso"),
                     IF r.dither THEN "bc1_dither.glsl" ELSE "bc1.glsl")>>
           a2 == <<createTexture(Object(e, "m_bc4TargetRes")),
                   createTexture(Object(e, "m_stitchedTarget")),
                   createComputePsoFromFile(Object(e, "m_bc4Pso"), "bc4.glsl"),
                   createComputePsoFromFile(Object(e, "m_stitchPso"),
                                            "etc2_rgba_stitch.glsl")>>
           a3 == <<destroy(Object(e, "stagingTex"))>>
<1>1. ~UsesETC2(r)
  BY OneEncoder
<1>2. a1 \in Seq(S)
  <2>1. /\ createTexture(Object(e, "m_srcTexture")) \in S
        /\ createTexture(Object(e, "m_bc1TargetRes")) \in S
        /\ createTexture(Object(e, "m_dstTexture")) \in S
        /\ createUavBuffer(Object(e, "m_bc1TablesSsbo"), "bc1_tables") \in S
    BY InitCallMembers DEF Field, ProgramField
  <2>2. createComputePsoFromFile(Object(e, "m_bc1Pso"),
          IF r.dither THEN "bc1_dither.glsl" ELSE "bc1.glsl") \in S
    BY InitCallMembers DEF Field, Shader, FileOf
  <2> HIDE DEF S
  <2> QED
    BY <2>1, <2>2
<1>3. a2 \in Seq(S)
  <2>1. /\ createComputePsoFromFile(Object(e, "m_stitchPso"), "etc2_rgba_stitch.glsl") \in S
        /\ createComputePsoFromFile(Object(e, "m_bc4Pso"), "bc4.glsl") \in S
    BY <1>1, InitCallMembers DEF Field, Shader, FileOf
  <2>2. /\ createTexture(Object(e, "m_stitchedTarget")) \in S
        /\ createTexture(Object(e, "m_bc4TargetRes")) \in S
    BY InitCallMembers DEF Field, ProgramField
  <2> HIDE DEF S
  <2> QED
    BY <2>1, <2>2
<1>4. a3 \in Seq(S) /\ uploadSource(e) \in Seq(S)
  BY InitCallMembers
<1>5. BC1_initResources(e, r) = a1 \o When(useBC3(r), a2) \o uploadSource(e) \o a3
  BY DEF BC1_initResources
<1> HIDE DEF S, a1, a2, a3
<1>6. When(useBC3(r), a2) \in Seq(S)
  BY <1>3 DEF When
<1>7. BC1_initResources(e, r) \in Seq(S)
  BY <1>2, <1>4, <1>5, <1>6, ConcatProperties
<1> QED
  BY <1>7 DEF S

(* EncoderBC4                                                              *)
LEMMA BC4InitCalls ==
  ASSUME NEW e \in Encoder, NEW r, UsesBC4(r)
  PROVE  BC4_initResources(e, r) \in Seq(InitCall(e, r))
<1> DEFINE S == InitCall(e, r)
           a1 == <<createTexture(Object(e, "m_srcTexture")),
                   createTexture(Object(e, "m_bc4TargetRes[0]"))>>
           a2 == <<createTexture(Object(e, "m_bc4TargetRes[1]"))>>
           a3 == <<createComputePsoFromFile(Object(e, "m_bc4Pso"), "bc4.glsl")>>
           a4 == <<createTexture(Object(e, "m_stitchedTarget")),
                   createComputePsoFromFile(Object(e, "m_stitchPso"),
                                            "etc2_rgba_stitch.glsl")>>
           a5 == <<createTexture(Object(e, "m_dstTexture"))>>
           a6 == <<destroy(Object(e, "stagingTex"))>>
<1>1. ~UsesETC2(r)
  BY OneEncoder
<1>2. a1 \in Seq(S) /\ a2 \in Seq(S) /\ a5 \in Seq(S)
  BY InitCallMembers DEF Field, ProgramField
<1>3. a3 \in Seq(S)
  <2>1. createComputePsoFromFile(Object(e, "m_bc4Pso"), "bc4.glsl") \in S
    BY InitCallMembers DEF Field, Shader, FileOf
  <2> HIDE DEF S
  <2> QED
    BY <2>1
<1>4. a4 \in Seq(S)
  <2>1. createComputePsoFromFile(Object(e, "m_stitchPso"), "etc2_rgba_stitch.glsl") \in S
    BY <1>1, InitCallMembers DEF Field, Shader, FileOf
  <2>2. createTexture(Object(e, "m_stitchedTarget")) \in S
    BY InitCallMembers DEF Field, ProgramField
  <2> HIDE DEF S
  <2> QED
    BY <2>1, <2>2
<1>5. a6 \in Seq(S) /\ uploadSource(e) \in Seq(S)
  BY InitCallMembers
<1>6. BC4_initResources(e, r)
        = a1 \o When(redGreen(r), a2) \o a3 \o When(redGreen(r), a4) \o a5
          \o uploadSource(e) \o a6
  BY DEF BC4_initResources
<1> HIDE DEF S, a1, a2, a3, a4, a5, a6
<1>7. When(redGreen(r), a2) \in Seq(S) /\ When(redGreen(r), a4) \in Seq(S)
  BY <1>2, <1>4 DEF When
<1>8. BC4_initResources(e, r) \in Seq(S)
  BY <1>2, <1>3, <1>5, <1>6, <1>7, ConcatProperties
<1> QED
  BY <1>8 DEF S

(* and EncoderBC6H, whose staging buffer stays.                            *)
LEMMA BC6HInitCalls ==
  ASSUME NEW e \in Encoder, NEW r, UsesBC6H(r)
  PROVE  BC6H_initResources(e, r) \in Seq(InitCall(e, r))
<1> DEFINE S == InitCall(e, r)
           a1 == <<createTexture(Object(e, "m_srcTexture")),
                   createTexture(Object(e, "m_compressTargetRes")),
                   createTexture(Object(e, "m_dstTexture")),
                   createComputePsoFromFile(Object(e, "m_compressPso"), "bc6h.glsl")>>
<1>1. a1 \in Seq(S)
  <2>1. createComputePsoFromFile(Object(e, "m_compressPso"), "bc6h.glsl") \in S
    BY InitCallMembers DEF Field, Shader, FileOf
  <2>2. /\ createTexture(Object(e, "m_srcTexture")) \in S
        /\ createTexture(Object(e, "m_compressTargetRes")) \in S
        /\ createTexture(Object(e, "m_dstTexture")) \in S
    BY InitCallMembers DEF Field, ProgramField
  <2> HIDE DEF S
  <2> QED
    BY <2>1, <2>2
<1>2. uploadSource(e) \in Seq(S)
  BY InitCallMembers
<1>3. BC6H_initResources(e, r) = a1 \o uploadSource(e)
  BY DEF BC6H_initResources
<1> HIDE DEF S, a1
<1>4. BC6H_initResources(e, r) \in Seq(S)
  BY <1>1, <1>2, <1>3, ConcatProperties
<1> QED
  BY <1>4 DEF S

(* initResources leads to the first method of the loop.                    *)
LEMMA InitLeads ==
  ASSUME NEW e \in Encoder, NEW r \in Request
  PROVE  Leads(e, r, InitResourcesCalls(e, r), KnownAt(r, "initResources"),
               KnownAt(r, LoopStart(r)))
<1>1. KnownAt(r, LoopStart(r)) \subseteq KnownAt(r, "initResources")
  BY DEF KnownAt, SpoiltAt, LoopStart, Has00, UsesETC1, UsesETC2, UsesEAC
<1>2. InitResourcesCalls(e, r) \in Seq(InitCall(e, r))
  <2>1. CASE UsesETC1(r)
    BY <2>1, OneEncoder, EtcInitCalls DEF InitResourcesCalls, Has00
  <2>2. CASE UsesETC2(r)
    BY <2>2, OneEncoder, EtcInitCalls DEF InitResourcesCalls, Has00
  <2>3. CASE UsesEAC(r)
    BY <2>3, OneEncoder, EACInitCalls DEF InitResourcesCalls
  <2>4. CASE UsesBC1(r)
    BY <2>4, OneEncoder, BC1InitCalls DEF InitResourcesCalls
  <2>5. CASE UsesBC4(r)
    BY <2>5, OneEncoder, BC4InitCalls DEF InitResourcesCalls
  <2>6. CASE UsesBC6H(r)
    BY <2>6, OneEncoder, BC6HInitCalls DEF InitResourcesCalls
  <2> QED
    BY <2>1, <2>2, <2>3, <2>4, <2>5, <2>6, SomeEncoder
<1> QED
  BY <1>1, <1>2, InitCallsLead

(* What a request says of the encoder it runs.                             *)
LEMMA RequestFields ==
  ASSUME NEW r \in Request
  PROVE  /\ r.dither \in BOOLEAN /\ r.usingRenderDoc \in BOOLEAN /\ r.quality \in Int
         /\ Has00(r) <=> UsesETC1(r) \/ UsesETC2(r)
         /\ Has02(r) <=> ~UsesBC6H(r)
         /\ Loops(r) <=> ~(UsesEAC(r) \/ UsesBC6H(r))
BY RequestAssumption DEF Has00, Has02, Loops

(* The dithering step leads to the search.                                 *)
LEMMA Execute00Leads ==
  ASSUME NEW e \in Encoder, NEW r \in Request, Has00(r)
  PROVE  Leads(e, r, IF UsesETC1(r) THEN ETC1_execute00(e, r) ELSE ETC2_execute00(e, r),
               KnownAt(r, "execute00"), KnownAt(r, "execute01"))
<1>1. KnownAt(r, "execute00") = CleanFacts
  BY KnownAtStages
<1>2. r.dither \in BOOLEAN
  BY RequestFields
<1>3. CASE UsesETC1(r)
  <2>1. Leads(e, r, ETC1_execute00(e, r), CleanFacts, DitherFacts)
    BY <1>2, ETC1_execute00Leads
  <2>2. KnownAt(r, "execute01") \subseteq DitherFacts
    BY KnownOfEtc
  <2>3. Leads(e, r, ETC1_execute00(e, r), CleanFacts, KnownAt(r, "execute01"))
    BY <2>1, <2>2, LeadsWeaker
  <2> QED
    BY <1>1, <1>3, <2>3
<1>4. CASE ~UsesETC1(r)
  <2>1. UsesETC2(r)
    BY <1>4 DEF Has00
  <2>2. Leads(e, r, ETC2_execute00(e, r), CleanFacts, KnownAt(r, "execute01"))
    BY <1>2, <2>1, ETC2_execute00Leads
  <2> QED
    BY <1>1, <1>4, <2>2
<1> QED
  BY <1>3, <1>4

(* The search leads to the stitching, or to the download.                  *)
LEMMA Execute01Leads ==
  ASSUME NEW e \in Encoder, NEW r \in Request
  PROVE  /\ Has02(r) => Leads(e, r, Execute01Calls(e, r), KnownAt(r, "execute01"),
                              KnownAt(r, "execute02"))
         /\ ~Has02(r) => Leads(e, r, Execute01Calls(e, r), KnownAt(r, "execute01"), Rest)
<1>1. r.quality \in Int /\ (Has02(r) <=> ~UsesBC6H(r))
  BY RequestFields
<1>2. CASE UsesETC1(r)
  <2>1. Execute01Calls(e, r) = ETC1_execute01(e, r)
    BY <1>2, OneEncoder DEF Execute01Calls
  <2>2. Has00(r) /\ ~UsesETC2(r) /\ ~UsesBC6H(r)
    BY <1>2, OneEncoder DEF Has00
  <2>3. KnownAt(r, "execute02") \subseteq EtcFacts(r)
    <3>1. KnownAt(r, "execute02") = StitchFacts
      BY <2>2, KnownAtStages
    <3> QED
      BY <3>1 DEF EtcFacts, StitchFacts
  <2>4. Leads(e, r, ETC1_execute01(e, r), KnownAt(r, "execute01"), EtcFacts(r))
    BY <1>1, <2>2, ETC1_execute01Leads
  <2>5. Leads(e, r, ETC1_execute01(e, r), KnownAt(r, "execute01"), KnownAt(r, "execute02"))
    BY <2>3, <2>4, LeadsWeaker
  <2> QED
    BY <1>1, <2>1, <2>2, <2>5
<1>3. CASE UsesETC2(r)
  <2>1. Execute01Calls(e, r) = ETC2_execute01(e, r)
    BY <1>3, OneEncoder DEF Execute01Calls
  <2>2. KnownAt(r, "execute02") = Rest /\ ~UsesBC6H(r)
    BY <1>3, KnownAtStages, OneEncoder
  <2>3. Leads(e, r, ETC2_execute01(e, r), KnownAt(r, "execute01"), Rest)
    BY <1>1, <1>3, ETC2_execute01Leads
  <2> QED
    BY <1>1, <2>1, <2>2, <2>3
<1>4. CASE UsesEAC(r)
  <2>1. Execute01Calls(e, r) = EAC_execute01(e, r) /\ ~UsesBC6H(r)
    BY <1>4, OneEncoder DEF Execute01Calls
  <2>2. Leads(e, r, EAC_execute01(e, r), KnownAt(r, "execute01"), KnownAt(r, "execute02"))
    BY <1>4, EACLeads
  <2> QED
    BY <1>1, <2>1, <2>2
<1>5. CASE UsesBC1(r)
  <2>1. Execute01Calls(e, r) = BC1_execute01(e, r) /\ ~UsesBC6H(r)
    BY <1>5, OneEncoder DEF Execute01Calls
  <2>2. Leads(e, r, BC1_execute01(e, r), KnownAt(r, "execute01"), KnownAt(r, "execute02"))
    BY <1>5, BC1Leads
  <2> QED
    BY <1>1, <2>1, <2>2
<1>6. CASE UsesBC4(r)
  <2>1. Execute01Calls(e, r) = BC4_execute01(e, r) /\ ~UsesBC6H(r)
    BY <1>6, OneEncoder DEF Execute01Calls
  <2>2. Leads(e, r, BC4_execute01(e, r), KnownAt(r, "execute01"), KnownAt(r, "execute02"))
    BY <1>6, BC4Leads
  <2> QED
    BY <1>1, <2>1, <2>2
<1>7. CASE UsesBC6H(r)
  <2>1. Execute01Calls(e, r) = BC6H_execute01(e, r)
    BY <1>7, OneEncoder DEF Execute01Calls
  <2>2. Leads(e, r, BC6H_execute01(e, r), KnownAt(r, "execute01"), Rest)
    BY <1>7, BC6HLeads
  <2> QED
    BY <1>1, <1>7, <2>1, <2>2
<1> QED
  BY <1>2, <1>3, <1>4, <1>5, <1>6, <1>7, SomeEncoder

(* The stitching leads to the download.                                    *)
LEMMA Execute02Leads ==
  ASSUME NEW e \in Encoder, NEW r \in Request, Has02(r)
  PROVE  Leads(e, r, Execute02Calls(e, r), KnownAt(r, "execute02"), Rest)
<1>2. CASE UsesETC1(r)
  <2>1. Execute02Calls(e, r) = ETC1_execute02(e, r) /\ ~UsesETC2(r)
    BY <1>2, OneEncoder DEF Execute02Calls
  <2>2. KnownAt(r, "execute02") = StitchFacts
    BY <2>1, KnownAtStages
  <2> QED
    BY <1>2, <2>1, <2>2, ETC1EndLeads
<1>3. CASE UsesETC2(r)
  <2>1. Execute02Calls(e, r) = ETC2_execute02(e, r)
    BY <1>3, OneEncoder DEF Execute02Calls
  <2>2. KnownAt(r, "execute02") = Rest
    BY <1>3, KnownAtStages
  <2> QED
    BY <1>3, <2>1, <2>2, ETC2_execute02Leads
<1>4. CASE UsesEAC(r)
  <2>1. Execute02Calls(e, r) = EAC_execute02(e, r)
    BY <1>4, OneEncoder DEF Execute02Calls
  <2> QED
    BY <1>4, <2>1, EACLeads
<1>5. CASE UsesBC1(r)
  <2>1. Execute02Calls(e, r) = BC1_execute02(e, r)
    BY <1>5, OneEncoder DEF Execute02Calls
  <2> QED
    BY <1>5, <2>1, BC1Leads
<1>6. CASE UsesBC4(r)
  <2>1. Execute02Calls(e, r) = BC4_execute02(e, r)
    BY <1>6, OneEncoder DEF Execute02Calls
  <2> QED
    BY <1>6, <2>1, BC4Leads
<1> QED
  BY <1>2, <1>3, <1>4, <1>5, <1>6, SomeEncoder DEF Has02

(* The copy that ends an iteration leads to the next one.                  *)
LEMMA Execute03Leads ==
  ASSUME NEW e \in Encoder, NEW r \in Request, Loops(r), r.usingRenderDoc
  PROVE  Leads(e, r, Execute03Calls(e, r), Rest, KnownAt(r, LoopStart(r)))
<1>1. KnownAt(r, "execute00") = CleanFacts
  BY KnownAtStages
<1>2. CASE UsesETC1(r)
  <2>1. Execute03Calls(e, r) = ETC1_execute03(e, r)
    BY <1>2, OneEncoder DEF Execute03Calls
  <2>2. LoopStart(r) = "execute00"
    BY <1>2 DEF LoopStart, Has00
  <2> QED
    BY <1>1, <1>2, <2>1, <2>2, ETC1EndLeads
<1>3. CASE UsesETC2(r)
  <2>1. Execute03Calls(e, r) = ETC2_execute03(e, r)
    BY <1>3, OneEncoder DEF Execute03Calls
  <2>2. LoopStart(r) = "execute00"
    BY <1>3 DEF LoopStart, Has00
  <2> QED
    BY <1>1, <1>3, <2>1, <2>2, ETC2_execute03Leads
<1>4. CASE UsesBC1(r)
  <2>1. Execute03Calls(e, r) = BC1_execute03(e, r)
    BY <1>4, OneEncoder DEF Execute03Calls
  <2>2. LoopStart(r) = "execute01"
    BY <1>4, OneEncoder DEF LoopStart, Has00
  <2> QED
    BY <1>4, <2>1, <2>2, BC1Leads
<1>5. CASE UsesBC4(r)
  <2>1. Execute03Calls(e, r) = BC4_execute03(e, r)
    BY <1>5, OneEncoder DEF Execute03Calls
  <2>2. LoopStart(r) = "execute01"
    BY <1>5, OneEncoder DEF LoopStart, Has00
  <2> QED
    BY <1>5, <2>1, <2>2, BC4Leads
<1> QED
  BY <1>2, <1>3, <1>4, <1>5, SomeEncoder DEF Loops

-----------------------------------------------------------------------------
(* The schedule.  eac_r11.glsl does not compile, so that EncoderEAC        *)
(* dispatches whatever program is in use: it has to be alone, which leaves *)
(* none.                                                                   *)
EACRunsAlone == \A e \in Encoder : UsesEAC(request[e]) => Encoder = {e}

(* Of an encoder none of whose calls are under way it is known what its    *)
(* stage says.                                                             *)
Idle(e) == Knows(e, KnownAt(request[e], stage[e]))

(* Of the encoder whose method runs it will be, once its calls are issued. *)
Current(d) ==
  \E A : Knows(d, A) /\ Leads(d, request[d], calls, A, KnownAt(request[d], stage[d]))

(* One method is under way at a time.                                      *)
OneIsCurrent == \E d \in Encoder : Current(d) /\ \A e \in Encoder \ {d} : Idle(e)

(* The third step of the loop is reached under RenderDoc only, which is    *)
(* what asks for a second iteration.                                       *)
LoopFits(e) ==
  ~request[e].usingRenderDoc => repeat[e] <= 1 /\ stage[e] # "execute03"

(* The invariant.                                                          *)
HazardInvariant ==
  /\ ProgramsFit
  /\ QueueFits(stream, request)
  /\ \A e \in Encoder : LoopFits(e)
  /\ IF calls = <<>> THEN \A e \in Encoder : Idle(e) ELSE OneIsCurrent

(* Nothing more is known after no call.                                    *)
LEMMA LeadsNothing ==
  ASSUME NEW e, NEW r, NEW F, NEW G, Leads(e, r, <<>>, F, G)
  PROVE  G \subseteq F
<1>1. PICK T : T[1] \subseteq F /\ G \subseteq T[Len(<<>>) + 1]
  BY DEF Leads
<1>2. Len(<<>>) + 1 = 1
  OBVIOUS
<1> QED
  BY <1>1, <1>2

(* What is known of more is known of less.                                 *)
LEMMA KnowsLess ==
  ASSUME NEW e, NEW F, Knows(e, F), NEW G, G \subseteq F
  PROVE  Knows(e, G)
BY DEF Knows

(* With one method under way the schedule is as wanted.                    *)
LEMMA CurrentIsScheduled ==
  ASSUME OneIsCurrent
  PROVE  IF calls = <<>> THEN \A e \in Encoder : Idle(e) ELSE OneIsCurrent
<1>1. PICK d \in Encoder : Current(d) /\ \A e \in Encoder \ {d} : Idle(e)
  BY DEF OneIsCurrent
<1>2. CASE calls = <<>>
  <2>1. PICK A : Knows(d, A) /\ Leads(d, request[d], calls, A, KnownAt(request[d], stage[d]))
    BY <1>1 DEF Current
  <2>2. KnownAt(request[d], stage[d]) \subseteq A
    BY <1>2, <2>1, LeadsNothing
  <2>3. Idle(d)
    BY <2>1, <2>2, KnowsLess DEF Idle
  <2> QED
    BY <1>1, <1>2, <2>3
<1> QED
  BY <1>2

(* A method leads from what is known at its stage to what is known at the  *)
(* next.                                                                   *)
LEMMA MethodLeads ==
  ASSUME TypeInvariant, NEW d \in Encoder, Method(d), StageFits(d), LoopFits(d)
  PROVE  /\ Leads(d, request[d], calls', KnownAt(request[d], stage[d]),
                  KnownAt(request[d], stage'[d]))
         /\ LoopFits(d)'
<1> DEFINE r == request[d]
           here == stage[d]
           there == stage'[d]
<1>1. r \in Request /\ stage \in [Encoder -> Stages] /\ repeat \in [Encoder -> 0 .. 2]
  BY DEF TypeInvariant, TypeOK
<1>2. request' = request
  BY DEF Method, Enter, InitResources, Execute00, Execute01, Execute02,
     Execute03, StartDownload, DownloadTo, Save, DeinitResources
<1>3. /\ \A s : GoTo(d, s) => there = s
      /\ UNCHANGED repeat => repeat'[d] = repeat[d]
      /\ r.usingRenderDoc \in BOOLEAN
      /\ LoopStart(r) # "execute03"
  BY <1>1, RequestFields DEF GoTo, LoopStart
<1>4. ASSUME NEW s, GoTo(d, s), s # "execute03", UNCHANGED repeat PROVE LoopFits(d)'
  BY <1>2, <1>3, <1>4 DEF LoopFits
<1>5. ASSUME EndOfIteration(d)
      PROVE  /\ LoopFits(d)'
             /\ there = "startDownload" \/ (there = LoopStart(r) /\ Loops(r) /\ r.usingRenderDoc)
  <2>1. repeat'[d] = repeat[d] - 1 /\ repeat[d] \in 0 .. 2
    BY <1>1, <1>5 DEF EndOfIteration
  <2>2. there = IF Loops(r) /\ repeat[d] > 1 THEN LoopStart(r) ELSE "startDownload"
    BY <1>3, <1>5 DEF EndOfIteration
  <2>3. repeat[d] > 1 => r.usingRenderDoc
    BY <2>1 DEF LoopFits
  <2> QED
    BY <1>2, <1>3, <2>1, <2>2, <2>3 DEF LoopFits
<1>6. \A s \in {"execute03", "startDownload", "downloadTo", "save", "deinitResources",
                "done"} : KnownAt(r, s) = Rest
  BY KnownAtStages
<1>7. CASE InitResources(d)
  <2>1. /\ here = "initResources" /\ calls' = InitResourcesCalls(d, r)
        /\ GoTo(d, LoopStart(r)) /\ UNCHANGED repeat
    BY <1>7 DEF InitResources, Enter
  <2> QED
    BY <1>1, <1>3, <1>4, <2>1, InitLeads
<1>8. CASE Execute00(d)
  <2>1. /\ here = "execute00" /\ GoTo(d, "execute01") /\ UNCHANGED repeat
        /\ calls' = IF UsesETC1(r) THEN ETC1_execute00(d, r) ELSE ETC2_execute00(d, r)
    BY <1>8 DEF Execute00, Enter
  <2>2. Has00(r) /\ there = "execute01"
    BY <1>3, <2>1 DEF StageFits
  <2> QED
    BY <1>1, <1>4, <2>1, <2>2, Execute00Leads
<1>9. CASE Execute01(d)
  <2>1. here = "execute01" /\ calls' = Execute01Calls(d, r)
    BY <1>9 DEF Execute01, Enter
  <2>2. CASE Has02(r)
    <3>1. GoTo(d, "execute02") /\ UNCHANGED repeat
      BY <1>9, <2>2 DEF Execute01
    <3>2. there = "execute02"
      BY <1>3, <3>1
    <3> QED
      BY <1>1, <1>4, <2>1, <2>2, <3>1, <3>2, Execute01Leads
  <2>3. CASE ~Has02(r)
    <3>1. EndOfIteration(d)
      BY <1>9, <2>3 DEF Execute01
    <3>2. ~Loops(r)
      BY <2>3 DEF Has02, Loops
    <3>3. there = "startDownload"
      BY <1>5, <3>1, <3>2
    <3> QED
      BY <1>1, <1>5, <1>6, <2>1, <2>3, <3>1, <3>3, Execute01Leads
  <2> QED
    BY <2>2, <2>3
<1>10. CASE Execute02(d)
  <2>1. here = "execute02" /\ calls' = Execute02Calls(d, r) /\ Has02(r)
    BY <1>10 DEF Execute02, Enter, StageFits
  <2>2. there \in {"execute03", "startDownload"} /\ LoopFits(d)'
    <3>1. CASE r.usingRenderDoc /\ Loops(r)
      <4>1. GoTo(d, "execute03")
        BY <1>10, <3>1 DEF Execute02
      <4>2. there = "execute03"
        BY <1>3, <4>1
      <4> QED
        BY <1>2, <3>1, <4>2 DEF LoopFits
    <3>2. CASE ~(r.usingRenderDoc /\ Loops(r))
      <4>1. EndOfIteration(d)
        BY <1>10, <3>2 DEF Execute02
      <4> QED
        BY <1>5, <3>2, <4>1
    <3> QED
      BY <3>1, <3>2
  <2>3. KnownAt(r, there) = Rest
    BY <1>6, <2>2
  <2> QED
    BY <1>1, <2>1, <2>2, <2>3, Execute02Leads
<1>11. CASE Execute03(d)
  <2>1. here = "execute03" /\ calls' = Execute03Calls(d, r) /\ EndOfIteration(d)
    BY <1>11 DEF Execute03, Enter
  <2>2. Loops(r) /\ r.usingRenderDoc
    BY <1>3, <2>1 DEF StageFits, LoopFits
  <2>3. Leads(d, r, Execute03Calls(d, r), Rest, KnownAt(r, LoopStart(r)))
    BY <1>1, <2>2, Execute03Leads
  <2>4. KnownAt(r, here) = Rest /\ KnownAt(r, "startDownload") = Rest
    BY <1>6, <2>1
  <2>5. Rest \subseteq KnownAt(r, LoopStart(r))
    BY RestIsKnown
  <2>6. Leads(d, r, Execute03Calls(d, r), Rest, Rest)
    BY <2>3, <2>5, LeadsWeaker
  <2> QED
    BY <1>5, <2>1, <2>3, <2>4, <2>6
<1>12. CASE StartDownload(d)
  <2>1. /\ here = "startDownload" /\ calls' = StartDownloadCalls(d, r)
        /\ GoTo(d, "downloadTo") /\ UNCHANGED repeat
    BY <1>12 DEF StartDownload, Enter
  <2>2. KnownAt(r, here) = Rest /\ KnownAt(r, there) = Rest
    BY <1>3, <1>6, <2>1
  <2> QED
    BY <1>1, <1>4, <2>1, <2>2, StartDownloadLeads
<1>13. CASE DownloadTo(d)
  <2>1. /\ here = "downloadTo" /\ calls' = <<glFinish>>
        /\ GoTo(d, "save") /\ UNCHANGED repeat
    BY <1>13 DEF DownloadTo, Enter
  <2>2. KnownAt(r, here) = Rest /\ KnownAt(r, there) = Rest
    BY <1>3, <1>6, <2>1
  <2>3. glFinish \in OwnCall(d) /\ Follows(r, Rest, glFinish, Rest)
    <3>1. Follows(r, Rest, glFinish, Rest)
      BY DEF Follows, PlainStep, glFinish
    <3> QED
      BY <3>1 DEF OwnCall, Call, glFinish
  <2>4. Leads(d, r, <<glFinish>>, Rest, Rest)
    BY <2>3, LeadsOne
  <2> QED
    BY <1>4, <2>1, <2>2, <2>4
<1>14. CASE Save(d)
  <2>1. /\ here = "save" /\ calls' = <<>>
        /\ GoTo(d, "deinitResources") /\ UNCHANGED repeat
    BY <1>14 DEF Save, Enter
  <2>2. KnownAt(r, here) = Rest /\ KnownAt(r, there) = Rest
    BY <1>3, <1>6, <2>1
  <2> QED
    BY <1>4, <2>1, <2>2, LeadsNowhere
<1>15. CASE DeinitResources(d)
  <2>1. /\ here = "deinitResources" /\ calls' = DeinitResourcesCalls(d, r)
        /\ GoTo(d, "done") /\ UNCHANGED repeat
    BY <1>15 DEF DeinitResources, Enter
  <2>2. KnownAt(r, here) = Rest /\ KnownAt(r, there) = Rest
    BY <1>3, <1>6, <2>1
  <2> QED
    BY <1>1, <1>4, <2>1, <2>2, DeinitLeads
<1> QED
  BY <1>7, <1>8, <1>9, <1>10, <1>11, <1>12, <1>13, <1>14, <1>15 DEF Method

-----------------------------------------------------------------------------
(* The program starts with nothing bound, queued or written...             *)
LEMMA InitHazards == Init => HazardInvariant
<1> SUFFICES ASSUME Init PROVE HazardInvariant
  OBVIOUS
<1>1. /\ calls = <<>> /\ stream = <<>> /\ ctx = NoContext /\ live = {}
      /\ mem = [o \in GLObject |-> Undefined]
      /\ \A e \in Encoder : /\ stage[e] = "initResources"
                            /\ repeat[e] = IF request[e].usingRenderDoc THEN 2 ELSE 1
  BY DEF Init
<1>2. ProgramsFit
  <2>1. \A e \in Encoder : \A f \in ProgramField : Object(e, f) \in GLObject
    BY DEF GLObject, Object, ProgramField, Field
  <2>2. \A o \in GLObject : mem[o].fn = "undefined" /\ o \notin live
    BY <1>1 DEF Undefined, Leaf
  <2> QED
    BY <2>1, <2>2 DEF ProgramsFit
<1>3. GpuOps(stream) = {}
  BY <1>1 DEF GpuOps
<1>4. QueueFits(stream, request)
  BY <1>3 DEF QueueFits, OrderedIn, OwnedIn, ProgramsKeptIn
<1>5. \A e \in Encoder : LoopFits(e)
  BY <1>1 DEF LoopFits
<1>6. ASSUME NEW e \in Encoder PROVE Idle(e)
  <2>1. KnownAt(request[e], "initResources") \subseteq CleanFacts \cup {NoProgram}
    BY KnownAtStages
  <2>2. ASSUME NEW x \in CleanFacts \cup {NoProgram}
        PROVE  /\ x[1] = "bound" /\ x[2] \in Unit => NameAt(ctx, x[2]) = HeldName(e, x[3])
               /\ x[1] \in {"unstored", "untouched"} => CleanIn(stream, request, e, x)
    <3>1. CASE x \in CleanFacts
      <4>1. x[1] # "bound"
        BY <3>1 DEF CleanFacts
      <4> QED
        BY <1>3, <4>1 DEF CleanIn
    <3>2. CASE x = NoProgram
      <4>1. x[1] = "bound" /\ x[2] = pso /\ x[3] = Null
        BY <3>2 DEF NoProgram, Bound
      <4>2. NameAt(ctx, pso) = NoObject
        BY <1>1 DEF NameAt, pso, NoContext
      <4> QED
        BY <4>1, <4>2 DEF HeldName
    <3> QED
      BY <3>1, <3>2
  <2> QED
    BY <1>1, <2>1, <2>2 DEF Idle, Knows
<1> QED
  BY <1>1, <1>2, <1>4, <1>5, <1>6 DEF HazardInvariant

(* No call names an object that does not exist.                            *)
LEMMA NamesAreLive == TypeInvariant /\ LifetimeInvariant => CallsNameLiveObjects
<1> SUFFICES ASSUME TypeOK, LifetimeInvariant, calls # <<>>
             PROVE  /\ call.op \in {"destroy", "bindTexture", "bindUav", "bindUavBuffer",
                                    "bindComputePso"} => call.name \in live
                    /\ call.op \in {"copy", "upload", "download"} =>
                         {call.src, call.dst} \subseteq live
  BY DEF TypeInvariant, CallsNameLiveObjects
<1>1. 1 \in DOMAIN calls /\ call = calls[1] /\ \A m \in DOMAIN calls : m \in Int /\ 1 <= m
  <2>1. calls \in Seq(Call(Encoder \X Field))
    BY DEF TypeOK
  <2>2. Len(calls) \in Nat \ {0} /\ DOMAIN calls = 1 .. Len(calls)
    BY <2>1, EmptySeq, LenProperties
  <2> QED
    BY <2>2 DEF call
<1>2. \A o \in Named(call) : ExistsAt(calls, live, 1, o)
  BY <1>1 DEF LifetimeInvariant, Finds
<1>3. Named(call) \subseteq live
  BY <1>1, <1>2 DEF ExistsAt
<1> QED
  BY <1>3 DEF Named

(* ... a method starts from what is known at its stage...                  *)
LEMMA MethodHazards ==
  ASSUME TypeInvariant, LifetimeInvariant, HazardInvariant, NEW d \in Encoder, Method(d)
  PROVE  HazardInvariant'
<1>1. /\ calls = <<>> /\ UNCHANGED <<request, ctx, live, mem, stream>>
      /\ \A e \in Encoder \ {d} : stage'[e] = stage[e] /\ repeat'[e] = repeat[e]
  <2>1. /\ stage \in [Encoder -> Stages] /\ repeat \in [Encoder -> 0 .. 2]
    BY DEF TypeInvariant, TypeOK
  <2> QED
    BY <2>1 DEF Method, Enter, InitResources, Execute00, Execute01, Execute02, GoTo,
       Execute03, StartDownload, DownloadTo, Save, DeinitResources, EndOfIteration
<1>2. ProgramsFit' /\ QueueFits(stream, request)'
  BY <1>1 DEF HazardInvariant, ProgramsFit, QueueFits, OrderedIn, OwnedIn, ProgramsKeptIn
<1>3. \A e, F : Knows(e, F) => Knows(e, F)'
  BY <1>1 DEF Knows
<1>4. StageFits(d) /\ LoopFits(d) /\ \A e \in Encoder : Idle(e)
  BY <1>1 DEF HazardInvariant, LifetimeInvariant
<1>5. /\ Leads(d, request[d], calls', KnownAt(request[d], stage[d]),
               KnownAt(request[d], stage'[d]))
      /\ LoopFits(d)'
  BY <1>4, MethodLeads
<1>6. Current(d)'
  BY <1>1, <1>3, <1>4, <1>5 DEF Current, Idle
<1>7. ASSUME NEW e \in Encoder \ {d} PROVE Idle(e)' /\ LoopFits(e)'
  <2>1. KnownAt(request[e], stage[e])' = KnownAt(request[e], stage[e])
    BY <1>1
  <2> QED
    BY <1>1, <1>3, <1>4, <2>1 DEF Idle, LoopFits, HazardInvariant
<1>8. OneIsCurrent'
  BY <1>6, <1>7 DEF OneIsCurrent
<1>9. (IF calls = <<>> THEN \A e \in Encoder : Idle(e) ELSE OneIsCurrent)'
  BY <1>8, CurrentIsScheduled, PTL
<1> QED
  BY <1>2, <1>5, <1>7, <1>9 DEF HazardInvariant

(* Where the operations stand once one has been removed.                   *)
LEMMA WithoutPositions ==
  ASSUME NEW S, NEW s \in Seq(S), NEW i \in DOMAIN s
  PROVE  LET t == Without(s, i)
         IN  /\ Len(t) = Len(s) - 1 /\ DOMAIN t = 1 .. (Len(s) - 1)
             /\ \A k \in DOMAIN t : t[k] = s[Before(i, k)]
<1> DEFINE front == SubSeq(s, 1, i - 1)
           back == SubSeq(s, i + 1, Len(s))
<1>1. Len(s) \in Nat /\ DOMAIN s = 1 .. Len(s) /\ i \in 1 .. Len(s)
  BY LenProperties
<1>2. \A k \in 1 .. Len(s) : s[k] \in S
  BY ElementOfSeq
<1>3. /\ front \in Seq(S) /\ Len(front) = i - 1
      /\ \A k \in 1 .. (i - 1) : front[k] = s[k]
  <2>1. \A k \in 1 .. (i - 1) : s[k] \in S
    BY <1>1, <1>2
  <2> QED
    BY <1>1, <2>1, SubSeqProperties
<1>4. /\ back \in Seq(S) /\ Len(back) = Len(s) - i
      /\ \A k \in 1 .. (Len(s) - i) : back[k] = s[i + k]
  <2>1. \A k \in (i + 1) .. Len(s) : s[k] \in S
    BY <1>1, <1>2
  <2> QED
    BY <1>1, <2>1, SubSeqProperties
<1>5. /\ front \o back \in Seq(S)
      /\ Len(front \o back) = Len(front) + Len(back)
      /\ \A k \in 1 .. Len(front) + Len(back) :
           (front \o back)[k] = IF k <= Len(front) THEN front[k] ELSE back[k - Len(front)]
  BY <1>3, <1>4, ConcatProperties
<1>6. Without(s, i) = front \o back
  BY DEF Without
<1> HIDE DEF front, back
<1>7. Len(front) + Len(back) = Len(s) - 1
  BY <1>1, <1>3, <1>4
<1>8. Len(front \o back) = Len(s) - 1 /\ DOMAIN (front \o back) = 1 .. (Len(s) - 1)
  <2>1. Len(front \o back) = Len(s) - 1
    BY <1>5, <1>7
  <2> QED
    BY <1>5, <2>1, LenProperties
<1>9. ASSUME NEW k \in 1 .. (Len(s) - 1) PROVE (front \o back)[k] = s[Before(i, k)]
  <2>1. k \in 1 .. Len(front) + Len(back)
    BY <1>7
  <2>2. CASE k < i
    <3>1. (front \o back)[k] = front[k] /\ k \in 1 .. (i - 1)
      BY <1>1, <1>3, <1>5, <2>1, <2>2
    <3> QED
      BY <1>3, <2>2, <3>1 DEF Before
  <2>3. CASE ~(k < i)
    <3> DEFINE j == k - (i - 1)
    <3>1. j \in 1 .. (Len(s) - i) /\ i + j = k + 1
      BY <1>1, <2>3
    <3>2. (front \o back)[k] = back[j]
      BY <1>1, <1>3, <1>5, <2>1, <2>3
    <3>3. back[j] = s[k + 1]
      BY <1>4, <3>1
    <3> QED
      BY <2>3, <3>2, <3>3 DEF Before
  <2> QED
    BY <2>2, <2>3
<1> QED
  BY <1>6, <1>8, <1>9

(* The GPU takes one entry out of the queue...                             *)
LEMMA GPURemoves ==
  ASSUME TypeOK, GPU
  PROVE  \E i \in DOMAIN stream : Removed(stream, i, stream')
<1>1. CASE RetireBarrier
  <2>1. /\ stream \in Seq(GpuOp) /\ stream # <<>> /\ stream' = Tail(stream)
    BY <1>1 DEF RetireBarrier, TypeOK
  <2>2. Len(stream) \in Nat \ {0} /\ DOMAIN stream = 1 .. Len(stream)
    BY <2>1, EmptySeq, LenProperties
  <2>3. /\ Len(stream') = Len(stream) - 1
        /\ DOMAIN stream' = 1 .. (Len(stream) - 1)
        /\ \A k \in DOMAIN stream' : stream'[k] = stream[k + 1]
    BY <2>1, <2>2, HeadTailProperties, LenProperties
  <2>4. \A k \in DOMAIN stream' : Before(1, k) = k + 1
    BY <2>2, <2>3 DEF Before
  <2>5. Removed(stream, 1, stream')
    BY <2>2, <2>3, <2>4 DEF Removed
  <2> QED
    BY <2>2, <2>5
<1>2. ASSUME NEW i \in DOMAIN stream, Execute(i)
      PROVE  \E k \in DOMAIN stream : Removed(stream, k, stream')
  <2>1. stream \in Seq(GpuOp) /\ stream' = Without(stream, i) /\ stream[i].kind # "barrier"
    BY <1>2 DEF TypeOK, Execute, CanExecute, GpuOps
  <2>2. /\ Len(stream') = Len(stream) - 1 /\ DOMAIN stream' = 1 .. (Len(stream) - 1)
        /\ \A k \in DOMAIN stream' : stream'[k] = stream[Before(i, k)]
    BY <2>1, WithoutPositions
  <2> QED
    BY <2>1, <2>2 DEF Removed
<1> QED
  BY <1>1, <1>2 DEF GPU

(* ... and leaves the programs as they are.                                *)
LEMMA GPUKeepsPrograms ==
  ASSUME TypeOK, ProgramsFit, ProgramsKeptIn(stream), GPU
  PROVE  ProgramsFit'
<1>1. request' = request /\ live' = live
  BY DEF GPU, RetireBarrier, Execute, context
<1>2. CASE RetireBarrier
  BY <1>1, <1>2 DEF RetireBarrier, ProgramsFit
<1>3. ASSUME NEW i \in DOMAIN stream, Execute(i) PROVE ProgramsFit'
  <2>1. i \in GpuOps(stream) /\ mem' = AfterOp(mem, stream[i])
    BY <1>3 DEF Execute, CanExecute
  <2>2. \A o \in Written(stream[i]) : o[2] \notin ProgramField
    BY <2>1 DEF ProgramsKeptIn
  <2>3. ASSUME NEW e \in Encoder, NEW f \in ProgramField
        PROVE  mem'[Object(e, f)] = mem[Object(e, f)]
    <3>1. Object(e, f)[2] = f /\ Object(e, f) \in GLObject
      BY DEF Object, GLObject, ProgramField, Field
    <3>2. Object(e, f) \notin Written(stream[i])
      BY <2>2, <3>1
    <3>3. ~\E u \in DOMAIN stream[i].out : stream[i].out[u].name = Object(e, f)
      BY <3>2 DEF Written, WritesOf
    <3>4. Object(e, f) \in DOMAIN mem
      BY <3>1 DEF TypeOK
    <3> QED
      BY <2>1, <3>3, <3>4 DEF AfterOp
  <2> QED
    BY <1>1, <2>3 DEF ProgramsFit
<1> QED
  BY <1>2, <1>3 DEF GPU

(* ... the GPU only removes...                                             *)
LEMMA GPUHazards ==
  ASSUME TypeInvariant, HazardInvariant, GPU
  PROVE  HazardInvariant'
<1>1. UNCHANGED <<request, stage, repeat, calls, ctx>>
  BY DEF GPU, RetireBarrier, Execute, context
<1>2. PICK i \in DOMAIN stream : Removed(stream, i, stream')
  BY GPURemoves DEF TypeInvariant
<1>3. stream \in Seq(GpuOp) /\ QueueFits(stream, request) /\ ProgramsFit
  BY DEF HazardInvariant, TypeInvariant, TypeOK
<1>4. QueueFits(stream', request)
  BY <1>2, <1>3, RemovedFits
<1>5. ProgramsFit'
  BY <1>3, GPUKeepsPrograms DEF TypeInvariant, QueueFits
<1>6. ASSUME NEW e, NEW F, Knows(e, F) PROVE Knows(e, F)'
  <2>1. \A x : CleanIn(stream, request, e, x) => CleanIn(stream', request, e, x)
    BY <1>2, <1>3, RemovedClean
  <2> QED
    BY <1>1, <1>6, <2>1 DEF Knows
<1>7. \A e : (Idle(e) => Idle(e)') /\ (Current(e) => Current(e)')
  BY <1>1, <1>6 DEF Idle, Current
<1>8. (\A e \in Encoder : LoopFits(e))'
  BY <1>1 DEF HazardInvariant, LoopFits
<1> QED
  BY <1>1, <1>4, <1>5, <1>7, <1>8 DEF HazardInvariant, OneIsCurrent

(* ... and a call adds what the knowledge of its encoder allows it to.     *)
LEMMA IssueHazards ==
  ASSUME TypeInvariant, LifetimeInvariant, EACRunsAlone, HazardInvariant, IssueCall
  PROVE  HazardInvariant'
<1>1. /\ calls # <<>> /\ calls' = Tail(calls) /\ UNCHANGED <<request, stage, repeat>>
  BY DEF IssueCall, Issue, IssueCreate, IssueDestroy, IssueBind, IssueUniform,
     IssueDispatch, IssueUpload, IssueDownload, IssueCopy, IssueBarrier, IssueFinish
<1>2. PICK d \in Encoder : Current(d) /\ \A e \in Encoder \ {d} : Idle(e)
  BY <1>1 DEF HazardInvariant, OneIsCurrent
<1> DEFINE r == request[d]
           G == KnownAt(r, stage[d])
<1>3. PICK A : Knows(d, A) /\ Leads(d, r, calls, A, G)
  BY <1>2 DEF Current
<1>4. PICK C, B : /\ B \subseteq A /\ Follows(r, B, Head(calls), C)
                  /\ Leads(d, r, Tail(calls), C, G)
  BY <1>1, <1>3, LeadsRest
<1>5. call \in OwnCall(d)
  <2>1. calls \in Seq(OwnCall(d))
    BY <1>3 DEF Leads
  <2> QED
    BY <1>1, <2>1, HeadTailProperties DEF call
<1>6. Knows(d, B) /\ Follows(r, B, call, C)
  BY <1>3, <1>4, KnowsLess DEF call
<1>7. CallsNameLiveObjects
  BY NamesAreLive
<1>8. /\ ProgramsFit' /\ QueueFits(stream, request)' /\ Knows(d, C)'
      /\ \A e, x : e # d /\ CleanIn(stream, request, e, x)
                     => CleanIn(stream', request, e, x)
  BY <1>1, <1>5, <1>6, <1>7, CallFollows DEF HazardInvariant, TypeInvariant
<1>9. Current(d)'
  BY <1>1, <1>4, <1>8 DEF Current
<1>10. ASSUME NEW e \in Encoder \ {d} PROVE Idle(e)'
  <2>1. ~UsesEAC(request[e])
    BY DEF EACRunsAlone
  <2>2. KnownAt(request[e], stage[e]) \subseteq CleanFacts
    BY <2>1 DEF KnownAt
  <2>3. \A x \in CleanFacts : x[1] # "bound"
    BY DEF CleanFacts
  <2>4. Idle(e)
    BY <1>2
  <2>5. \A x \in KnownAt(request[e], stage[e]) : x[1] \in {"unstored", "untouched"}
          => CleanIn(stream', request, e, x)
    BY <1>8, <2>4 DEF Idle, Knows
  <2> QED
    BY <1>1, <2>2, <2>3, <2>5 DEF Idle, Knows
<1>11. OneIsCurrent'
  BY <1>9, <1>10 DEF OneIsCurrent
<1>12. (IF calls = <<>> THEN \A e \in Encoder : Idle(e) ELSE OneIsCurrent)'
  BY <1>11, CurrentIsScheduled, PTL
<1>13. (\A e \in Encoder : LoopFits(e))'
  BY <1>1 DEF HazardInvariant, LoopFits
<1> QED
  BY <1>8, <1>12, <1>13 DEF HazardInvariant

(* Every step keeps the hazard invariant, if EncoderEAC runs alone.        *)
LEMMA NextHazards ==
  TypeInvariant /\ LifetimeInvariant /\ (EACRunsAlone => HazardInvariant) /\ [Next]_vars
    => (EACRunsAlone => HazardInvariant)'
<1> SUFFICES ASSUME TypeInvariant, LifetimeInvariant, EACRunsAlone => HazardInvariant,
                    [Next]_vars, EACRunsAlone'
             PROVE  HazardInvariant'
  OBVIOUS
<1>1. request' = request
  BY DEF Next, Method, Enter, InitResources, Execute00, Execute01, Execute02,
     Execute03, StartDownload, DownloadTo, Save, DeinitResources, IssueCall, Issue,
     IssueCreate, IssueDestroy, IssueBind, IssueUniform, IssueDispatch, IssueUpload,
     IssueDownload, IssueCopy, IssueBarrier, IssueFinish, GPU, RetireBarrier, Execute,
     Terminating, vars
<1>2. EACRunsAlone /\ HazardInvariant
  BY <1>1 DEF EACRunsAlone
<1>3. ASSUME NEW e \in Encoder, Method(e) PROVE HazardInvariant'
  BY <1>2, <1>3, MethodHazards
<1>4. CASE IssueCall
  BY <1>2, <1>4, IssueHazards
<1>5. CASE GPU
  BY <1>2, <1>5, GPUHazards
<1>6. CASE UNCHANGED vars
  BY <1>2, <1>6
     DEF HazardInvariant, ProgramsFit, QueueFits, OrderedIn, OwnedIn, ProgramsKeptIn,
         LoopFits, Idle, Knows, OneIsCurrent, Current, vars
<1> QED
  BY <1>3, <1>4, <1>5, <1>6 DEF Next, Terminating

(* No dispatch runs on bindings that another step, another encoder or an   *)
(* upload left behind: it touches the objects of one encoder, whose every  *)
(* unit the step has bound.  EncoderEAC, whose program does not compile,   *)
(* must be alone: it would run another encoder's program on its own units. *)
THEOREM BindingsAreOwn == Spec => [](EACRunsAlone => NoForeignBindings)
<1>1. HazardInvariant => NoForeignBindings
  <2> SUFFICES ASSUME OwnedIn(stream), NEW i \in GpuOps(stream)
               PROVE  \E e \in Encoder :
                        \A a \in ReadsOf(stream[i]) \cup WritesOf(stream[i]) : a.name[1] = e
    BY DEF HazardInvariant, QueueFits, NoForeignBindings
  <2>1. PICK d \in Encoder : Owns(d, stream[i])
    BY DEF OwnedIn
  <2> QED
    BY <2>1 DEF Owns, Touched, Written
<1> QED
  BY <1>1, InitType, NextType, InitLifetimes, NextLifetimes, InitHazards, NextHazards,
     PTL DEF Spec

(* Of two conflicting operations in flight the later one waits for the     *)
(* earlier: whatever a shader stored is behind a glMemoryBarrier that      *)
(* covers the path by which it is read or overwritten.  It takes a driver  *)
(* on which the barriers before a fetch and a download do what EncoderGL   *)
(* takes them to, for EncoderETC2 one whose SHADER_IMAGE_ACCESS covers its *)
(* selector's fetches too, and no RenderDoc, since its execute03 overwrites*)
(* behind no barrier.                                                      *)
THEOREM OperationsAreOrdered ==
  Spec => []((EACRunsAlone /\ \A e \in Encoder : Careful(request[e])) => ConflictsAreOrdered)
<1>1. HazardInvariant /\ (\A e \in Encoder : Careful(request[e])) => ConflictsAreOrdered
  <2> SUFFICES ASSUME OrderedIn(stream, request), OwnedIn(stream),
                      \A e \in Encoder : Careful(request[e]),
                      NEW i \in GpuOps(stream), NEW j \in GpuOps(stream), j < i,
                      NEW b \in Conflicts(stream, j, i)
               PROVE  OrdersAccess(stream, j, i, b)
    BY DEF HazardInvariant, QueueFits, ConflictsAreOrdered
  <2>1. PICK d \in Encoder : Owns(d, stream[i])
    BY DEF OwnedIn
  <2>2. b \in ReadsOf(stream[i]) \cup WritesOf(stream[i])
    BY DEF Conflicts
  <2>3. b.name[1] = d
    BY <2>1, <2>2 DEF Owns, Touched, Written
  <2> QED
    BY <2>3 DEF OrderedIn
<1> QED
  BY <1>1, InitType, NextType, InitLifetimes, NextLifetimes, InitHazards, NextHazards,
     PTL DEF Spec
=============================================================================
