# betsy: TLA+ models and proofs

betsy compresses one image to a GPU texture format (ETC1, ETC2, EAC, BC1, BC3,
BC4, BC5, BC6H) with OpenGL compute shaders and saves the result as a KTX file.
This directory holds TLA+ models of the program and of the shaders whose threads
cooperate, the TLC configurations that check them, and proofs for TLAPS. Paths
below are relative to `src/` of the repository; `bin/Data/` holds the shaders.

Contents: [inventory](#inventory), [modules](#modules),
[runs](#runs), [fairness](#fairness), [proofs](#proofs),
[where the code and its documentation disagree](#where-the-code-and-its-documentation-disagree),
[abstractions](#abstractions-and-limits), [not modelled](#not-modelled),
[plan](#plan).

## Inventory

| component | state it keeps | operations | what makes it correct |
|---|---|---|---|
| `main`, `parseCmdLine`, `saveToDisk` (`src/main.cpp`) | the request (codec, dither, quality, RenderDoc), the repeat counter, the downloaded image | parses the command line, loads the image, calls each encoder method in order, loops twice under RenderDoc, saves | every run ends; what runs is what the arguments ask for; the file is the compression of the source, complete, in the format asked for |
| `EncoderETC1`, `EncoderETC2` (derives from ETC1), `EncoderEAC`, `EncoderBC1`, `EncoderBC4`, `EncoderBC6H` (`src/betsy/Encoder*.cpp`) | the names of their GL objects, the mapped download buffer | `initResources`, `execute00` to `execute03`, `startDownload`, `downloadTo`, `deinitResources` | the work of the steps is ordered by the barriers; no step depends on what another left bound; optional objects are used exactly when they exist; what is generated is released |
| `EncoderGL` (`src/betsy/EncoderGL.cpp`) | none of its own: it changes the bindings of the GL context | create, destroy, bind, upload, download, compile | the wrappers' side effects on the bindings harm nobody |
| the GPU (external) | texture and buffer contents, the queue of issued work | executes in any order the barriers admit | (environment) |
| search shaders `eac.glsl`, `etc2_th.glsl`, `etc2_p.glsl` | shared arrays of errors and candidates of a work group | each thread evaluates a candidate; a parallel reduction picks one | no data race, no cell outside of the array, a best candidate is stored once |
| `etc1.glsl` | shared pixels and flags of 16 blocks, reused for errors | four threads per block: compare pixels, search both subblocks, compare errors, store | no race with the reuse, one store per block, the error compared is the error of what is stored |
| `bc4.glsl` | shared minima and maxima, two words of index bits | four threads per block, merging by atomics | no bit is lost, indices are the best for the endpoints, the endpoints select the right palette |
| the dispatches (`src/betsy/Encoder*.cpp` with `local_size` and `dstUV` of the shaders) | the grid of work groups | every shader has its own block size | each block of the target is stored, by one thread |
| block layouts of ETC1, ETC2 and EAC (in the four ETC shaders) | none | write headers and indices | a decoder reads back what the search chose |
| `bc1.glsl` | endpoints and mask of a block | picks endpoints, solves for better ones, chooses indices anew, orders the endpoints | the mask always belongs to the endpoints and to the palette their order selects |
| `dither555.glsl` | errors of two rows | diffuses the error of five-bit colours, copies flat blocks raw | five bits or flat, and nothing changed that needs no dithering |
| `bc6h.glsl` | 128 bits and their error | gathers texels, writes one of three layouts, replaces the block by a better one | a decoder reads back mode, partition, endpoints and indices of the block that won |
| `etc2_th_find_best_c0c1_k_means.glsl` | registers | floating-point clustering | not modelled, see below |
| `CpuImage` (`src/betsy/CpuImage.cpp`) | pixels, format, size | loads a file through FreeImage, converts rows | the picture arrives whole, in memory that is allocated |
| `FormatKTX` (`src/betsy/File/FormatKTX.cpp`) | none | writes header and payload | payload as large as the format needs |
| `IncludeParser` (`src/betsy/IncludeParser.cpp`) | the source of a shader | expands `#include` | every include is expanded in its place, comments and missing files stay, and it ends |
| `PlatformGL`, `gl3w`, `sds`, `EnumIterator`, `Dependencies/` | | window and context, generated or vendored code | out of scope |

How they interact: one CPU thread calls encoder methods; a method issues GL calls
and returns at once; the GPU executes them later. The CPU and the GPU meet in
`glFinish` and in the persistently mapped download buffer. Encoders share one GL
context, whose bindings are global variables to all of them. Dispatches meet in
textures, and are ordered by `glMemoryBarrier` only. Inside a dispatch the
threads of a work group meet in shared memory, ordered by `barrier()`.

The hard behaviours are therefore: the order of GPU work (a missing or wrong
barrier bit works on most drivers), bindings that outlive the step that made
them, a pointer into memory the GPU writes, optional objects tested for in seven
methods, the repeat loop that overwrites what the GPU still reads, shared memory
that is reused for another purpose, reductions over thread counts that are no
power of two, headers whose bits mean different things in five modes, masks and
blocks that outlive the endpoints they were made for, and pictures whose sides
are no multiple of a work group.
`PROJECT.json` lists each under "hazards" at its line.

## Modules

### The program

`GL` is the vocabulary. A GL object is `<<encoder, field>>`; contents are terms
`[fn, uni, out, arg]` that name the shader, its uniform, the image unit and the
contents read, so two images are equal exactly when they were computed the same
way from the same inputs. Wrappers of `EncoderGL` are records; `ShaderInterface`
says which units each shader reads and stores to. The second half is the memory
model of GL: `OrdersAccess(s, j, i, b)` says when operation `i` of the stream has
to wait for the earlier operation `j` because of access `b`. API operations are
ordered with everything after them; stores of a shader only by a barrier between
the two with a bit for the path of the later access.

`EncoderETC1`, `EncoderETC2` (which EXTENDS it as the class derives from it),
`EncoderEAC`, `EncoderBC1`, `EncoderBC4`, `EncoderBC6H`: for each method the
sequence of GL calls it makes, in order, under the conditions the code tests.

`Pipeline` composes them: `main` and `saveToDisk` are the actions
`InitResources` to `DeinitResources`, each of which takes the call list of the
method; `IssueCreate` to `IssueFinish` issue one call each against the context
(`ctx`, `uniform`, `live`, `mem`); `Execute` and `RetireBarrier` are the GPU. A
method starts only when the last one has issued all its calls (one CPU thread);
`glFinish` waits until the stream is empty. `stage` and `repeat` are the program
counter and `while( repeat-- )`; `outImage` is the `CpuImage` whose data is the
mapped buffer; `file` is what was saved.

`PipelineProps` holds the properties, and `CompressionService` the abstract
service: each request is delivered once and holds `Compressed(request)`.
`RequestedFile` defines that from the codecs' definition and not from the
encoders' code: which shaders, on which inputs, and how many bytes in which
format.

| TLA+ | code |
|---|---|
| `request`, `stage`, `repeat` | `CmdLineParams`, the position in `main`'s switch (main.cpp:180-281), `repeat` |
| `calls` | the GL calls the current method has still to make |
| `ctx`, `uniform`, `live` | bindings, uniforms and objects of the GL context |
| `stream`, `mem` | commands issued and not yet executed; storage |
| `outImage`, `file` | the `CpuImage` of `saveToDisk`, the KTX file |

### The shaders

`Selection` is the abstract promise of a search (a best candidate is stored,
once); `Reduction` is the parallel reduction of the three shaders, parameterised
by `Kernel`, `N` (threads), `Iterations` and `Stride`, each access to shared
memory a step of its own. `eac` compares with a register, `etc2_th` clamps its
peer to the last of 960 threads, `etc2_p` has sixteen threads to a block.

`EtcBlocks` writes the six layouts (T, H, planar, ETC1 individual or
differential, one colour, EAC) as the shaders do, tables included, and reads them
as a decoder does; the decoder is external. It also has the colours that the
planar search measures, against those a decoder interpolates.

`Etc1Block` is `etc1.glsl`'s work group between its barriers, over the two shared
arrays with the cell arithmetic of the shader. `Etc1Search` is the search of one
thread: the two scans, the refinements, the constraint of differential mode.
`Etc1Constants` holds the constants the two share.

`Bc4Block` is the whole of `bc4.glsl` with its atomics.

`Bc1Block` is `bc1.glsl`: `Uniform` or `OptimizeColorsBlock`, then `Refine` up to
`p_numRefinements` times, then `Order`. `ends` and `indices` are the endpoints and
the mask; `RefineBlock` solves the packed normal equations as the shader does, and
`MatchColorsBlock` is there with and without dithering. `Dither555` is
`dither555.glsl`, texel by texel. Both take the diffusion from `Diffusion`. The sums over sixteen texels are written out and
the diffusion along a row is a recursive function, the forms the proofs can unfold.

`Bc6hBlock` is one invocation of `bc6h.glsl`: `GatherTexels`, `EncodeP1`, and
`EncodeP2Pattern` for any increasing sequence of patterns each better than the
last. `hblock` is the block as the set of its bits; `meant` is what was to be
written. The decoder, with its own layout tables, is external: a layout is, for each
endpoint and component, the sequence of the bits that hold it.

### The host

`ImageLoad` is the constructor of `CpuImage`: rejection, conversion and the four
row conversions with their address arithmetic. FreeImage is external.

`CommandLine` is `parseCmdLine`, an action for each kind of argument.
`IncludeParser` is the parser of `#include`, a source being a sequence of lines
and `at` the line of `startPos`; its specification is the recursive `Expanded`.
`WorkGroups` reckons the grid of each of the eleven shaders as the encoders do and
counts the threads that store each block; `Sizes` is `alignToNextMultiple`, which
it shares with the loader.

The modules named `MC...` give constants their values. Operators marked "Mutant"
are wrong variants of the definition after them. They are never used by a
specification; the table of mutants in `PROJECT.json` says which property notices
each. `MCBlocks`, `MCEtc1`, `MCBcBlocks` and `MCHost` hold several machines that
do not interact: a behaviour is of one of them, chosen by its initial state, while
the variables of the others keep an idle value. Each is checked as if alone.

## Runs

| run | checks | bounds, and why they are enough |
|---|---|---|
| `order` | `TypeOK`, `ConflictsAreOrdered`, `MappedPointerIsStable`, `CallsNameLiveObjects`, `AllObjectsReleased`, `EventuallyFinished` | one encoder, every codec but ETC2, dithering and RenderDoc on and off. The call lists depend on nothing else. Quality is 2: it is only a uniform's value here. `MaxInFlight = 20` exceeds the longest stretch between two `glFinish`, so the GPU may lag as far as it ever can. |
| `deliver` | `ConflictsAreOrdered`, `DeliversWhatWasAsked` | ETC1, ETC2, BC1, BC3, BC4, BC5. `FetchBits` includes SHADER_IMAGE_ACCESS, which ETC2's selector relies on (see the disagreements). The codecs left out do not deliver, for the reasons listed there; ETC2 runs without RenderDoc for the same reason. |
| `two` | `NoForeignBindings`, `DeliversWhatWasAsked` | two encoders, `etc2_rgba_etc1` and `bc3` in every combination: both use storage buffers, two programs and a stitch step, so every kind of binding can be inherited. `MaxInFlight = 3` bounds the product; the conflicts inside an encoder are `order`'s. The program as shipped runs one encoder per process; the class interface allows several, and this run is the one that would show reliance on inherited bindings. |
| `reduce` | `NoDataRace`, `PeerExists`, `SelectsTheBest` | the T/H reduction, six threads in three rounds: like 960 in ten no power of two: in the second round one peer is clamped and one is in range. Errors 0 and 1 give every position of the minimum and every tie. The other two kernels are covered by the proofs, which hold for all three. |
| `blocks` | `ModeIsKept`, `FieldsAreKept`, `IndicesAreKept`, `PlanarIsSearchedAsDecoded`, `BC6HFieldsAreKept`, `BC6HIndicesAreKept` | ETC and EAC: every value of each channel with corner values of the others, every distance, table, multiplier and selector, one differing pixel at each position; headers treat channels and pixels separately except at the corners chosen. BC6H: all 32 partitions in both layouts, every value of an index at every texel, each anchor on both sides of the middle (`Steps = 30` positions between the endpoints give every index), endpoints that make the deltas clamp on both sides, and blocks replaced by another layout. |
| `etc1` | `NoDataRace`, `BlockIsStoredOnce`, `PackedIsUniform`, `NothingIsMissed`, `ErrorIsOfSolution`, `ConstraintIsKept` | the work group: two blocks, which is what it takes for errors to overlay another block's pixels (block 0 and the first 8 of 64 error cells); pictures of one colour, with uniform rows, columns, halves or one odd pixel; the least error at each thread, ties, and threads that found nothing. The search: colours of 3 bits (`limit = 7`), the scans being at most 9 wide and reaching past both ends; all three qualities, averages and best colours in corners, edges and the middle, with and without a base colour. |
| `bc` | `IndicesAreMerged`, `IndicesAreOptimal`, `PaletteIsTheRightOne`; `FourColoursOrNoBlack`, `IndicesAreOfEnds`, `OneColourIsKept`, `SystemIsSolved`; `FiveBitsOrFlat`, `FiveBitIsKept` | BC4: every value between 19 distances of extremes from three minima, which cross the switch of the bias at 8; for signed endpoints every pair of neighbours, the ones rounding can merge. BC1: two and three colours in runs of every length and in every set of columns, with and without dithering; gradients; every grey by itself (all entries of both tables) and next to its neighbours, which endpoints may merge. Dithering: the same blocks, and five-bit colours in runs and columns. |
| `host` | `PictureIsKept`, `StaysInMemory`; `RequestIsWhatWasAsked`; `EveryBlockIsStoredOnce`; `ExpansionIsRecursive`, `ExpansionEnds` | pictures: every type and depth FreeImage has, 1 to 5 columns (each padding of a row) and 1 to 3 rows. Command lines of up to four arguments of every kind, in every order. Sides on both sides of every multiple that matters (4, 8, 16, 32), for all eleven shaders. Three files that include each other in every acyclic way, with comments, missing files and bad syntax at each place. |
| `v_bc6h`, `v_distance`, `v_bc1_dither`, `v_bc6h_gather` | one documented statement each | a violation is expected; see the disagreements. |

What the properties say, beyond their comments: `ConflictsAreOrdered` is the
absence of GPU hazards, and with it and `NoForeignBindings` the symbolic contents
cannot depend on the schedule; `DeliversWhatWasAsked` is a refinement and
compares with an independent definition of each codec. `PackedIsUniform` and
`NoDataRace` together justify treating what a thread does between two barriers of
`Etc1Block` as one step.

`FourColoursOrNoBlack` and `IndicesAreOfEnds` are about the mask that survives a
refinement: the first asks that no index 3 is left when the order of the endpoints
makes it black, the second that the mask was chosen for these endpoints.
`ExpansionIsRecursive` compares the parser, which scans what it has just inserted,
with the recursive meaning of `#include`.

Deadlock is checked in every run; the specifications end in an explicit
`Terminating` step, or in one that only an ended machine can take.

## Fairness

`Pipeline`: weak fairness of issuing calls and of each method (the CPU thread runs
while it is not blocked) and of the GPU as a whole, which is what makes
`glFinish` return; GL guarantees it does in finite time. Nothing is assumed of the
order of GPU work, and no strong fairness is used. `EventuallyFinished` and
the liveness half of `DeliversWhatWasAsked` rest on it.

`Reduction`: weak fairness of each thread. A GPU that has started a work group
runs all its threads, without which `barrier()` could never return.

`MCHost`: weak fairness of the include parser alone, a loop on one CPU thread that
nothing can block; `IncludeParserAssumption` says that no file includes itself,
without which the loop has no end and the code promises none.

`CompressionService` and `Selection` ask that every delivery and selection
eventually happens.

## Proofs

All proofs are for every value of the constants that satisfies the named
assumptions, which TLC evaluates on every run. They only say what the code
guarantees: `RequestAssumption` what `CmdLineParams` can hold; `ReductionAssumption`
the three kernels' shapes; `Etc1BlockAssumption` that threads 2 and 3 of a block,
which are not in differential mode and have no constraint to fail, always find a
solution; `Etc1SearchAssumption`, `Bc4BlockAssumption`, `Dither555Assumption` and
`WorkGroupsAssumption` the ranges of pixels, colours and sides; `EtcBlocksAssumption`
what the searches can hand over (colours of the depth of the mode, and in differential
mode a second colour within the reach of the first, which etc1.glsl's
`constrainAgainstBaseColor5` ensures); `Bc1BlockAssumption` eight-bit texels;
`Bc6hBlockAssumption` endpoints that are non-negative finite half floats (see the
disagreements for others), with texels anywhere on the line through them;
`CommandLineAssumption` that `argv` is a finite sequence; `ImageLoadAssumption` how
many bits a pixel of each FreeImage type has, and which of them can be transparent.

| module | about | theorems |
|---|---|---|
| `PipelineProofs` | the calls of every encoder's methods; `Pipeline` | `TypeCorrect`, `PointerIsStable`; `LiveObjectsAreNamed`, `ObjectsAreReleased`, `OnlyForgottenObjectsLeak` |
| `HazardProofs` | what a GL call does to bindings and to the queue; `Pipeline` | `BindingsAreOwn`, `OperationsAreOrdered` |
| `DeliveryProofs` | `Pipeline` and `CompressionService` | `BlocksAreThoseAsked`, `OnlyWhatWasAskedIsDelivered`, `FilesAreComplete` |
| `ReductionProofs` | `Reduction` | `Invariance`, `RaceFree`, `InBounds`, `Refinement` |
| `Etc1Proofs` | `Etc1Block`, `Etc1Search` | `SharedMemoryHasNoRace`, `EachBlockIsStoredOnce`, `PackedSubblocksAreUniform`; `ErrorBelongsToSolution`, `WinnerKeepsConstraint`, `ScanMissesNothing` |
| `LayoutProofs` | `EtcBlocks`, `Bc6hBlock` | `ModeIsDecoded`, `FieldsAreDecoded`, `IndicesAreDecoded`, `PlanarErrorIsOfDecoded`; `Bc6hFieldsAreDecoded`, `Bc6hIndicesAreDecoded` |
| `BlockProofs` | `Bc4Block`, `Bc1Block`, `Dither555` | `MaskIsOfTheBlock`, `BlockHoldsItsIndices`, `BlockIsOptimal`, `BlockHasItsPalette`; `FourColours`, `IndicesFitEnds`, `UniformIsKept`, `RefinementSolves`; `SearchGetsFiveBits`, `NothingToDither` |
| `HostProofs` | `WorkGroups`, `CommandLine`, `ImageLoad` | `GroupsCoverThePicture`; `ArgumentsAreObeyed`; `LoaderStaysInMemory`, `LoaderKeepsThePicture` |

Every invariant below but one was first checked by TLC on the inputs of the component's
run, then proved inductive. The exception is `DeliveryInvariant`, which asks for a
contents of the memory and for a sequence of facts that exist, and which TLC cannot
enumerate; what follows from it is what the runs `deliver` and `two` check.

**`TypeCorrect`**: `Spec => []TypeOK`. `TypeOK` is not
inductive: `repeat` could pass below 0, so the invariant is `TypeInvariant`,
`TypeOK` with `RepeatsLeft` (inside the loop an iteration is left). That a
method's calls are well formed is a fact about some forty sequences of records,
proved once per method from one lemma per kind of call (`OwnCreate`, `OwnBind`,
...); the invariant's proof uses only `MethodCalls`.

**`PointerIsStable`**: `Spec => []MappedPointerIsStable`: while
`FormatKTX::save` reads the pointer the buffer exists and no operation in flight
writes it. The invariant says what keeps it so from `startDownload` on
(`StagingInvariant`): the buffer exists or will
be generated by a call still to come; it is never bound as an image; once
`downloadTo` was entered no call targets it, and nothing in flight writes to it
unless `glFinish` is still to come. It holds for any number of encoders whose
methods interleave.

**`LiveObjectsAreNamed`, `ObjectsAreReleased`, `OnlyForgottenObjectsLeak`**:
`CallsNameLiveObjects`, `AllObjectsReleased`, and that what is left when the program
has finished is at most `Leaked(request)`, the objects the deinit of each codec
forgets. `live` says nothing about calls still to come, so the invariant
`LifetimeInvariant` looks ahead: each remaining call finds the objects it names
(`Finds`, by `ExistsAt`: alive now or generated before, and not deleted in
between), and once the list has run out what is left is between `MustHold` and
`MayHold` of the stage to come. Lists are put together from parts that only
generate, only use or only delete (`RunsMakes`, `RunsUses`, `RunsFrees`,
`RunsConcat`), one lemma per method and codec.

**`BindingsAreOwn`, `OperationsAreOrdered`**: `NoForeignBindings` and
`ConflictsAreOrdered`, for any number of encoders whose methods interleave, every
schedule of the GPU and every length of its queue. Neither is inductive: that a
dispatch finds its own bindings and finds its inputs behind a barrier is due to
calls issued long before, some by an earlier method. The invariant keeps what those
calls established as *facts*: that a unit holds an object of the encoder (`Bound`),
that no store to an object is still to be made visible through a path (`Unstored`),
that no access of it in flight is unordered at all (`Untouched`).

* *Calls.* The first half says what each kind of call needs of the facts before it and
  leaves of them (`Follows`), composes that along a list of calls (`Leads`,
  independent of the state), and ties it to the state once: `CallFollows`, by which a
  call that follows keeps the queue in order, makes its facts true, and costs another
  encoder only facts about the context.
* *Methods.* There is one lemma per method and codec, that its calls lead from what is
  known at its stage of `main` to what is known at the next (`KnownAt`; no binding is
  carried from one method to another, which is why encoders may interleave), and the
  invariant: what each encoder is known at its stage is true, but for the encoder
  whose method is under way, whose remaining calls lead there.

Both theorems have hypotheses, each needed. `EACRunsAlone`: an encoder that uses
`EncoderEAC` is the only one. Its program does not compile, so its dispatches run
whatever program is in use; TLC finds `NoForeignBindings` violated by `etc1` and
`eac_r11` together. `Careful`, for the order: `FetchBits` and `DownloadBits` of the
driver cover what the code relies on, and `EncoderETC2` runs without RenderDoc, on a
driver where SHADER_IMAGE_ACCESS covers fetches. What happens without is among the
disagreements below.

**`OnlyWhatWasAskedIsDelivered`, `BlocksAreThoseAsked`, `FilesAreComplete`**: the
safety half of `DeliversWhatWasAsked`, `Service!Init /\ [][Service!Next]_(Service!vars)`:
a file is written once and then holds what `CompressionService` says of its request.
`Save` implements `Service!Deliver`; every other step leaves the files alone. That
`Save` reads the right bytes is due to every call since `initResources`, none of which
need have been executed when the next is issued. The invariant (`DeliveryInvariant`)
speaks of what the memory *will* hold:

* *The queue.* `QueueGives(mem, stream, G)`: executing the operations in flight in the
  order of their issue ends in the memory `G`. The GPU executes them in another order, but
  takes out of turn only what `ConflictsAreOrdered` leaves it: operations that are
  independent of all before them (`IndependentCommute`), so every step of the GPU leads to
  the same `G`. This is where the absence of hazards becomes the independence of the
  result from the schedule.
* *Calls.* Facts about `G`: a field of the encoder will hold a given term (`Holds`), a
  program's uniform has a given value (`Given`), nothing in flight or bound touches an
  object (`Spare`). `Yields(e, r, calls, F, G)` says that the calls make the facts `G` of the
  facts `F`, and `Tells` that facts are true. One lemma per method gives the terms its
  dispatches compute; `FactsAt` names what is known at each stage of `main`, and
  `Foretold` that it is true of the `G` to come, for the encoder whose method is under way as for
  all others, which touch none of its objects.
* *The file.* `glFinish` returns on an empty queue, when `G` is the memory; from then until
  `Save` the staging buffer holds the codec's blocks (`Arrived`), and `FileFits` says that the
  file is not written before and not again.

`RequestedFile` is defined from the codecs and knows nothing of the calls, so the theorem
also says that each encoder runs the right shaders on the right images. The hypotheses
are again needed. `Clean`: the codecs of `EncoderETC1`, `EncoderETC2`, `EncoderBC1` and
`EncoderBC4`, with `Careful` as above, and `EncoderETC2` on a driver that lets a shader
load what was bound for writing. `Delivers`: of these, not the signed codecs of
`EncoderBC4`, whose files say unorm (their blocks are right all the same, which
`BlocksAreThoseAsked` states). `EncoderEAC` and `EncoderBC6H` deliver something else than was
asked, for the reasons listed below.

**`RaceFree`, `InBounds`, `Refinement`**: `NoDataRace`,
`PeerExists` and the safety half of `SelectsTheBest`
(`Abstract!Init /\ [][Abstract!Select]_<<own, images>>`) for every number of
threads and rounds and for all three kernels. The core of the invariant `Inv` is
`Covers`: after `l` rounds a thread whose index is a multiple of `2^l` holds the
least error of the `2^l` threads from its own on (those that exist). The clamp of
`etc2_th` is harmless because the clamped cell is covered and is never written
by a thread active in the same round.

**`SharedMemoryHasNoRace`, `EachBlockIsStoredOnce`, `PackedSubblocksAreUniform`**:
the work group of `etc1.glsl` for any number of blocks. `GroupInvariant` has
`InStep` (a thread is at most one barrier ahead of another, which then waits there)
and, for each array and part, what it holds by then. Errors overlay pixels of
*other* blocks, so the cells of a block are not its own: the lemmas on
cell ranges (`PixelCells` and its neighbours) are what the race proof rests on,
and `InStep` is what keeps the two uses of a cell apart.

**`ErrorBelongsToSolution`, `WinnerKeepsConstraint`, `ScanMissesNothing`**: the search
of a thread, for channels of any depth, any base colour, any refinement and any
error function of the form assumed. `SearchInvariant` adds to the properties that
everything scanned so far in a pass was looked at and is no better than the best
(`LookedAt`). That the pass then missed nothing is `EveryDelta` (the deltas of a
scan are onto) and `EveryTriple` (a step count divided by powers of the scan's size
meets every triple).

**`ModeIsDecoded`, `FieldsAreDecoded`, `IndicesAreDecoded`, `PlanarErrorIsOfDecoded`**: a
decoder reads back the mode, the fields and the indices of every block the searches
can hand over, and interpolates the colours planar mode measured. The invariant
(`BlockInvariant`) is that a block, once written, is what the action of its mode writes;
the work is in one lemma per layout of the header and one per layout of the indices.
Modes T, H and planar are told apart by overflows of a differential header, which the
shader steers by tables (`TableT`, `TableH`, `TableP`: every entry lands on the side its
mode needs and keeps the bits of its argument); ETC1 headers stay off those sides
because the deltas fit three bits. Indices are a set of bits, of which a pixel's are
told apart from all other pixels' by division with remainder.

**`Bc6hFieldsAreDecoded`, `Bc6hIndicesAreDecoded`**: a decoder reads back what `bc6h.glsl`
meant, in each of the three layouts, for any endpoints and positions and any chain of
blocks that replace each other. Here too the invariant (`BlockIsMeant`) says of the block
what the properties say; every function that writes a block establishes it from
nothing, which is what clearing the old block is for. The argument, from the bottom up:

* *Bits.* A number of up to ten bits is the sum of its bits (`NumberOfBits`), so a field
  whose bits are the number's is read as the number (`FieldIsRead`). Which pieces set a bit
  is `Mode11Sets`, `Mode76Sets` and `Mode95Sets`; that no other piece sets it makes each
  scattered field of the decoder's tables hold its endpoint (`Mode76IsRead`, ...).
* *Deltas.* Clamping keeps an endpoint between the first one and itself, so it stays in
  range, and its delta in the signed field (`DeltaIsRead76`, `DeltaIsRead95`): the decoder's
  modulus never takes effect.
* *Anchors.* The index of the position mirrored by the swap is below half if the index
  was not (`SwappedIndex4`, `SwappedIndex3`, exactly halfway excepted with three bits); the
  shader's anchors are the decoder's and of different subsets, for all 32 partitions
  (`AnchorsAgree`), so the swap of one does not move the index of the other, and the third
  bit that an anchor lacks is the first of the next texel's (`PlacesMeet`).

**`MaskIsOfTheBlock` and its three corollaries**: `bc4.glsl` for every block of sixteen
bytes and every order of its atomic operations. `Bc4Invariant` says which extremes
and index bits are merged as a function of how far each thread is. `BlockIsOptimal`
is a fact about the index arithmetic for all pairs of extremes, `BlockHasItsPalette`
about the order of endpoints that rounding may merge.

**`FourColours`, `IndicesFitEnds`, `UniformIsKept`, `RefinementSolves`**: `bc1.glsl` for
every block of eight-bit texels, with and without dithering, any pair of texels the
principal axis may pick and any number of refinements. `Bc1Invariant` says after each
step that the mask is nearest for the endpoints that are there (`Nearest`, without
dithering, as `IndicesAreOfEnds` asks), that equal
endpoints have no index 3 (`NoBlack`), that a block of one colour has the endpoints of
its table, in one order or the other (`OfOneColour`), and at the end that the order is
the one of four colours (`InOrder`). What it rests on:

* *Order.* Exchanging the endpoints permutes the palette and negates the direction, so
  a mask that was nearest still is (`SwapKeepsNearest`).
* *Dithering.* The diffusion is a recursive function of the texel, and what it yields at
  the end is known only through what each step yields: `DiffuseRuns` shows that the
  function exists up to each of the sixteen texels (counted by `UpToSixteen`) and that
  every one gets a value and an integer error.
* *One colour.* `UniformIsKept` goes through the 256 entries of both tables.
* *Refinement.* The three sums of the normal equations' matrix share one number. They come
  apart exactly (`SumsComeApart`), the determinant is
  9 (16 Σw² − (Σw)²), which is positive unless all weights are equal, the case the shader
  treats by itself (`SumsOfWeights`), and the rounded solution is within half a step of
  the real one (`RoundedIsNear`, `RoundingIsSmall`).

**`SearchGetsFiveBits`, `NothingToDither`**: `dither555.glsl` for every block.
`Dither555Invariant` ties `equalSoFar` to the texels compared so far; the second
needs that a five-bit colour makes no error to diffuse (`QuantIsFiveBit`).

**`GroupsCoverThePicture`**: division with remainder for each of the eleven shaders,
for all sides. **`ArgumentsAreObeyed`**: an accepted line, of any length, asks for what
it says; `CmdInvariant` states that of the arguments before `next`.
**`LoaderStaysInMemory`, `LoaderKeepsThePicture`**: for pictures of any size, padding,
type and depth; `LoadInvariant` says that before the first row memory is there for the
whole picture and that the rows converted are in their places, and the lemmas on row
arithmetic say that no two texels share a place.

Model-checked only:

* `ExpansionIsRecursive` of `IncludeParser`: its specification is recursive over the
  tree of files, which needs induction over data.
* All liveness (`EventuallyFinished`, `ExpansionEnds`, and the liveness halves of
  `DeliversWhatWasAsked`, that every file is written in the end, and of
  `SelectsTheBest`): temporal reasoning under fairness is
  out of the prover's reach, as is ENABLED.

## Where the code and its documentation disagree

Four are runs (`PROJECT.json`, "findings"). The others are defined beside the
properties of their modules; the last column says what to put in a configuration
for TLC to show them.

| statement | code | what happens | shown by |
|---|---|---|---|
| `ConflictsAreOrdered` | EncoderETC2.cpp:107 | the selector fetches what steps before stored behind a barrier without TEXTURE_FETCH | `MCPipeline`, `Codecs = {"etc2_rgb"}`, `RenderDocs = {FALSE}`, and `FetchBits = {"TEXTURE_FETCH"}` |
| `PayloadIsComplete` | EncoderBC6H.cpp:82 | the BC6H download buffer is half as large as the blocks | run `v_bc6h` |
| `DistanceIsImplicit` | etc2_th.glsl:267 | mode H orders its colours by blue first, decoders by red first | run `v_distance` |
| `NothingToDiffuse` | bc1.glsl:271 | dithered BC1 matches the fourth texel of a row by the colour of the third | run `v_bc1_dither` |
| `TexelsAreOfBlock` | bc6h.glsl:600 | BC6H blocks are gathered two texels to the left of and above where they belong: inside of the picture, twelve of sixteen texels are of neighbouring blocks | run `v_bc6h_gather`, for a block that touches no edge |
| `ConflictsAreOrdered` | EncoderETC2.cpp:137 | under RenderDoc the selector's result is copied without a barrier | `MCPipeline`, `Codecs = {"etc2_rgb"}`, `RenderDocs = {TRUE}`, `Request <- AnyRequest`, and `FetchBits` of `deliver` |
| `LoadsAreDefined` | EncoderETC2.cpp:92, etc2_th.glsl:19 | cluster pairs are loaded through a unit bound for writing only | `MCPipeline`, `Codecs = {"etc2_rgb"}`, `ImageAccessIsEnforced = TRUE` |
| `FormatMatchesCodec` | EncoderEAC.cpp:132, main.cpp:46-47 | the formats of R11 and RG11 change places | `MCPipeline`, `Codecs = {"eac_r11"}` |
| `FormatMatchesCodec` | EncoderBC4.cpp:169, EncoderBC4.h:48 | signed BC4 and BC5 files are labelled unorm | `MCPipeline`, `Codecs = {"bc4_snorm"}` |
| `BlocksAreRight` | eac.glsl:84 and 211, EncoderGL.cpp:389 | the R11 program uses a uniform it does not declare; nobody looks at the link status, and the dispatches do nothing | `MCPipeline`, `Codecs = {"eac_r11"}` |
| `SearchedAsDecoded` | etc2_th.glsl:178 | 4 bits are expanded by 19.05, decoders use 17 | `MCBlocks`, `Modes = {"T"}` |
| `RefinesTheCurrent` | etc1.glsl:267 | from the second refinement on, selectors and intensity table are of different solutions | `MCEtc1` |
| `IndexIsSelector` | etc1.glsl:280 | selectors times 255, times 255 again, index a vector of four | `MCEtc1` |
| `PackerKeepsConstraint` | etc1.glsl:649 | `bUseColor4` is passed for `bUseDiff`, so the packer ignores the base colour where it matters | `MCEtc1` |
| `FloatColoursInOrder` | CpuImage.cpp:312 and 145 | float pictures are loaded with red and blue exchanged | `MCHost` |
| `CommentsAreSkipped` | IncludeParser.cpp:72 | a commented include on the first line of the source is expanded: there is no newline before it to find | `MCHost`, with a file of `Tree` that begins with a comment |
| `UnsupportedLeavesNoData` | CpuImage.cpp:103 | a 32-bit monochrome picture goes on with uninitialized pixels after the message | `MCHost` |

Seen while modelling, with no property: the constrained packer leaves
`bestSolution.error` as it was (etc1.glsl:454), so unless the search then finds
something its result never wins; the solid packer stores an error per pixel where
the other path stores one per block (etc1.glsl:406); early returns of the
`CpuImage` constructor leak FreeImage's bitmap; `main` goes on after a failed load
(main.cpp:178); `--quality=256` becomes 0 (main.cpp:111); `IncludeParser` never
ends on a file that includes itself. In `bc6h.glsl` an anchor exactly halfway
between its endpoints has index 4 before and after the swap, and its third bit
runs into the next index (line 376; `BC6HIndicesAreKept` leaves that case out,
`meant.exact`); a flat subset divides 0 by 0, and the index of the NaN is whatever
the hardware's `clamp` makes of it (taken as 0); negative or infinite half floats
overflow the fields. The diffused error of both dithering shaders is that of the
source texel and not of the texel with what it had received (bc1.glsl:396,
dither555.glsl:47), as in the library they follow. Objects never released: BC1's
`m_bc4TargetRes`, `m_bc4Pso`, `m_bc1TablesSsbo`; ETC2's cluster pairs with alpha
and the staging buffer of `execute03`; BC6H's upload buffer.

## Abstractions and limits

* Contents of images are symbolic in `Pipeline`, and a dispatch there covers its
  image as a whole; that its work groups do is `EveryBlockIsStoredOnce`.
* A GPU operation executes at one instant, at any time its barriers admit. Two
  unordered operations thus run in either order; that they would also overlap
  adds nothing to `ConflictsAreOrdered`, which already forbids them.
* A field of an encoder names at most one live object; generating again over a
  name that was not deleted is a leak (listed above).
* `DownloadBits`: the barrier before `glGetTexImage` into a buffer is PIXEL_BUFFER
  in the code; the model accepts it and TEXTURE_UPDATE. `FetchBits` and
  `ImageAccessIsEnforced` are the two other questions on which drivers differ.
* `MaxInFlight` bounds the queue, by delaying the CPU, never by dropping work.
* Shared memory: the shaders' barriers are `memoryBarrierShared(); barrier();`
  (UavCrossPlatform_piece_all.glsl:17). Where a step covers all a thread does
  between barriers, `NoDataRace` is what makes that sound.
* `Etc1Search`: the error of a colour is its distance from a best one, and a
  refinement proposes any of a few colours, because line 280's deltas are
  undefined. Its properties do not depend on which error function it is.
* `Bc4Block`: float arithmetic on small integers is exact; `IndicesAreOptimal` is
  about decoders that compute the palette in integers.
* `Bc1Block`, `Dither555`: float arithmetic on values of at most 24 bits is taken as
  exact; of the principal axis only its result is kept, the colours of any two
  texels, so what is checked holds for whichever the float iteration picks. An
  average that is an exact multiple of 16 could be one lower in floats, which
  no property depends on.
* `Bc6hBlock`: where texels lie between the endpoints and which block has the least
  error are inputs. `SIGNED` is not defined by the program, `QUALITY` is.
* `IncludeParser`: a source is lines, not characters; an include stands on a line of
  its own, as in the shipped shaders.
* `CommandLine`: a text is told by the prefix it starts with; values of `--quality`
  beyond a byte are cut, which `RequestIsWhatWasAsked` says nothing about.
* `EtcBlocks`: `packUnorm4x8` saturates and rounds; the tables are the shader's.

## Not modelled

* The k-means shader: floating-point clustering in one thread. Nothing says what its
  pairs must satisfy; twenty iterations need not converge, and both clusters may
  end on one colour, which the search after it survives.
* The error evaluation of `eac.glsl`, `etc2_th.glsl`, `etc2_p.glsl` and `bc6h.glsl`,
  the regression of `etc2_p.glsl`, the linear refinement and table lookups of
  `etc1.glsl`: sums of floats, of which the models take the result as an input.
* The header of the KTX file: constants and fields copied from the image.
* `PlatformGL`, `gl3w`, `sds`, `EnumIterator` and `Dependencies/`: calls into the
  system, generated or vendored code.

## Plan

Done: the program and its encoders, the service they implement, the reductions,
all block layouts, the ETC1, BC1, BC4, BC6H and dithering shaders, the dispatches,
the host side; the proofs above.

Every invariant the runs check is proved, but for `ExpansionIsRecursive`, and so are the
safety halves of both refinements.

An abstract specification still worth stating is a block codec (what is decoded
from a block is within the search's error of its texels) that `EtcBlocks`,
`Bc4Block` and `Bc1Block` implement.
