------------------------------ MODULE WorkGroups ------------------------------
(***************************************************************************)
(* The dispatches of the encoders: how many work groups each shader gets   *)
(* for a picture, and which 4x4 block each of their threads stores.  The   *)
(* sides of a picture need not be multiples of 4.                          *)
(***************************************************************************)
EXTENDS Integers, FiniteSets, Sizes

CONSTANT Side   \* the widths and heights of the pictures

ASSUME WorkGroupsAssumption == Side \subseteq Nat \ {0}

VARIABLES
  grid,    \* [shader, width, height] of the dispatch
  stores   \* how often each block of the target was stored, <<>> before

gridVars == <<grid, stores>>

getBlockSide(side) == (side + 3) \div 4

(* Blocks of a work group, in x and y: as local_size and dstUV say.        *)
GroupBlocks ==
  [dither555 |-> <<8, 8>>, bc1 |-> <<8, 8>>, bc6h |-> <<8, 8>>, etc2_rgb_selector |-> <<8, 8>>,
   etc2_rgba_stitch |-> <<8, 8>>, etc1 |-> <<4, 4>>, bc4 |-> <<4, 4>>, etc2_p |-> <<2, 2>>,
   etc2_th_find_best_c0c1_k_means |-> <<4, 2>>, eac |-> <<1, 1>>, etc2_th |-> <<1, 1>>]

(* Pixels the encoder reckons to a work group.                             *)
GroupPixels ==
  [dither555 |-> <<32, 32>>, bc1 |-> <<32, 32>>, bc6h |-> <<32, 32>>, etc2_rgb_selector |-> <<32, 32>>,
   etc2_rgba_stitch |-> <<32, 32>>, etc1 |-> <<16, 16>>, bc4 |-> <<16, 16>>, etc2_p |-> <<8, 8>>,
   etc2_th_find_best_c0c1_k_means |-> <<16, 8>>, eac |-> <<4, 4>>, etc2_th |-> <<4, 4>>]

Shader == DOMAIN GroupBlocks

(* Mutant: the work group that is only partly used is left out.            *)
groupsTruncated(shader, axis, side) == side \div GroupPixels[shader][axis]

groups(shader, axis, side) ==
  alignToNextMultiple(side, GroupPixels[shader][axis]) \div GroupPixels[shader][axis]

(* The coordinates the threads store to, as <<group, thread>>; those past  *)
(* the target are discarded by GL.                                         *)
Storing(shader, axis, side, uv) ==
  {t \in (0 .. groups(shader, axis, side) - 1) \X (0 .. GroupBlocks[shader][axis] - 1) :
     t[1] * GroupBlocks[shader][axis] + t[2] = uv}

GridInit ==
  /\ grid \in [shader : Shader, width : Side, height : Side]
  /\ stores = <<>>

Dispatch ==
  /\ stores = <<>>
  /\ stores' = [uv \in (0 .. getBlockSide(grid.width) - 1) \X (0 .. getBlockSide(grid.height) - 1) |->
                  Cardinality(Storing(grid.shader, 1, grid.width, uv[1]))
                    * Cardinality(Storing(grid.shader, 2, grid.height, uv[2]))]
  /\ UNCHANGED grid

GridSpec == GridInit /\ [][Dispatch]_gridVars

(* Whatever the sides, every block of the target is stored, the partial    *)
(* ones at the edges too, and no two threads store the same one (the       *)
(* glDispatchCompute calls against local_size and dstUV of the shaders).   *)
EveryBlockIsStoredOnce == stores # <<>> => \A uv \in DOMAIN stores : stores[uv] = 1
=============================================================================
