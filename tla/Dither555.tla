------------------------------ MODULE Dither555 ------------------------------
(***************************************************************************)
(* dither555.glsl: each thread dithers a 4x4 block for the ETC1 search,    *)
(* which compresses colours of five bits, and copies it raw after all if   *)
(* every colour of it was the same.  A colour is <<r, g, b>> of 8 bits.    *)
(***************************************************************************)
EXTENDS Diffusion, Sequences

CONSTANT Dither555Input   \* the blocks: texel 4 * y + x to its colour

ASSUME Dither555Assumption ==
  Dither555Input \subseteq [0 .. 15 -> (0 .. 255) \X (0 .. 255) \X (0 .. 255)]

VARIABLES
  srcTex, dstTexture,
  errors,      \* ep1 and ep2: srcPixel - dithPixel of the texels dithered
  equalSoFar,  \* bAllColoursEqual
  finished

dither555Vars == <<srcTex, dstTexture, errors, equalSoFar, finished>>

quant555(v) == (((62 * Clamped(v, 255) + 255) \div 510) * 33) \div 4

(* Mutant: the fourth texel of a row is loaded where the third one is.     *)
LoadedColourRepeated(k) == srcTex[IF k % 4 = 3 THEN k - 1 ELSE k]

LoadedColour(k) == srcTex[k]

(* Mutant: only the last comparison counts.                                *)
StillEqualLast(k) == LoadedColour(k) = srcTex[0]

StillEqual(k) == equalSoFar /\ LoadedColour(k) = srcTex[0]

-----------------------------------------------------------------------------

Dither555Init ==
  /\ srcTex \in Dither555Input
  /\ dstTexture = <<>>
  /\ errors = <<>>
  /\ equalSoFar = TRUE
  /\ finished = FALSE

DitherTexel ==
  /\ Len(errors) < 16
  /\ LET k == Len(errors)
         colour == LoadedColour(k)
         dithered555(i) == quant555(colour[i] + Truncated(Carried([n \in 1 .. k |-> errors[n][i]], k), 16))
         dithPixel == <<dithered555(1), dithered555(2), dithered555(3)>>
     IN  /\ errors' = Append(errors, <<colour[1] - dithPixel[1], colour[2] - dithPixel[2],
                                       colour[3] - dithPixel[3]>>)
         /\ dstTexture' = Append(dstTexture, dithPixel)
         /\ equalSoFar' = StillEqual(k)
  /\ UNCHANGED <<srcTex, finished>>

RawCopy ==
  /\ Len(errors) = 16 /\ equalSoFar /\ ~finished
  /\ dstTexture' = [n \in 1 .. 16 |-> srcTex[n - 1]]
  /\ finished' = TRUE
  /\ UNCHANGED <<srcTex, errors, equalSoFar>>

KeepDithered ==
  /\ Len(errors) = 16 /\ ~equalSoFar /\ ~finished
  /\ finished' = TRUE
  /\ UNCHANGED <<srcTex, dstTexture, errors, equalSoFar>>

Dither555Next == DitherTexel \/ RawCopy \/ KeepDithered

Dither555Spec == Dither555Init /\ [][Dither555Next]_dither555Vars

-----------------------------------------------------------------------------

FiveBit == {(v * 33) \div 4 : v \in 0 .. 31}

(* What ETC1 searches in has colours of five bits only, but for a block of *)
(* one colour, which arrives as it was: that is the block the solid packer *)
(* of etc1.glsl looks for, and the one case in which raw texels may reach  *)
(* it (dither555.glsl's copy at the end).                                  *)
FiveBitsOrFlat ==
  finished => \/ \A n \in 1 .. 16 : srcTex[n - 1] = srcTex[0] /\ dstTexture[n] = srcTex[0]
              \/ /\ \E n \in 1 .. 16 : srcTex[n - 1] # srcTex[0]
                 /\ \A n \in 1 .. 16 : \A i \in 1 .. 3 : dstTexture[n][i] \in FiveBit

(* Dithering is for what five bits cannot say: a block without a need for  *)
(* it is stored texel for texel, and no error is ever carried in it.       *)
FiveBitIsKept ==
  dstTexture # <<>> /\ (\A n \in 1 .. 16 : \A i \in 1 .. 3 : srcTex[n - 1][i] \in FiveBit)
    => \A n \in 1 .. Len(dstTexture) : dstTexture[n] = srcTex[n - 1]
=============================================================================
