------------------------------ MODULE Diffusion ------------------------------
(***************************************************************************)
(* Floyd-Steinberg dithering as dither555.glsl and bc1.glsl write it out,  *)
(* twice in bc1.glsl: texel by texel over a 4x4 block, in scan order.      *)
(***************************************************************************)
EXTENDS Integers

Truncated(n, d) == IF n < 0 THEN -((-n) \div d) ELSE n \div d

Clamped(n, limit) == IF n < 0 THEN 0 ELSE IF n > limit THEN limit ELSE n

(* What the texels before texel k hand on to it, times 16; e is the        *)
(* sequence of their errors, e[k] being that of the texel before.          *)
Carried(e, k) ==
  (IF k % 4 > 0 THEN 7 * e[k] ELSE 0)
  + (IF k < 4 THEN 0
     ELSE 5 * e[k - 3] + (IF k % 4 < 3 THEN 3 * e[k - 2] ELSE 0) + (IF k % 4 > 0 THEN e[k - 4] ELSE 0))
=============================================================================
