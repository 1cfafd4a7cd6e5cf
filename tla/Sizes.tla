-------------------------------- MODULE Sizes --------------------------------
(* Roundings of sizes that the encoders and CpuImage share.                *)
EXTENDS Integers

alignToNextMultiple(offset, alignment) == ((offset + alignment - 1) \div alignment) * alignment
=============================================================================
