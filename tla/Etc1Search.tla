------------------------------ MODULE Etc1Search ------------------------------
(***************************************************************************)
(* The search of one thread of etc1.glsl for the colour of one subblock:   *)
(* the packer for subblocks of one colour, a scan of the colours around    *)
(* the average, and after each improvement a few refinements; at better    *)
(* qualities a second, wider scan when the error is still large.           *)
(*                                                                         *)
(* A colour is <<r, g, b>>, each 0 .. limit.  The error of a colour, which *)
(* the shader computes from the pixels, is its distance from the colour    *)
(* that would be best.  A refinement may propose any colour of Refined:    *)
(* line 280 indexes a four-component vector out of range, so the deltas    *)
(* behind the proposal are undefined.                                      *)
(***************************************************************************)
EXTENDS Integers, Sequences, Etc1Constants

CONSTANTS
  limit,       \* 15 or 31
  Refined,     \* what a refinement may propose
  Selectors,   \* the selectors pixels get
  Subblocks,   \* what one thread is asked to find
  refinement_error_thresh0, refinement_error_thresh1

cETC1ColorDeltaMin == -4
cETC1ColorDeltaMax == 3

Channel == 1 .. 3
Colour == [Channel -> 0 .. limit]

ASSUME Etc1SearchAssumption ==
  /\ limit \in Nat
  /\ Refined \subseteq Colour
  /\ Selectors \subseteq 0 .. 3
  /\ Subblocks \subseteq [avgColourLS : Colour, best : Colour, bUseColor4 : BOOLEAN,
                      baseColor5 : Colour, subblockIdx : 0 .. 1, uniform : BOOLEAN,
                      quality : 0 .. 2]

VARIABLES
  sought,        \* the subblock, what is known of it, and p_quality
  bestSolution,  \* the PotentialSolution of this subblock
  pSelectors,    \* the selectors the refinements work with
  applied,       \* what the last refinement computed its delta from
  scan,          \* the deltas of the pass: least, largest and the step
  rgb,           \* the scanned colour being refined
  trial,         \* refinementTrial
  tried,         \* the colours the scans of this pass proposed
  pc

searchVars == <<sought, bestSolution, pSelectors, applied, scan, rgb, trial, tried, pc>>

Abs(n) == IF n < 0 THEN -n ELSE n
errorOf(c) == Abs(c[1] - sought.best[1]) + Abs(c[2] - sought.best[2]) + Abs(c[3] - sought.best[3])

-----------------------------------------------------------------------------
(* EncoderETC1::execute01 chooses the parameters by quality.               *)
ScanDeltaAbsMax == CASE sought.quality = cHighQuality -> 4 [] sought.quality = cMediumQuality -> 1 [] OTHER -> 0
MaxRefinementTrials == IF sought.quality = cLowQuality THEN 2 ELSE 4

(* Mutant: zero is counted on both sides.                                  *)
getScanDeltaTwoZeros(i, absMin, absMax) ==
  LET numAbsDeltas == absMax - absMin + 1
  IN  IF i < numAbsDeltas THEN i - absMax ELSE absMin + i - numAbsDeltas

getScanDelta(i, absMin, absMax) ==
  LET numAbsDeltas == absMax - absMin + 1
  IN  IF i < numAbsDeltas THEN i - absMax
      ELSE absMin + i + (IF absMin = 0 THEN 1 ELSE 0) - numAbsDeltas

ScanDeltaSize == (scan.max - scan.min) * 2 + (IF scan.min = 0 THEN 1 ELSE 2)

(* The delta of step di of the scan.                                       *)
delta(di) ==
  LET size == ScanDeltaSize
      at(n) == getScanDelta(n, scan.min, scan.max)
  IN  <<at(di % size), at((di \div size) % size), at(di \div (size * size))>>

constrainAgainstBaseColor5 == ~sought.bUseColor4 /\ sought.subblockIdx # 0

WithinDelta(c) ==
  \A i \in Channel : c[i] - sought.baseColor5[i] \in cETC1ColorDeltaMin .. cETC1ColorDeltaMax

(* Mutant: the constraint is not looked at.                                *)
AcceptsAny(c) == errorOf(c) < bestSolution.error

(* evaluate_solution returns success.                                      *)
Accepts(c) ==
  /\ constrainAgainstBaseColor5 => WithinDelta(c)
  /\ errorOf(c) < bestSolution.error

(* Mutant: the selectors of the solution that was replaced stay.           *)
solutionOldSelectors(c) ==
  [error |-> errorOf(c), rgbIntLS |-> c, selectors |-> bestSolution.selectors, packed |-> FALSE]

(* The selectors and the intensity table are those found for colour c.     *)
solution(c) == [error |-> errorOf(c), rgbIntLS |-> c, selectors |-> c, packed |-> FALSE]

-----------------------------------------------------------------------------

Zero == <<0, 0, 0>>

SearchInit ==
  /\ sought \in Subblocks
  /\ bestSolution = [error |-> FLT_MAX, rgbIntLS |-> Zero, selectors |-> Zero, packed |-> FALSE]
  /\ pSelectors = Zero
  /\ applied = [selectors |-> Zero, solution |-> Zero, index |-> 0]
  /\ scan = [min |-> 0, max |-> ScanDeltaAbsMax, di |-> 0, pass |-> 1]
  /\ rgb = Zero
  /\ trial = 0
  /\ tried = {}
  /\ pc = "pack"

(* The colours pack_etc1_block_solid_color_constrained can choose for      *)
(* bUseDiff: 5 bits within reach of the base colour, or any 4 bits.        *)
PackerChoice(bUseDiff) == {c \in Refined : bUseDiff => WithinDelta(c)}

(* It leaves bestSolution.error as it is.  The call passes bUseColor4 for  *)
(* the parameter bUseDiff.                                                 *)
Pack ==
  /\ pc = "pack"
  /\ IF sought.quality >= cMediumQuality /\ (sought.subblockIdx > 0 \/ sought.bUseColor4) /\ sought.uniform
     THEN \/ \E c \in PackerChoice(sought.bUseColor4) :
               bestSolution' = [bestSolution EXCEPT !.rgbIntLS = c, !.selectors = c, !.packed = TRUE]
          \/ UNCHANGED bestSolution
     ELSE UNCHANGED bestSolution
  /\ pc' = "scan"
  /\ UNCHANGED <<sought, pSelectors, applied, scan, rgb, trial, tried>>

Scanning == pc = "scan" /\ scan.di < ScanDeltaSize * ScanDeltaSize * ScanDeltaSize

candidate ==
  LET d == delta(scan.di) IN [i \in Channel |-> sought.avgColourLS[i] + d[i]]

NextStep == scan' = [scan EXCEPT !.di = @ + 1]

(* The colour is outside of 0 .. limit or no better.                       *)
ScanInVain ==
  /\ Scanning
  /\ candidate \notin Colour \/ ~Accepts(candidate)
  /\ tried' = tried \cup {candidate}
  /\ NextStep
  /\ UNCHANGED <<sought, bestSolution, pSelectors, applied, rgb, trial, pc>>

ScanAndImprove ==
  /\ Scanning
  /\ candidate \in Colour /\ Accepts(candidate)
  /\ bestSolution' = solution(candidate)
  /\ pSelectors' = candidate
  /\ rgb' = candidate
  /\ trial' = 0
  /\ tried' = tried \cup {candidate}
  /\ pc' = "refine"
  /\ UNCHANGED <<sought, applied, scan>>

MaxTrials ==
  IF rgb = sought.avgColourLS THEN MaxRefinementTrials ELSE 2

(* The delta of every pixel comes from the intensity table and the colour  *)
(* of bestSolution and from pSelectors, which holds selectors times 255;   *)
(* line 280 multiplies by 255 once more.                                   *)
RefineFrom(s) ==
  applied' = [selectors |-> pSelectors, solution |-> bestSolution.selectors, index |-> s * 255]

(* No delta, or a colour that was tried before: the refinement ends.       *)
SkipRefinement ==
  /\ pc = "refine" /\ trial < MaxTrials
  /\ \E s \in Selectors : RefineFrom(s)
  /\ pc' = "scan"
  /\ NextStep
  /\ UNCHANGED <<sought, bestSolution, pSelectors, rgb, trial, tried>>

Refine ==
  /\ pc = "refine" /\ trial < MaxTrials
  /\ \E s \in Selectors : RefineFrom(s)
  /\ \E c \in Refined :
       /\ c \notin {rgb, bestSolution.rgbIntLS, sought.avgColourLS}
       /\ IF Accepts(c)
          THEN /\ bestSolution' = solution(c)
               /\ trial' = trial + 1
               /\ UNCHANGED <<pc, scan>>
          ELSE /\ pc' = "scan" /\ NextStep
               /\ UNCHANGED <<bestSolution, trial>>
  /\ UNCHANGED <<sought, pSelectors, rgb, tried>>

LastRefinement ==
  /\ pc = "refine" /\ trial = MaxTrials
  /\ pc' = "scan"
  /\ NextStep
  /\ UNCHANGED <<sought, bestSolution, pSelectors, applied, rgb, trial, tried>>

WiderScan ==
  IF sought.quality = cMediumQuality THEN [min |-> 2, max |-> 3, di |-> 0, pass |-> 2]
  ELSE [min |-> 5, max |-> IF bestSolution.error > refinement_error_thresh1 THEN 8 ELSE 5,
        di |-> 0, pass |-> 2]

EndOfPass ==
  /\ pc = "scan" /\ ~Scanning
  /\ IF /\ scan.pass = 1 /\ sought.quality >= cMediumQuality
        /\ bestSolution.error > refinement_error_thresh0
     THEN scan' = WiderScan /\ tried' = {} /\ UNCHANGED pc
     ELSE pc' = "done" /\ UNCHANGED <<scan, tried>>
  /\ UNCHANGED <<sought, bestSolution, pSelectors, applied, rgb, trial>>

SearchEnds == pc = "done" /\ UNCHANGED searchVars

SearchNext ==
  \/ Pack \/ ScanInVain \/ ScanAndImprove \/ SkipRefinement \/ Refine \/ LastRefinement
  \/ EndOfPass \/ SearchEnds

SearchSpec == SearchInit /\ [][SearchNext]_searchVars

-----------------------------------------------------------------------------

(* The colours a pass must look at.                                        *)
Around ==
  {c \in Colour : \A i \in Channel : Abs(c[i] - sought.avgColourLS[i]) \in scan.min .. scan.max}

EndsPass == pc = "scan" /\ ~Scanning

(* A pass looks at every colour whose channels all differ from the average *)
(* by scanDeltaAbsMin to scanDeltaAbsMax, on either side, and its result   *)
(* is no worse than any of them the constraint admits.                     *)
NothingIsMissed ==
  EndsPass =>
    \A c \in Around :
      /\ c \in tried
      /\ (constrainAgainstBaseColor5 => WithinDelta(c)) => bestSolution.error <= errorOf(c)

(* The error by which the four threads are compared is the error of the    *)
(* colour and selectors that will be stored, whether they come from the    *)
(* scan, from a refinement or, overwritten, from the packer.               *)
ErrorIsOfSolution ==
  bestSolution.error < FLT_MAX =>
    /\ bestSolution.error = errorOf(bestSolution.rgbIntLS)
    /\ bestSolution.selectors = bestSolution.rgbIntLS
    /\ ~bestSolution.packed

(* A second subblock of differential mode that can win is within the three *)
(* signed bits of its base colour, and every winner is a colour.           *)
ConstraintIsKept ==
  bestSolution.error < FLT_MAX =>
    /\ bestSolution.rgbIntLS \in Colour
    /\ constrainAgainstBaseColor5 => WithinDelta(bestSolution.rgbIntLS)

(* "attempt to refine the current solution": the selectors, intensity      *)
(* table and colour behind a refinement are of one solution.               *)
RefinesTheCurrent == applied.selectors = applied.solution

(* "Compute actual delta being applied to each pixel": the selector of a   *)
(* pixel indexes the four modifiers of the table.                          *)
IndexIsSelector == applied.index \in 0 .. 3

(* "subblockIdx = 1 depends on subblockIdx = 0 when bUseColor4 = false":   *)
(* then the packer, too, stays within reach of the base colour.            *)
PackerKeepsConstraint ==
  bestSolution.packed /\ constrainAgainstBaseColor5 => WithinDelta(bestSolution.rgbIntLS)
=============================================================================
