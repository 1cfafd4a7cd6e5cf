------------------------------ MODULE CommandLine -----------------------------
(***************************************************************************)
(* parseCmdLine: the arguments of the program, taken in order.             *)
(*                                                                         *)
(* An argument is a record: opt says how startsWith recognized it, value   *)
(* what follows.  "unknown" stands for any other text with two dashes, and *)
(* "file" for one without.                                                 *)
(***************************************************************************)
EXTENDS Integers, Sequences

CONSTANTS
  CodecName,     \* the names of the enumerators
  CommandLines   \* sequences of arguments the program may be started with

ASSUME CommandLineAssumption ==
  \A line \in CommandLines :
    /\ Len(line) \in Nat /\ DOMAIN line = 1 .. Len(line)
    /\ \A i \in DOMAIN line : line[i].opt = "quality" => line[i].value \in Int

VARIABLES
  args,      \* argv
  next,      \* i
  params,    \* CmdLineParams, filenames as far as given
  verdict    \* "parsing", then what parseCmdLine returns

cmdVars == <<args, next, params, verdict>>

UCHAR == 256

CmdInit ==
  /\ args \in CommandLines
  /\ next = 1
  /\ params = [quality |-> 2, dither |-> FALSE, usingRenderDoc |-> FALSE, codec |-> "etc1",
               filename |-> <<>>]
  \* nargs counts the name of the program too
  /\ verdict = IF Len(args) < 2 THEN "rejected" ELSE "parsing"

Parsing(opt) == verdict = "parsing" /\ next <= Len(args) /\ args[next].opt = opt

Accept(newParams) ==
  /\ params' = newParams
  /\ next' = next + 1
  /\ UNCHANGED <<args, verdict>>

RejectLine == verdict' = "rejected" /\ UNCHANGED <<args, next, params>>

Codec ==
  /\ Parsing("codec")
  /\ IF args[next].value \in CodecName
     THEN Accept([params EXCEPT !.codec = args[next].value]) ELSE RejectLine

(* Mutant: the value is cut to 8 bits and not limited.                     *)
LimitedNot(n) == n % UCHAR

(* uint8_t of atoi, then std::min with 2.                                  *)
Limited(n) == IF n % UCHAR < 2 THEN n % UCHAR ELSE 2

Quality == Parsing("quality") /\ Accept([params EXCEPT !.quality = Limited(args[next].value)])
Dither == Parsing("dither") /\ Accept([params EXCEPT !.dither = TRUE])
RenderDoc == Parsing("renderdoc") /\ Accept([params EXCEPT !.usingRenderDoc = TRUE])
HelpOrUnknown == (Parsing("help") \/ Parsing("unknown")) /\ RejectLine

Filename ==
  /\ Parsing("file")
  /\ IF Len(params.filename) < 2
     THEN Accept([params EXCEPT !.filename = Append(@, args[next].value)]) ELSE RejectLine

EndOfLine ==
  /\ verdict = "parsing" /\ next > Len(args)
  /\ verdict' = IF Len(params.filename) = 2 THEN "accepted" ELSE "rejected"
  /\ UNCHANGED <<args, next, params>>

CmdNext == Codec \/ Quality \/ Dither \/ RenderDoc \/ HelpOrUnknown \/ Filename \/ EndOfLine

CmdSpec == CmdInit /\ [][CmdNext]_cmdVars

-----------------------------------------------------------------------------

Given(opt) == {i \in DOMAIN args : args[i].opt = opt}

(* The value of the last such argument, or the default; always one.        *)
Asked(opt, default) ==
  IF Given(opt) = {} THEN {default}
  ELSE {args[i].value : i \in {i \in Given(opt) : \A j \in Given(opt) : j <= i}}

(* A line that is accepted asks for exactly what its arguments say, in     *)
(* whatever order: the last codec and quality, every switch, the picture   *)
(* before the result and no argument passed over ("--quality: Value in     *)
(* range [0; 2]"; larger bytes mean 2).                                    *)
RequestIsWhatWasAsked ==
  verdict = "accepted" =>
    /\ params.codec \in Asked("codec", "etc1")
    /\ \E quality \in Asked("quality", 2) :
         quality \in 0 .. UCHAR - 1 => params.quality = (IF quality > 2 THEN 2 ELSE quality)
    /\ params.dither = (Given("dither") # {})
    /\ params.usingRenderDoc = (Given("renderdoc") # {})
    /\ \E i, j \in Given("file") :
         i < j /\ Given("file") = {i, j} /\ params.filename = <<args[i].value, args[j].value>>
    /\ Given("help") \cup Given("unknown") = {}
    /\ \A i \in Given("codec") : args[i].value \in CodecName
=============================================================================
