----------------------------- MODULE IncludeParser ----------------------------
(***************************************************************************)
(* IncludeParser: #include lines of a shader are replaced by the files     *)
(* they name, again and again until none is left.                          *)
(*                                                                         *)
(* A source is a sequence of lines.  A line is a record: kind is "text",   *)
(* "version", "include", "comment" (an include after two slashes) or "bad" *)
(* (an include with no closing quote), and name tells lines and files      *)
(* apart.                                                                  *)
(***************************************************************************)
EXTENDS Integers, Sequences, SequencesExt

CONSTANT
  Tree   \* the directories to read from: file names to their lines, the
         \* one to load first being "root"

(* Files may include each other in any way but in a circle.                *)
Named(t, f) == {t[f][i].name : i \in {i \in DOMAIN t[f] : t[f][i].kind \in {"include", "comment"}}}

ASSUME IncludeParserAssumption ==
  \A t \in Tree :
    /\ "root" \in DOMAIN t /\ \A f \in DOMAIN t : t[f] # <<>>
    /\ \E depth \in [DOMAIN t -> 0 .. Cardinality(DOMAIN t)] :
         \A f \in DOMAIN t : \A g \in Named(t, f) \cap DOMAIN t : depth[g] < depth[f]

VARIABLES
  tree,     \* the directory of this run
  source,   \* m_source
  at,       \* the line of startPos
  parsed    \* "reading", then what loadFromFile returns

parserVars == <<tree, source, at, parsed>>

ParserInit ==
  /\ tree \in Tree
  /\ source = tree["root"]
  /\ at = 1
  /\ parsed = "reading"

Directive == {"include", "comment", "bad"}

(* loadFromFileInto removes #version from the first line.                  *)
WithoutVersion(lines) == IF lines[1].kind = "version" THEN Tail(lines) ELSE lines

(* A comment is told by the newline before it: the first line never is.    *)
Commented(i) == source[i].kind = "comment" /\ i > 1

(* What replaces the include of line i.  On a commented first line the     *)
(* slashes stay, before the first line of the file.                        *)
Content(i) ==
  LET lines == WithoutVersion(tree[source[i].name])
  IN  IF source[i].kind = "include" \/ lines = <<>> THEN lines
      ELSE [lines EXCEPT ![1].kind = IF @ = "include" THEN "comment" ELSE @]

(* Mutant: the search goes on after the text that was put in.              *)
ResumeAfter(i, lines) == i + Len(lines)

Resume(i, lines) == i

(* Mutant: an include that is left alone is found again.                   *)
LeaveStuck(i) == at' = i /\ UNCHANGED <<source, parsed>>

Leave(i) == at' = i + 1 /\ UNCHANGED <<source, parsed>>

Found(i) == parsed = "reading" /\ SelectInSubSeq(source, at, Len(source), LAMBDA l : l.kind \in Directive) = i

SkipComment ==
  /\ \E i \in DOMAIN source : Found(i) /\ Commented(i) /\ Leave(i)
  /\ UNCHANGED tree

InvalidSyntax ==
  /\ \E i \in DOMAIN source : Found(i) /\ source[i].kind = "bad"
  /\ parsed' = "failed"
  /\ UNCHANGED <<tree, source, at>>

(* A file that cannot be opened is left to the compiler.                   *)
NoSuchFile ==
  /\ \E i \in DOMAIN source :
       /\ Found(i) /\ ~Commented(i)
       /\ source[i].kind # "bad" /\ source[i].name \notin DOMAIN tree
       /\ Leave(i)
  /\ UNCHANGED tree

Include ==
  /\ \E i \in DOMAIN source :
       /\ Found(i) /\ ~Commented(i)
       /\ source[i].kind # "bad" /\ source[i].name \in DOMAIN tree
       /\ source' = SubSeq(source, 1, i - 1) \o Content(i) \o SubSeq(source, i + 1, Len(source))
       /\ at' = Resume(i, Content(i))
  /\ UNCHANGED <<tree, parsed>>

EndOfSource ==
  /\ parsed = "reading"
  /\ \A i \in at .. Len(source) : source[i].kind \notin Directive
  /\ parsed' = "parsed"
  /\ UNCHANGED <<tree, source, at>>

ParserNext == SkipComment \/ InvalidSyntax \/ NoSuchFile \/ Include \/ EndOfSource

-----------------------------------------------------------------------------

(* What #include means: the lines of the file in the place of the          *)
(* directive, its own directives replaced likewise.                        *)
RECURSIVE Expanded(_, _)
Expanded(t, lines) ==
  FlattenSeq([i \in DOMAIN lines |->
    IF lines[i].kind = "include" /\ lines[i].name \in DOMAIN t
    THEN Expanded(t, WithoutVersion(t[lines[i].name])) ELSE <<lines[i]>>])

(* Scanning the text that was just put in, instead of recursion, gives the *)
(* same: every include of every depth is expanded once and in its place,   *)
(* comments and missing files stay, and the parser fails only at a         *)
(* directive it would have reached (parseIncludeFiles; the text begins     *)
(* with #version, as the shaders do).                                      *)
ExpansionIsRecursive ==
  parsed # "idle" /\ tree["root"][1].kind = "version" =>
    LET all == Expanded(tree, tree["root"])
        bad == \E i \in DOMAIN all : all[i].kind = "bad"
    IN  /\ parsed = "parsed" => source = all /\ ~bad
        /\ parsed = "failed" => bad

(* "Backtrack to see if have to skip commented lines": the first line is   *)
(* no exception.                                                           *)
CommentsAreSkipped == parsed = "parsed" => source = Expanded(tree, tree["root"])

(* As long as no file includes itself, however deep, the expansion ends,   *)
(* the parser taking its steps (the loop over startPos).                   *)
ExpansionEnds == parsed = "reading" ~> parsed \in {"parsed", "failed"}
=============================================================================
