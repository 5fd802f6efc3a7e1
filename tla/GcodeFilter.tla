---------------------------- MODULE GcodeFilter ----------------------------
(***************************************************************************)
(* Two readings of a G-code line: the pipeline's, which decides what of a  *)
(* file becomes a line of the job, and the validator's, which decides what *)
(* the command engine takes.  A line is what the two tell apart:           *)
(*   head   its first character ("none": blank, or nothing but a comment)  *)
(*   form   what follows the number of the command: "spaced" white space   *)
(*          or nothing (G1 X10), "dotted" a subcode (G92.1), "packed" a    *)
(*          parameter (G1X10)                                              *)
(*   long   more than COMMAND_MAX_LENGTH characters without the comment    *)
(*   note   a comment after the command                                    *)
(***************************************************************************)
EXTENDS Sequences, SequencesExt

Heads == {"G", "M", "T", "N", ";", "%", "other", "none"}
Forms == {"spaced", "dotted", "packed"}
RawLines == [head : Heads, form : Forms, long : BOOLEAN, note : BOOLEAN]

\* A line that starts with its comment is empty without it.
StripLine(raw) == [raw EXCEPT !.note = FALSE, !.head = IF @ = ";" THEN "none" ELSE @]

IsExecutable(line) == line.head \in {"G", "M", "T", "N"}

\* load_from_string of a file, a sequence of raw lines.
LoadFromString(raw) ==
    SelectSeq([i \in DOMAIN raw |-> StripLine(raw[i])], IsExecutable)

\* The tests of validate_command, in its order; what follows the number must
\* be white space, so a comment that is not set apart fails too.
NotEmpty(line)     == line.head # "none"
ShortEnough(line)  == ~line.long
KnownPrefix(line)  == line.head \in {"G", "M", "T", ";"}
WellFormed(line)   == line.form = "spaced"
ValidateCommand(line) ==
    NotEmpty(line) /\ ShortEnough(line) /\ KnownPrefix(line) /\ WellFormed(line)

\* The lines of a file that the engine will refuse.
Refused(raw) == {i \in DOMAIN LoadFromString(raw) : ~ValidateCommand(LoadFromString(raw)[i])}
=============================================================================
