---------------------------- MODULE MCJobControl ----------------------------
(* JobControl on small instances: two jobs, a and b, model values. *)
EXTENDS JobControl, TLC

CONSTANTS a, b

\* A job of two lines and one of a single line.
TwoOne == (a :> 2) @@ (b :> 1)

\* Two jobs of one line each.
OneOne == (a :> 1) @@ (b :> 1)

\* A single job of two lines.
JustTwo == a :> 2

=============================================================================
