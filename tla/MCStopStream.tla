---------------------------- MODULE MCStopStream ---------------------------
(* Instances of StopStream for TLC. *)
EXTENDS StopStream

CONSTANTS a, b

AB == {a, b}

\* A token may bring no text, while the detokenizer holds back its bytes.
PiecesUpTo2 == UNION {[1..n -> AB] : n \in 0..2}

String(v) == [kind |-> "str", values |-> << v >>]
List(vs) == [kind |-> "list", values |-> vs]

\* None, one string, an empty one, a list with an empty string in it, and lists
\* of different lengths that share their beginnings or overlap themselves.
SomeStops == { List(<< >>), String(<< >>), String(<< a >>), String(<< a, b, a >>),
               List(<< << >>, << b, b >> >>), List(<< << a, a, b >>, << b >> >>),
               List(<< << a, b >>, << a, b, b, a >> >>) }
=============================================================================
