---------------------------- MODULE StopStream -----------------------------
(***************************************************************************)
(* MLXChatService.stream_complete (chat.py): how generated text becomes    *)
(* chunks, and how stop sequences end it.  The model's responses bring the *)
(* text in pieces, which may cut a stop sequence anywhere or be empty; so  *)
(* the end of the text is held back as long as it may begin one.           *)
(*                                                                         *)
(* Texts are sequences of letters.  Positions count from 0, as in the      *)
(* code: text[a:b] is Slice(text, a, b).                                   *)
(***************************************************************************)
EXTENDS Integers, Sequences, FiniteSetsExt

CONSTANTS
  Letters,
  Pieces,    \* what one response of the model may bring
  Stops,     \* the values of the request's `stop`
  MaxLength  \* bound on the text (max_tokens)

ASSUME TextAssumption ==
  /\ Pieces \subseteq Seq(Letters)
  /\ MaxLength \in Nat
  /\ \A s \in Stops : /\ s.kind \in {"str", "list"}
                      /\ s.values \in Seq(Seq(Letters))
                      /\ s.kind = "str" => Len(s.values) = 1

VARIABLES
  stop_values,    \* what _normalize_stop makes of `stop`
  text,
  emitted_until,
  output,         \* the chunks yielded so far, joined
  phase           \* in the loop, out of it by a stop sequence or without, or at the end

textVars == << stop_values, text, emitted_until, output, phase >>

TextTypeOK ==
  /\ stop_values \subseteq Seq(Letters)
  /\ text \in Seq(Letters)
  /\ emitted_until \in 0..Len(text)
  /\ output \in Seq(Letters) /\ Len(output) <= Len(text)
  /\ phase \in {"generating", "stopped", "exhausted", "done"}

-----------------------------------------------------------------------------
Slice(t, a, b) == SubSeq(t, a + 1, b)

\* An empty string counts in a list no more, but alone it does.
NormalizeStop(s) == {s.values[i] : i \in {k \in DOMAIN s.values :
                                            s.kind = "list" => s.values[k] # << >>}}

\* str.find, for all values at once.
StopIndices(t) == {i \in 0..Len(t) : \E v \in stop_values :
                     i + Len(v) <= Len(t) /\ Slice(t, i, i + Len(v)) = v}

\* Mutant: the last stop sequence in the text.
LastStopIndex(t) == Max(StopIndices(t))

FirstStopIndex(t) == Min(StopIndices(t))

\* Mutant: the shortest stop sequence is held back.
HoldShortest(t) ==
  IF stop_values = {} THEN Len(t)
  ELSE Max({emitted_until, Len(t) - (Min({Len(v) : v \in stop_values}) - 1)})

SafeStreamEnd(t) ==
  IF stop_values = {} THEN Len(t)
  ELSE Max({emitted_until, Len(t) - (Max({Len(v) : v \in stop_values}) - 1)})

TextInit ==
  /\ stop_values \in {NormalizeStop(s) : s \in Stops}
  /\ text = << >>
  /\ emitted_until = 0
  /\ output = << >>
  /\ phase = "generating"

\* A response brings a stop sequence to its end: what is before it is yielded.
RespondStop(piece) ==
  /\ phase = "generating"
  /\ Len(text \o piece) <= MaxLength
  /\ StopIndices(text \o piece) # {}
  /\ LET stop_index == FirstStopIndex(text \o piece) IN
     /\ text' = text \o piece
     /\ output' = output \o Slice(text', emitted_until, stop_index)
     /\ emitted_until' = stop_index
  /\ phase' = "stopped"
  /\ UNCHANGED stop_values

\* A response brings no stop sequence to its end: what cannot be the beginning of
\* one is yielded.
Respond(piece) ==
  /\ phase = "generating"
  /\ Len(text \o piece) <= MaxLength
  /\ StopIndices(text \o piece) = {}
  /\ text' = text \o piece
  /\ emitted_until' = SafeStreamEnd(text')
  /\ output' = output \o Slice(text', emitted_until, SafeStreamEnd(text'))
  /\ UNCHANGED << stop_values, phase >>

\* The model is at its end, or at max_tokens.
ExhaustText ==
  /\ phase = "generating"
  /\ phase' = "exhausted"
  /\ UNCHANGED << stop_values, text, emitted_until, output >>

\* Behind the loop: the rest of the text is yielded, whatever ended the loop.
Finish ==
  /\ phase \in {"stopped", "exhausted"}
  /\ phase' = "done"
  /\ output' = output \o Slice(text, emitted_until, Len(text))
  /\ UNCHANGED << stop_values, text, emitted_until >>

TextNext == ExhaustText \/ Finish \/ \E piece \in Pieces : RespondStop(piece) \/ Respond(piece)

TextSpec == TextInit /\ [][TextNext]_textVars

-----------------------------------------------------------------------------
(* Properties *)

\* While the model generates, no letter has been yielded that may still turn out
\* to begin a stop sequence, however the pieces cut it (chat.py:149, :260-264).
NoStopSequenceBegun ==
  phase = "generating" =>
    \A i \in 0..emitted_until - 1 : \A v \in stop_values :
      ~ \E n \in 0..Len(v) : Slice(text, i, Len(text)) = SubSeq(v, 1, n)

\* When a stop sequence is found, what was yielded is the text before the first one,
\* and a text without any arrives whole: nothing is missing, nothing comes twice
\* (chat.py:138-147, :166-170, :251-257).
CutIsExact ==
  /\ phase = "stopped" => output = Slice(text, 0, Min(StopIndices(text)))
  /\ phase = "done" /\ StopIndices(text) = {} => output = text

\* README.md:265 promises OpenAI's contract for chat completions, by which the
\* text returned does not contain the stop sequence.
NoStopSequenceReturned ==
  (phase = "done" /\ << >> \notin stop_values) => StopIndices(output) = {}
=============================================================================
