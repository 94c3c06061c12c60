------------------------------- MODULE Delivery -------------------------------
(***************************************************************************)
(* What an encoder of text promises the visitor, whatever buffers and      *)
(* callbacks it works with: the feeder is given the text of the input,     *)
(* piece by piece, from its beginning on; the encoder reports success once *)
(* all of it was given and nothing was refused, and it refuses an input    *)
(* only for what the input is.                                             *)
(***************************************************************************)
EXTENDS Sequences, SequencesExt

CONSTANTS
  Inputs,     \* what may have to be shown
  Text(_),    \* Text(in): the bytes that show it
  Verdict(_)  \* Verdict(in): "ok", or how an input that has no text ends

VARIABLES
  input,      \* what is shown
  fed,        \* all bytes the feeder was given
  result      \* "running", or what the encoder returned

Init == input \in Inputs /\ fed = <<>> /\ result = "running"

\* Of an input without a text anything may go out: its caller fails.
Feed ==
  /\ result = "running" /\ UNCHANGED <<input, result>>
  /\ fed' # fed /\ IsPrefix(fed, fed')
  /\ Verdict(input) = "ok" => IsPrefix(fed', Text(input))

Succeed ==
  /\ result = "running" /\ result' = "ok" /\ UNCHANGED <<input, fed>>
  /\ Verdict(input) = "ok" /\ fed = Text(input)

Reject ==
  /\ result = "running" /\ result' \notin {"running", "ok"} /\ UNCHANGED <<input, fed>>
  /\ result' = Verdict(input)

\* The feeder refused a piece.
Refused ==
  /\ result = "running" /\ result' = "refused" /\ UNCHANGED <<input, fed>>

Next == Feed \/ Succeed \/ Reject \/ Refused

Spec == Init /\ [][Next]_<<input, fed, result>>
===============================================================================
