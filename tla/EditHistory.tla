----------------------------- MODULE EditHistory -----------------------------
(***************************************************************************)
(* What a revising editor promises about undo: a document, and the stack   *)
(* of the documents before it.  A command may make any document of this    *)
(* one; a revert gives back exactly the last one left behind.              *)
(***************************************************************************)
EXTENDS Sequences, Integers

VARIABLES doc, past

Init == past = << >>

\* The document may become any other, or stay as it is.
Edit == past' = Append(past, doc)

Revert ==
  /\ past # << >>
  /\ doc' = past[Len(past)]
  /\ past' = SubSeq(past, 1, Len(past) - 1)

Next == Edit \/ Revert

Spec == Init /\ [][Next]_<<doc, past>>
=============================================================================
