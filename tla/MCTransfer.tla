----------------------------- MODULE MCTransfer -----------------------------
(* TLC instances of the revising editor with source transfer.              *)
EXTENDS TransferSave

Scan == INSTANCE ReviseScan WITH PrefixCap <- 2, Broken <- << >>
Rec(bytes, at) == Scan!RecordAt(bytes, at)

\* A message under a padded prefix, holding a scalar.
OneMessage == <<10, 130, 0, 8, 1>>
OneWord == {<<7>>}
OnePayload == {<<8, 3>>}
OneImport == {<<10, 2, 8, 5>>}
Heads == [Scalar |-> 24, Len |-> 26]

All == {"over moves", "clears over edits", "over authored framing"}
AllButMoves == All \ {"over moves"}
AllButClears == All \ {"clears over edits"}
AllButFraming == All \ {"over authored framing"}
=============================================================================
