---------------------------- MODULE ReviseHistory ----------------------------
(***************************************************************************)
(* The revising editor with the documents it would have saved, and the     *)
(* proof obligation that its undo is exact: seen between calls, it is an   *)
(* EditHistory of saved bytes.                                             *)
(***************************************************************************)
EXTENDS ReviseSave

VARIABLES
  doc,     \* what a save gave when the last call began
  past     \* the same, before each of the commands pending then

hvars == <<rows, layers, store, log, pc, climber, job, orphans, doc, past>>

HInit == Init /\ doc = Save /\ past = << >>

\* As a call begins, the document is read off the editor at rest; the log says
\* whether the call before it left a document behind or took one back.
HNext ==
  /\ Next
  /\ doc' = IF Quiet THEN Save ELSE doc
  /\ past' = CASE Quiet /\ Len(log) > Len(past) -> Append(past, doc)
               [] Quiet /\ Len(log) < Len(past) -> SubSeq(past, 1, Len(past) - 1)
               [] OTHER -> past

HSpec == HInit /\ [][HNext]_hvars

History == INSTANCE EditHistory

\* Undo is exact: a revert gives back the bytes a save gave before the command
\* it takes back, whatever was browsed, reopened or orphaned in between; and
\* browsing changes no document.
UndoIsExact == History!Spec
=============================================================================
