---------------------------- MODULE MCReviseSave ----------------------------
(* TLC instances of the revising editor's save and undo.                   *)
EXTENDS ReviseHistory

Scan == INSTANCE ReviseScan WITH PrefixCap <- 2
ScanBytes(bytes) == Scan!ScanLayer(bytes)

\* Field 1 as a message under a padded length prefix, holding a scalar and an
\* empty message; then a scalar.
PaddedSource == <<10, 132, 0, 8, 1, 10, 0, 8, 2>>

OneWord == {<<7>>}
\* A payload of the padded body's own length, and a shorter one.
TwoPayloads == {<<10, 2, 8, 3>>, << >>}

Heads == [Scalar |-> 24, Len |-> 26]

Windows(bytes) == {SubSeq(bytes, i, j) : i \in 1..Len(bytes) + 1, j \in 0..Len(bytes)}
BodiesOf == Windows(Source) \cup UNION {Windows(p) : p \in Payloads}
ScannedOf == [b \in BodiesOf |-> Scan!ScanLayer(b)]
=============================================================================
