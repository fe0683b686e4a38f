------------------------------ MODULE MCRevise ------------------------------
(* TLC instances of the revising editor.                                   *)
EXTENDS ReviseReads

Scan == INSTANCE ReviseScan WITH PrefixCap <- 2

\* A message that does not scan, one holding a scalar and an empty message, a scalar.
MixedSource == <<10, 1, 8, 10, 4, 8, 1, 10, 0, 8, 2>>

OneWord == {<<7>>}
\* A payload that scans to one message record, and one that does not scan.
SomePayloads == {<<10, 0>>, <<8>>}

Windows(bytes) == {SubSeq(bytes, i, j) : i \in 1..Len(bytes) + 1, j \in 0..Len(bytes)}
BodiesOf == Windows(Source) \cup UNION {Windows(p) : p \in Payloads}
ScannedOf == [b \in BodiesOf |-> Scan!ScanLayer(b)]
=============================================================================
