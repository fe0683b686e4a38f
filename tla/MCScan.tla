------------------------------- MODULE MCScan -------------------------------
(***************************************************************************)
(* Constants of the scan runs.                                             *)
(***************************************************************************)
EXTENDS ScanReference

\* Windows narrowed to keep a too-wide or out-of-class word within a few bytes.
NarrowTag == [cap |-> 2, last |-> 1]
NarrowLen == [cap |-> 2, last |-> 1]
NarrowValue == [cap |-> 3, last |-> 1]
=============================================================================
