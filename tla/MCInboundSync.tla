--------------------------- MODULE MCInboundSync ---------------------------
(***************************************************************************)
(* InboundSync with one share of two files.                                *)
(***************************************************************************)
EXTENDS InboundSync

CONSTANTS s1, f1, f2

TwoInOneShare == [f \in {f1, f2} |-> s1]
=============================================================================
