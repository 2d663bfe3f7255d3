------------------------- MODULE MCFingerprintCapture -------------------------
(***************************************************************************)
(* Instances of FingerprintCapture for TLC.                                *)
(***************************************************************************)
EXTENDS FingerprintCapture

\* maxRetries of 1 and of 2.5.
MCRetryLimits == {2, 5}
==============================================================================
