---------------------------- MODULE MCReadEpoch ----------------------------
(* The instance of ReadEpoch that MCReadEpoch.cfg gives its constants. One *)
(* reader is enough: readers do not see each other.                        *)
EXTENDS ReadEpoch
=============================================================================
