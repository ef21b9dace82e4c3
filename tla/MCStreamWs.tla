----------------------------- MODULE MCStreamWs -----------------------------
(***************************************************************************)
(* Small instances of StreamWs for TLC.                                    *)
(***************************************************************************)
EXTENDS StreamWs

CONSTANTS c, s

=============================================================================
