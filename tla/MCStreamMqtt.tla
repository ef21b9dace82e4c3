---------------------------- MODULE MCStreamMqtt ----------------------------
(***************************************************************************)
(* Small instances of StreamMqtt for TLC.                                  *)
(***************************************************************************)
EXTENDS StreamMqtt

CONSTANTS c, s, m1, m2

MCPacketIds == {m1, m2}

\* For the runs that need one packet id only.
MCOneId == {m1}

\* Which packet id a message has makes no difference.
IdSymmetry == Permutations(MCPacketIds)

=============================================================================
