---------------------------- MODULE MCCrsfParser ----------------------------
(***************************************************************************)
(* A small instance of CrsfParser: frames of 4 to 6 bytes.  0 and 200 are  *)
(* addresses (0 also announces a frame that is too short), 2, 3 and 4      *)
(* announce the three legal sizes, 5 one that is too long.  The checksum   *)
(* can be an address itself, so that a failed CRC byte may start the next  *)
(* frame.                                                                  *)
(***************************************************************************)
EXTENDS CrsfParser, SequencesExt

MCByte == {0, 2, 3, 4, 5, 200}
MCSyncBytes == {0, 200}
MCCrc(bytes) == IF FoldLeft(+, 0, bytes) % 2 = 0 THEN 200 ELSE 3
=============================================================================
