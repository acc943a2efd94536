---------------------------- MODULE MCSaveStore ----------------------------
(***************************************************************************)
(* SaveStore for TLC: three saves of two, one and two blocks, so that a    *)
(* save can leave a longer file behind it than the next one writes. One    *)
(* inode for each name on disk and in memory, and one for each open file.  *)
(***************************************************************************)
EXTENDS SaveStore

CONSTANTS s1, s2, s3

MCSaves  == {s1, s2, s3}
MCSize   == [s \in MCSaves |-> IF s = s2 THEN 1 ELSE 2]
MCInodes == 1..5
=============================================================================
