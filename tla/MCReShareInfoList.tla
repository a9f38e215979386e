------------------------- MODULE MCReShareInfoList -------------------------
(* Three reshare_info records.                                             *)
EXTENDS ReShareInfoList
CONSTANTS k1, k2, k3
MCKey == {k1, k2, k3}
====
