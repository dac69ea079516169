----------------------------- MODULE MCUploads ------------------------------
(* Instances of Uploads for TLC: one upload is twice as large as the other,  *)
(* and one may consist of another number of bytes than was declared of it.   *)
EXTENDS Uploads

CONSTANTS Large, Other

MCSize == [s \in Sessions |-> IF s = Large THEN 2 ELSE 1]
MCContent == [s \in Sessions |-> IF s = Other THEN 1 ELSE Size[s]]
=============================================================================
