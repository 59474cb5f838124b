---------------------------- MODULE MCKeyserverGet ----------------------------
(***************************************************************************)
(* Small instance of KeyserverGet.  Two keys, one of them v3, share their *)
(* short key id.  The line budget is scaled down from 950 to 100 with the *)
(* code's pattern costs unchanged, so that batches of one, two and three   *)
(* descriptors are all planned from inputs of at most three, and a name of *)
(* length 90 is longer than a whole KS_GET line on its own.                *)
(***************************************************************************)
EXTENDS KeyserverGet, TLC

CONSTANTS K1, K2

MCKeys == {K1, K2}
MCV3Keys == {K2}
MCShortId(k) == "lowid"
MCNameLens == {3, 90}
====
