------------------------- MODULE MCKeyserverSearch --------------------------
(* Instance of KeyserverSearch for TLC: two descriptors, a three-line      *)
(* screen so a record with one uid line fills it, declared counts below,    *)
(* at and above what the stream holds.                                      *)
EXTENDS KeyserverSearch, TLC

CONSTANTS K1, K2

MCKeys == {K1, K2}
MCInfoCounts == {-1, 0, 1}
=============================================================================
