------------------------------ MODULE MCHulkGC ------------------------------
(***************************************************************************)
(* Small instances of HulkGC.  A program has leaf objects (the tag of      *)
(* strings and ranges: no pointers) and pairs (two traced fields), whose   *)
(* offsets are not in address order, as field order need not be.           *)
(***************************************************************************)
EXTENDS HulkGC, TLC

CONSTANTS o1, o2, o3, f1, f2, leaf, pair

MCOffsets  == leaf :> <<>> @@ pair :> <<f2, f1>>
MCSymmetry == Permutations(Obj)
=============================================================================
