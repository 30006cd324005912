----------------------------- MODULE MCDataRights ------------------------------
(***************************************************************************)
(* Small instances of DataRights: a founder and another operator, whose    *)
(* rows one cleanup job erases, run as often as it likes.                  *)
(***************************************************************************)
EXTENDS DataRights
=============================================================================
