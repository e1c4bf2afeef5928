--------------------------- MODULE MCAuditArchive ---------------------------
(***************************************************************************)
(* Instances of AuditArchive.                                              *)
(***************************************************************************)
EXTENDS AuditArchive, TLC
=============================================================================
