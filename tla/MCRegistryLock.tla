--------------------------- MODULE MCRegistryLock ---------------------------
(***************************************************************************)
(* Instances of RegistryLock for TLC: two threads t1, t2 of one process    *)
(* and t3 of another, two lock files.                                      *)
(***************************************************************************)
EXTENDS RegistryLock

CONSTANTS t1, t2, t3

MCThread  == {t1, t2, t3}
MCProcess == {{t1, t2}, {t3}}
=============================================================================
