--------------------------- MODULE MCCertificates ---------------------------
(* Small instances of Certificates take their constants from the .cfg alone. *)
EXTENDS Certificates
=============================================================================
