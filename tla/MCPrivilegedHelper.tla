------------------------- MODULE MCPrivilegedHelper -------------------------
(***************************************************************************)
(* PrivilegedHelper for TLC.                                               *)
(***************************************************************************)
EXTENDS PrivilegedHelper

AllVerbs == {"install-deb", "install-bundle", "restart"}
BundleOnly == {"install-bundle"}
=============================================================================
