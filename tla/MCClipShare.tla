---------------------------- MODULE MCClipShare ----------------------------
(* Three copies, on either side, of every kind; one lost connection.         *)
EXTENDS ClipShare

MCMacKinds == Kinds
MCVmKinds == Offered
=============================================================================
