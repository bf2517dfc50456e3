---------------------------- MODULE MCVdiClient ----------------------------
\* Two machines, so that one's file can be taken for the other's; the user and
\* the server tell them apart by name only.
EXTENDS VdiClient

CONSTANTS v1, v2


=============================================================================
