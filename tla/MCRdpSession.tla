---------------------------- MODULE MCRdpSession ----------------------------
EXTENDS RdpSession
=============================================================================
