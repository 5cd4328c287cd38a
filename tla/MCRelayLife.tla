----------------------------- MODULE MCRelayLife ----------------------------
EXTENDS RelayLife
=============================================================================
