---------------------------- MODULE MCForwarding ----------------------------
EXTENDS Forwarding

MCBackends == <<"b1", "b2">>
=============================================================================
