------------------------------ MODULE MCLimits ------------------------------
EXTENDS Limits

MCRates == {1, 2}
MCBursts == {0, 2, 3}
=============================================================================
