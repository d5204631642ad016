---------------------------- MODULE MCCertRotation ----------------------------
EXTENDS CertRotation, TLC

CONSTANTS h1

\* Slips accumulate, so states after the first one need not be explored.
NoSlipYet == slips = {}
OneHandler == {h1}
=============================================================================
