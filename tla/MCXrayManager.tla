---------------------------- MODULE MCXrayManager ----------------------------
EXTENDS XrayManager

CONSTANTS d1, d2
=============================================================================
