--------------------------- MODULE MCUsagePipeline ---------------------------
EXTENDS UsagePipeline

CONSTANTS d1, d2

DeviceSet == {d1, d2}
=============================================================================
