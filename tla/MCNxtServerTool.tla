-------------------------- MODULE MCNxtServerTool --------------------------
EXTENDS NxtServerToolProperties
=============================================================================
