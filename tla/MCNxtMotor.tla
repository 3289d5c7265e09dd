----------------------------- MODULE MCNxtMotor -----------------------------
EXTENDS NxtMotorProperties

\* Negative numbers, which a .cfg cannot hold.
MCPower == {-50}
MCRatio == {0, 101}
MCRotation == {-90, 90}
=============================================================================
