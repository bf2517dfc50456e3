--------------------------- MODULE MCCameraStream ---------------------------
\* Two encoders: the one in use, and one that another thread still drains.
EXTENDS CameraStream

CONSTANTS e1, e2
=============================================================================
