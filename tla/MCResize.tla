------------------------------ MODULE MCResize ------------------------------
\* Three sizes the desktop may have and one that is too small to ask for.
EXTENDS Resize

CONSTANTS a, b, c, tiny
=============================================================================
