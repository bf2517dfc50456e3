--------------------------- MODULE MCFramePipeline ---------------------------
EXTENDS FramePipeline

\* A desktop that is turned, which leaves its area as it was, and a larger one.
ThreeSizes == {<<2, 3>>, <<3, 2>>, <<3, 3>>}

TurnedSizes == {<<2, 3>>, <<3, 2>>}
=============================================================================
