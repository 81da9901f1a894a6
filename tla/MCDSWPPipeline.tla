--------------------------- MODULE MCDSWPPipeline ---------------------------
(***************************************************************************)
(* The loops of MCDSWP, partitioned and run as pipelines.                  *)
(***************************************************************************)
EXTENDS MCDSWP, DSWPPipeline

\* Header trip counts 0..2 and a second exit taken in iteration 1 or 2, or
\* (3) not before the header test ends the loop.
MCTripCounts == 0..2
MCBreakIters == 1..3

PipelineLoops == {Base, MemCarried, MemOnly}


=============================================================================
