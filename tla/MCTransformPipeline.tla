------------------------ MODULE MCTransformPipeline ------------------------
(* Small instance of TransformPipeline.  One key was left on disk by an       *)
(* earlier run and may be reported again by the live tail, one key differs    *)
(* from another only by case, and one is already at the destination.          *)
EXTENDS TransformPipeline

CONSTANTS k1, k2, k3, k4, v, done

MCListed == {k1, k2, k3, k4, v, done}
MCUnwanted == {done}
MCVariants == {v}
MCScanned == {k1, done}
=============================================================================
