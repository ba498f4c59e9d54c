---------------------------- MODULE ExtractOutcome ----------------------------
(***************************************************************************)
(* bills/extract.go: what Extractor.Extract returns for a stored PDF, as a *)
(* function of what its stages find.  The outcomes are the statuses of     *)
(* ExtractResult, with "soft" for needs_review together with an error and  *)
(* an empty parse.                                                         *)
(***************************************************************************)
EXTENDS Naturals

(* The scores that lie on either side of the two thresholds.               *)
Scores == {0, 49, 50, 69, 70, 100}

(* What the stages of the pipeline find in one run.                        *)
Documents ==
  [valid  : BOOLEAN,                 \* Validate accepts the bytes
   text   : BOOLEAN,                 \* ExtractText succeeds
   score  : Scores,                  \* ScoreConfidence of the structured parse
   usable : BOOLEAN,                 \* it has line items and a statement date
   raster : BOOLEAN,                 \* Rasterize succeeds
   vision : {"nil", "error", "ok"},  \* the vision client
   aiConf : Scores,                  \* the confidence the vision model reports
   aiScore: Scores]                  \* ScoreConfidence of the vision parse

(* Extractor.visionPath                                                    *)
VisionPath(d) ==
  IF ~d.raster \/ d.vision # "ok" THEN "soft"
  ELSE LET score == IF d.aiConf <= 0 THEN d.aiScore ELSE d.aiConf
       IN IF score < 70 THEN "needs_review" ELSE "completed"

(* Extractor.Extract                                                       *)
Extract(d) ==
  IF ~d.valid THEN "failed"
  ELSE IF ~d.text THEN VisionPath(d)
  ELSE IF d.score >= 70 /\ d.usable THEN "completed"
  ELSE IF d.score >= 50 /\ d.usable THEN "needs_review"
  ELSE VisionPath(d)

Outcomes == {Extract(d) : d \in Documents}
=============================================================================
