----------------------------- MODULE MCHkPipeline -----------------------------
(* The profile of hk_telemetry.c, in hundredths of a volt. *)
EXTENDS HkPipeline

MCProfile == <<810, 805, 800, 795, 580, 570, 790, 795, 800, 805>>
=============================================================================
