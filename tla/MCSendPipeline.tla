---------------------------- MODULE MCSendPipeline ----------------------------
(* Small instances of SendPipeline.                                        *)
EXTENDS SendPipeline
=============================================================================
