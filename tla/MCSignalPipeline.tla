-------------------------- MODULE MCSignalPipeline ----------------------------
(* TLC instance of SignalPipeline.                                         *)
EXTENDS SignalPipeline
=============================================================================
