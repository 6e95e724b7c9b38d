-------------------------- MODULE MCWritePipeline --------------------------
(* Instances of WritePipeline for TLC. *)
EXTENDS WritePipeline

CONSTANTS a
=============================================================================
