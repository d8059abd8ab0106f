-------------------------- MODULE MCIntegrationJobs --------------------------
(* The retry delays of IntegrationJobs for TLC: one tick, then two. *)
EXTENDS IntegrationJobs

CONSTANTS w1, w2, d1, d2

MCDelays2 == <<1, 2>>
=============================================================================
