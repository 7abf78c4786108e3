--------------------------- MODULE MCLandremanRun ---------------------------
(* A campaign of a few evaluations over three worker ranks.                *)
EXTENDS LandremanRun
=============================================================================
