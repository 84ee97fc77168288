------------------------------ MODULE MCBlobPool ------------------------------
(* Instances of BlobPool for TLC.                                          *)
EXTENDS BlobPool
===============================================================================
