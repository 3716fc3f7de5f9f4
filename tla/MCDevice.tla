------------------------------ MODULE MCDevice ------------------------------
(***************************************************************************)
(* Instances of Device for TLC, with the colours of MCStatusLed.           *)
(***************************************************************************)
EXTENDS Device, MCStatusLed

=============================================================================
