-------------------------- MODULE MCBashSupervisor --------------------------
(* Model checking of BashSupervisor: the cfg gives the constants.          *)
EXTENDS BashSupervisor
=============================================================================
