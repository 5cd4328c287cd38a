------------------------------- MODULE MCVTcp -------------------------------
(* Instances of VTcp for TLC.                                              *)
EXTENDS VTcpInv, TLC

\* The joining consoles are interchangeable in the runs that use this.
JoinerSymmetry == Permutations(Joiner)
=============================================================================
