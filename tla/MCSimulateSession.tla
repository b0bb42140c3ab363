------------------------ MODULE MCSimulateSession ------------------------
(* Instances of SimulateSession for TLC.                                    *)
EXTENDS SimulateSession, TLC

EventSymmetry == Permutations(Events)
===========================================================================
