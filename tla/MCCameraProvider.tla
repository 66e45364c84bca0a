---------------------------- MODULE MCCameraProvider ----------------------------
(***************************************************************************)
(* Instances of CameraProvider for TLC.                                    *)
(***************************************************************************)
EXTENDS CameraProvider, TLC

CONSTANTS a, A, B

\* "a" and "A" spell one serial number, "B" another.
MCUpper == (a :> A) @@ (A :> A) @@ (B :> B)

MCOneUpper == A :> A

Symmetry == Permutations(Device) \cup Permutations(Thread)
=============================================================================
