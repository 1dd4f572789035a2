------------------------------- MODULE MCUpdates -------------------------------
(***************************************************************************)
(* Versions for Updates.  A suffix is its stage, with the dot, and then    *)
(* the digits of its number.  Any of the versions may be installed, but    *)
(* the last two were withdrawn, so the manifests name the first two: beta  *)
(* the preview, stable either.                                             *)
(***************************************************************************)
EXTENDS Updates

CONSTANT beta

Beta == 2

\* 0.9.9, 1.0.0-beta.9, 1.0.0-beta.10 and 1.0.0
MCRelease ==
  <<[core |-> <<0, 9, 9>>, suffix |-> <<>>],
    [core |-> <<1, 0, 0>>, suffix |-> <<Beta, 9>>],
    [core |-> <<1, 0, 0>>, suffix |-> <<Beta, 1, 0>>],
    [core |-> <<1, 0, 0>>, suffix |-> <<>>]>>

MCNamed == [c \in Channels |-> IF c = beta THEN {2} ELSE {1, 2}]
=============================================================================
