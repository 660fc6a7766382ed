---------------------------- MODULE MCDeviceSync ----------------------------
(* Instances of DeviceSync for TLC. *)
EXTENDS DeviceSync

CONSTANTS a, b

TwoNames == {a, b}

\* Up to two files of the one name, one of the other.
SmallFolders == {folder \in [TwoNames -> 0..2] : folder[b] < 2}
=============================================================================
