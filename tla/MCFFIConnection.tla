--------------------------- MODULE MCFFIConnection ---------------------------
(* Instances of FFIConnection for TLC. *)
EXTENDS FFIConnection, TLC

CONSTANTS i1, i2, i3, i4

TwoIds  == {i1, i2}
FourIds == {i1, i2, i3, i4}

AllKinds  == ServerKinds \ {"dispatch"}
Benign    == {"ack", "ping"}
OnlyAck   == {"ack"}

Symmetry == Permutations(Ids)
===============================================================================
