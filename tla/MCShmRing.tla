----------------------------- MODULE MCShmRing -----------------------------
(* Instances of ShmRing for TLC. *)
EXTENDS ShmRing, TLC

\* Senders are interchangeable (safety runs only).
SenderSymmetry == Permutations(Senders)
=============================================================================
