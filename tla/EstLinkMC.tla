----------------------------- MODULE EstLinkMC -----------------------------
(* EstLink for TLC: interchangeable socket handles. *)
EXTENDS EstLink, TLC

SocketSymmetry == Permutations(Socket)
=============================================================================
