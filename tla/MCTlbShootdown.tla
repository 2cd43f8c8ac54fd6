--------------------------- MODULE MCTlbShootdown ---------------------------
(***************************************************************************)
(* TlbShootdown on two CPUs.  The user root has a hardware tag of its own, *)
(* so that its translations survive while it is not loaded.  (Colliding    *)
(* tags are covered by the proofs, which hold for every Pcid.)             *)
(***************************************************************************)
EXTENDS TlbShootdown, TLC

CONSTANTS c0, c1, u, k, r1, f1, f2

PcidOf == (r1 :> 1) @@ (KernelRoot :> 0)
=============================================================================
