-------------------------- MODULE DocumentedClaims --------------------------
(***************************************************************************)
(* What the documentation or a comment says of the machine and the code    *)
(* does not do.  Each is checked by a run of its own, which TLC ends with  *)
(* the steps that contradict it.                                           *)
(***************************************************************************)
EXTENDS CachyMachine

(***************************************************************************)
(* docs/threat-model.md:24: "An interrupted FREEZE transaction is          *)
(* recovered": when FROZEN is still scheduled from an earlier freeze, the  *)
(* recovery that must restore the predecessor runs in an initramfs that    *)
(* GRUB loads from @golden.                                                *)
(***************************************************************************)
FrozenBootFindsKernel == power # "no-kernel"
=============================================================================
