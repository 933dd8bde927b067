-------------------------- MODULE MemoryBackfillMC --------------------------
(* Instances of MemoryBackfill for TLC. *)
EXTENDS MemoryBackfill, TLC

Hostile == EnvEvents
AiOnly == {"ai"}
AiAndCrash == {"ai", "crash"}

Symmetry == Permutations(Groups)
=============================================================================
