-------------------------- MODULE MCRedisVaultStore --------------------------
(***************************************************************************)
(* One session with two values and one stand-in: a stand-in collides at    *)
(* once and the tagged fallback is reached, in either masking mode.        *)
(***************************************************************************)
EXTENDS RedisVaultStore, TLC

(* What was handed out constrains no action, and matters only while calm. *)
Unghosted == <<stored, local, pending, faker, adversity, IF Calm THEN handed ELSE {}>>

Symmetry == Permutations(Original) \cup Permutations(Request)
=============================================================================
