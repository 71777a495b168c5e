-------------------------- MODULE MCGenerationCache --------------------------
(***************************************************************************)
(* Two input files, a document and its lock file.  The new document does   *)
(* not load with the old lock file; the lock file alone changes the digest *)
(* and the diagnostics of a run, not the module it renders.                *)
(***************************************************************************)
EXTENDS GenerationCache, TLC

CONSTANTS b1, b2, c1

MCLoads(v) == v # (1 :> 1 @@ 2 :> 0)
MCAccepts(v) == MCLoads(v)
MCRender(v) == <<"module of", v[1]>>

SharedCache == (b1 :> c1) @@ (b2 :> c1)
SoloCache == b1 :> c1
Symmetry == Permutations({b1, b2})
=============================================================================
