----------------------------- MODULE MCKeyPool -----------------------------
(***************************************************************************)
(* Instances of KeyPool for TLC.                                           *)
(***************************************************************************)
EXTENDS KeyPool

CONSTANTS k1, k2, k3

ThreeKeys == <<k1, k2, k3>>

\* Without keys for interviews the others are used; a repeated key counts
\* once, an empty setting not at all.
ASSUME PoolIsConfigured ==
  /\ ApiKeyPool(<<NoKey, NoKey>>, <<k1, NoKey, k2, k1, k3, k2>>) = Pool
  /\ ApiKeyPool(<<k2, NoKey, k2>>, <<k1, k3>>) = <<k2>>
=============================================================================
