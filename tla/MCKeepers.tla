------------------------------ MODULE MCKeepers -----------------------------
(***************************************************************************)
(* The parts that promise something will happen: an authority's revocation *)
(* and the two directories of services.  They share no variable, so one of *)
(* them runs while the others rest in their initial states; the fairness   *)
(* of each asks nothing of a part at rest.                                 *)
(***************************************************************************)
EXTENDS AuthorityLifecycle, DynamicServices, ServiceRegistry

CONSTANTS a1, a2

VARIABLE part

\* The variables of every part but one.
Rest(p) ==
  /\ p # "authority" => UNCHANGED lifecycleVars
  /\ p # "dynamic"   => UNCHANGED dynamicVars
  /\ p # "registry"  => UNCHANGED registryVars

PartsInit ==
  /\ part \in {"authority", "dynamic", "registry"}
  /\ LifecycleInit /\ DynamicInit /\ RegistryInit

PartsNext ==
  /\ \/ part = "authority" /\ LifecycleNext
     \/ part = "dynamic"   /\ DynamicNext
     \/ part = "registry"  /\ RegistryNext
  /\ UNCHANGED part /\ Rest(part)

PartsSpec ==
  /\ PartsInit /\ [][PartsNext]_<<part, lifecycleVars, dynamicVars, registryVars>>
  /\ LifecycleFairness /\ DynamicFairness /\ RegistryFairness
=============================================================================
