--------------------------- MODULE MCProvisioning ---------------------------
(* Provisioning on small instances. *)
EXTENDS ProvisioningInv, FiniteSets, TLC

\* Indexes but 0 and handlers are interchangeable, and so are volumes.
Symmetry == Permutations(Ids) \cup Permutations(Handlers)
            \cup Permutations(TargetIdx \ {Zero})
            \cup Permutations(LunIdx \ {Zero})

\* Either requests come one at a time, or a handler is left for every volume.
ASSUME \/ Cardinality(Handlers) = 1
       \/ Cardinality(Handlers) >= Cardinality(Ids)
=============================================================================
