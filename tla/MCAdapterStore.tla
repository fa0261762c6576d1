-------------------------- MODULE MCAdapterStore --------------------------
(***************************************************************************)
(* Two stages and two runs.  In the first a stage's dict leaves out what   *)
(* the other's spells out.                                                 *)
(***************************************************************************)
EXTENDS AdapterStore

MCStages == {0, 1}
MCProjections == {"q", "v"}
Sparse == [r |-> None, alpha |-> None, target_modules |-> None]
Full == [r |-> 8, alpha |-> 16, target_modules |-> {"q", "v"}]
Rescaled == [r |-> 8, alpha |-> 32, target_modules |-> {"q"}]
Partial == [r |-> 8, alpha |-> 16, target_modules |-> {"q"}]

\* One half of the second run has another scaling than the first's at the same
\* rank, the other one only other projections.
MCRuns == {"sparse", "partial"}
MCLoraSpec ==
  [sparse |-> [s \in MCStages |-> IF s = 0 THEN Sparse ELSE Full],
   partial |-> [s \in MCStages |-> IF s = 0 THEN Rescaled ELSE Partial]]
=============================================================================
