--------------------------- MODULE MCJobPipeline ---------------------------
(* Model values and symmetry for the TLC runs of JobPipeline and PipelineRefinement. *)
EXTENDS JobPipeline, PipelineRefinement, TLC

\* Instances of one kind are interchangeable in every safety property.
Symmetry ==
  Permutations(Schedulers) \cup Permutations(Workers)
    \cup Permutations(Slots) \cup Permutations(Jobs)

\* Either only workers crash, or none does.  Where workers are not restarted,
\* the ones that are down are the ones that crashed.
OneCause ==
  LET down == {w \in Workers : ~up[w]} IN down = {} \/ faults = Cardinality(down)

OneCauseSpec == Init /\ [][Next /\ OneCause']_vars
=============================================================================
