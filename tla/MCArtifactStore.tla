-------------------------- MODULE MCArtifactStore --------------------------
\* Model values for ArtifactStore: a core and the crash of the same process.
EXTENDS ArtifactStore, TLC

ModelPids == [a \in Artifacts |-> 1]
ModelKilled == Crashes

\* Which of several identical requests is which does not matter.
Symmetry == Permutations(Syncs) \cup Permutations(Analyses)
=============================================================================
