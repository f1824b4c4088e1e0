-------------------------- MODULE MCArtifactUpload --------------------------
\* Model checking of ArtifactUpload.
EXTENDS ArtifactUpload, TLC

Interchangeable == Permutations(Handler) \cup Permutations(Id)
=============================================================================
