---------------------------- MODULE MCNodeRelease ----------------------------
\* Model checking of NodeRelease: one request at a time.
EXTENDS NodeRelease, TLC

CONSTANTS r1, r2, r3

\* Releases that work are interchangeable, whatever the third one does.
Interchangeable == Permutations({r1, r2})
=============================================================================
