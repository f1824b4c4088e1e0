---------------------------- MODULE MCSiteBackups ----------------------------
\* Model checking of SiteBackups: each request replaces parts of one site, and
\* makes backups of the other's.
EXTENDS SiteBackups

CONSTANTS r1, r2, s1, s2, db, b1, b2, b3, k1, k2, before, after

Both == {"files", db}
Do(op, s, parts) == [op |-> op, site |-> s, parts |-> parts]

OneReplacesEach ==
    r1 :> {Do("deploy", s1, {"files"}), Do("restore", s1, Both), Do("restore", s1, {db}),
           Do("create", s2, {"files"})} @@
    r2 :> {Do("create", s1, Both), Do("restore", s2, {"files"})}

\* Identifiers and keys are random: no step tells one from another.
Interchangeable == Permutations({b1, b2, b3}) \cup Permutations({k1, k2})
=============================================================================
