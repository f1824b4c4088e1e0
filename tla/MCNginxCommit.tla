---------------------------- MODULE MCNginxCommit ----------------------------
\* Model checking of NginxCommit: two connections, for two domains or for one.
EXTENDS NginxCommit, TLC

CONSTANTS d1, d2, c1, c2, old, good, fast, bad

AllOld == [d \in Domain |-> old]

Ask(d, contents, globals) ==
    [domain : {d}, content : contents, global : globals]

\* One domain per connection; only the first one asks for the PageSpeed cache.
OwnDomains == c1 :> Ask(d1, Vhost, BOOLEAN) @@ c2 :> Ask(d2, {good, bad}, {FALSE})
\* One connection, which always asks for it.
OneSpeedy == c1 :> Ask(d1, {good, fast}, {TRUE})
=============================================================================
