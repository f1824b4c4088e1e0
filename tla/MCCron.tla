------------------------------- MODULE MCCron -------------------------------
\* Model checking of Cron: two requests at the jobs of one site.
EXTENDS Cron, TLC

CONSTANTS s1, u1

OneSite == s1 :> u1
=============================================================================
