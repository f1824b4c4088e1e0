--------------------------- MODULE MCSiteSettings ---------------------------
\* Model checking of SiteSettings: two requests, for the same sites or not.
EXTENDS SiteSettings, TLC

CONSTANTS r1, r2, d1, d2

\* The sites ds, any of the operations ops.
Updates(ds, ops) == [op : ops, domain : ds]

\* Every kind of site; the other request may meet the first or not.
OneMayMeet == r1 :> Updates({d1}, {"static", "port"}) @@ r2 :> Updates({d1, d2}, {"root"})
\* A PHP site and a site with PageSpeed and a port, one for each request.
OwnSites == r1 :> Updates({d1}, {"root", "pagespeed"}) @@ r2 :> Updates({d2}, {"pagespeed", "port"})
\* One PHP site.
OneSite == [r \in Request |-> Updates({d1}, {"root", "pagespeed"})]
=============================================================================
