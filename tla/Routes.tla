------------------------------- MODULE Routes -------------------------------
(***************************************************************************)
(* The routes that only read: pages and Next links (Pages), covers (Cover) *)
(* and the health checks (HealthProbe).  app/main.py puts them beside one  *)
(* another in one process.  None writes what another reads, so that their  *)
(* requests concern one another only through the routes' own state, and    *)
(* each behaviour here is one of requests to one route.                    *)
(***************************************************************************)
EXTENDS Pages, Cover, HealthProbe

VARIABLE route   \* the route that is asked

vars == <<route, pagesVars, coverVars, healthVars>>

Init ==
  /\ route \in {"/", "/cover", "/health"}
  /\ PagesInit /\ CoverInit /\ HealthInit
  /\ route # "/" => shelf = <<>> /\ sort = "title" /\ \A k \in PageSizes : pageSize >= k
  /\ route # "/cover" => picture = 0
  /\ route # "/health" => dbOpens /\ libmtpLoads /\ writable

Next ==
  \/ route = "/" /\ PagesNext /\ UNCHANGED <<route, coverVars, healthVars>>
  \/ route = "/cover" /\ CoverNext /\ UNCHANGED <<route, pagesVars, healthVars>>
  \/ route = "/health" /\ HealthNext /\ UNCHANGED <<route, pagesVars, coverVars>>

Spec == Init /\ [][Next]_vars
=============================================================================
