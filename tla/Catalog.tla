------------------------------- MODULE Catalog -------------------------------
(***************************************************************************)
(* The service catalog of persistence-postgres and what a quote takes from *)
(* it: onboarding rewrites the one row of a service and adds releases, the *)
(* directory lists the row with its newest release, and a quote is bound   *)
(* to the row that still matches its request.  One service is modelled:    *)
(* rows of different services share nothing but the standard policy.       *)
(***************************************************************************)
EXTENDS Naturals, SequencesExt

CONSTANTS
    Registration,       \* what the owner may onboard: [endpoint, chain, version, listed]
    MaxOnboardings      \* bound on onboarding calls after the first

ASSUME MaxOnboardingsAssumption == MaxOnboardings \in Nat

VARIABLES
    service,       \* the services row: its latest registration and whether it is listed
    releases,      \* releases of the service, oldest first
    listings,      \* targets the directory has named so far (history)
    registered     \* onboarding calls so far, in order (history)

catalogVars == <<service, releases, listings, registered>>

NoTarget == [endpoint |-> "NONE", version |-> "NONE"]

\* What a browser needs to ask for a quote: endpoint (with its OpenAPI URL) and release.
Target == {[endpoint |-> g.endpoint, version |-> g.version] : g \in Registration}

\* The directory: a listed service, with its newest release.
Listing(row, versions) ==
    IF row.listed THEN {[endpoint |-> row.endpoint, version |-> Last(versions)]} ELSE {}

\* The upsert of onboardService: the row takes every value of the call, and a
\* version hash already released keeps its row, and its age.
Onboard(g) ==
    /\ Len(registered) <= MaxOnboardings
    /\ service' = [endpoint |-> g.endpoint, chain |-> g.chain, listed |-> g.listed]
    /\ releases' = IF Contains(releases, g.version) THEN releases ELSE Append(releases, g.version)
    /\ listings' = listings \cup Listing(service', releases')
    /\ registered' = Append(registered, g)

\* Mutant of Binds: the row is found by its service id alone.
BindsByService(target) == Contains(releases, target.version)

\* resolveCatalogBinding: the row must still have the endpoints the request names.
Binds(target) ==
    /\ target.endpoint = service.endpoint
    /\ Contains(releases, target.version)

\* The service's first onboarding.
CatalogInit ==
    \E g \in Registration :
        /\ service = [endpoint |-> g.endpoint, chain |-> g.chain, listed |-> g.listed]
        /\ releases = <<g.version>>
        /\ listings = Listing(service, releases)
        /\ registered = <<g>>
=============================================================================
