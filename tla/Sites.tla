-------------------------------- MODULE Sites --------------------------------
(* Sites and who belongs to them (src/sites, src/customer-ops,               *)
(* src/workers).  A site without a parent is a customer: its creation also   *)
(* makes its settings and a tablet account.  Removal counts children and     *)
(* workers first; rows whose site is optional lose it when the site goes,    *)
(* rows whose site is required, such as the settings, keep it from going.    *)
EXTENDS Rows, Integers, FiniteSets

CONSTANTS
    Masters,    \* concurrent calls
    SiteCodes,
    DefaultCode, \* the code 'DEFAULT'
    MaxSites,   \* bound: sites ever created
    MaxStaff,   \* bound: workers ever created
    MaxSteps    \* bound: calls begun

ASSUME SitesAssumption ==
    /\ {MaxSites, MaxStaff, MaxSteps} \subseteq Nat
    /\ DefaultCode \in SiteCodes

VARIABLES
    site,     \* sites, in the order of creation
    built,    \* sites created so far
    place,    \* per worker created: its site, or None
    hired,    \* workers created so far
    steps,    \* calls begun so far
    master,   \* what each call is doing
    young,    \* history: sites made under one whose removal had counted its children
    late      \* history: workers who came to a site whose removal had counted its workers

sitesVars == <<site, built, place, hired, steps, master, young, late>>

SiteIds == 1..MaxSites

\* settled: tenant settings, an onboarding or a subscription refer to the site.
SiteRow == [code : SiteCodes, active : BOOLEAN, parent : SiteIds \cup {None}, settled : BOOLEAN]

AllSites == Present(site)

StaffIds == 1..hired

SiteCodeFree(k) == \A i \in AllSites : site[i].code # k

Children(i) == {j \in AllSites : site[j].parent = i}

StaffOf(i) == {w \in DOMAIN place : place[w] = i}

\* from: the default site that a migration found.
Still == [pc |-> "idle", on |-> None, code |-> None, from |-> {}]

StartCall(c) == master[c] = Still /\ steps < MaxSteps /\ steps' = steps + 1

Rests(c) == master' = [master EXCEPT ![c] = Still]

Remember(c, pc, on, k) ==
    master' = [master EXCEPT ![c] = [Still EXCEPT !.pc = pc, !.on = on, !.code = k]]

\* A new row; a worker comes with it if it is a customer's.
Build(row, withTablet) ==
    /\ built < MaxSites
    /\ built' = built + 1
    /\ site' = [site EXCEPT ![built + 1] = row]
    /\ IF withTablet
       THEN /\ hired < MaxStaff
            /\ hired' = hired + 1
            /\ place' = [place EXCEPT ![hired + 1] = built + 1]
       ELSE UNCHANGED <<place, hired>>

CreateSiteRead(c, k, p) ==
    /\ StartCall(c)
    /\ SiteCodeFree(k)
    /\ p # None => p \in AllSites /\ site[p].active
    /\ Remember(c, "create", p, k)
    /\ UNCHANGED <<site, built, place, hired>>

\* The unique code and the reference to the parent decide once more.
CreateSite(c) ==
    /\ master[c].pc = "create"
    /\ LET p == master[c].on
           k == master[c].code IN
       IF SiteCodeFree(k) /\ p \in AllSites \cup {None}
       THEN Build([code |-> k, active |-> TRUE, parent |-> p, settled |-> p = None], p = None)
       ELSE UNCHANGED <<site, built, place, hired>>
    /\ Rests(c)
    /\ UNCHANGED steps

CreateFromTemplateRead(c, k) ==
    /\ StartCall(c)
    /\ SiteCodeFree(k)
    /\ Remember(c, "template", None, k)
    /\ UNCHANGED <<site, built, place, hired>>

\* createSiteFromTemplate: settings and onboarding, no tablet account.
CreateFromTemplate(c) ==
    /\ master[c].pc = "template"
    /\ IF SiteCodeFree(master[c].code)
       THEN Build([code |-> master[c].code, active |-> TRUE, parent |-> None, settled |-> TRUE],
                  FALSE)
       ELSE UNCHANGED <<site, built, place, hired>>
    /\ Rests(c)
    /\ UNCHANGED steps

\* toggleActive: the negation of what was read.
ToggleRead(c, i) ==
    /\ i \in AllSites
    /\ StartCall(c)
    /\ Remember(c, IF site[i].active THEN "deactivate" ELSE "activate", i, None)
    /\ UNCHANGED <<site, built, place, hired>>

Toggle(c) ==
    /\ master[c].pc \in {"activate", "deactivate"}
    /\ site' = IF master[c].on \in AllSites
               THEN [site EXCEPT ![master[c].on].active = (master[c].pc = "activate")] ELSE site
    /\ Rests(c)
    /\ UNCHANGED <<built, place, hired, steps>>

\* update: the code, unless another site has it.
SetCode(i, k) ==
    /\ i \in AllSites /\ SiteCodeFree(k)
    /\ site' = [site EXCEPT ![i].code = k]
    /\ UNCHANGED <<built, place, hired, steps, master>>

\* updateTenantSettings, startOnboardingRun, a subscription: the first such row.
Settle(i) ==
    /\ i \in AllSites /\ ~site[i].settled
    /\ site' = [site EXCEPT ![i].settled = TRUE]
    /\ UNCHANGED <<built, place, hired, steps, master>>

\* workers.create and update: a worker joins, moves or leaves.
Hire(i) ==
    /\ i \in AllSites /\ hired < MaxStaff
    /\ hired' = hired + 1
    /\ place' = [place EXCEPT ![hired + 1] = i]
    /\ UNCHANGED <<site, built, steps, master>>

Move(w, i) ==
    /\ w \in StaffIds /\ i \in AllSites /\ place[w] # i
    /\ place' = [place EXCEPT ![w] = i]
    /\ UNCHANGED <<site, built, hired, steps, master>>

-----------------------------------------------------------------------------
(* Removal *)

\* Mutant: the children are not looked at.
ChildlessUnasked(i) == TRUE

Childless(i) == Children(i) = {}

RemoveRead(c, i) ==
    /\ i \in AllSites
    /\ StartCall(c)
    /\ site[i].code # DefaultCode
    /\ Childless(i)
    /\ Remember(c, "staff", i, None)
    /\ UNCHANGED <<site, built, place, hired>>

RemoveCount(c) ==
    /\ master[c].pc = "staff"
    /\ IF StaffOf(master[c].on) = {} THEN master' = [master EXCEPT ![c].pc = "remove"]
       ELSE Rests(c)
    /\ UNCHANGED <<site, built, place, hired, steps>>

\* Restrict for the settings, SetNull for children and workers.
RemoveSite(c) ==
    /\ master[c].pc = "remove"
    /\ LET i == master[c].on IN
       IF i \in AllSites /\ ~site[i].settled
       THEN /\ site' = [j \in SiteIds |->
                          IF j = i THEN None
                          ELSE IF j \in Children(i) THEN [site[j] EXCEPT !.parent = None]
                          ELSE site[j]]
            /\ place' = [w \in DOMAIN place |-> IF place[w] = i THEN None ELSE place[w]]
       ELSE UNCHANGED <<site, place>>
    /\ Rests(c)
    /\ UNCHANGED <<built, hired, steps>>

-----------------------------------------------------------------------------
(* migrateWorkersToSite *)

Customers == {i \in AllSites : site[i].parent = None /\ site[i].active}

DefaultSite == {i \in AllSites : site[i].code = DefaultCode}

\* With more than one customer only the default site's workers are taken.
MigrateRead(c, i) ==
    /\ i \in AllSites
    /\ StartCall(c)
    /\ Cardinality(Customers) > 1 => DefaultSite # {}
    /\ master' = [master EXCEPT ![c] =
                    [Still EXCEPT !.pc = IF Cardinality(Customers) > 1 THEN "take" ELSE "takeAll",
                                  !.on = i, !.from = DefaultSite]]
    /\ UNCHANGED <<site, built, place, hired>>

Migrate(c) ==
    /\ master[c].pc \in {"take", "takeAll"}
    /\ LET taken == {w \in StaffIds : place[w] \in master[c].from
                                      \/ (master[c].pc = "takeAll" /\ place[w] = None)} IN
       place' = IF master[c].on \in AllSites
                THEN [w \in DOMAIN place |-> IF w \in taken THEN master[c].on ELSE place[w]]
                ELSE place
    /\ Rests(c)
    /\ UNCHANGED <<site, built, hired, steps>>

MasterDies(c) ==
    /\ master[c] # Still
    /\ Rests(c)
    /\ UNCHANGED <<site, built, place, hired, steps>>

\* The default site, left from before sites were set up as customers.
SitesInit ==
    /\ site = [i \in SiteIds |->
                 IF i = 1 THEN [code |-> DefaultCode, active |-> TRUE, parent |-> None,
                                settled |-> FALSE] ELSE None]
    /\ built = 1
    /\ place = [w \in 1..MaxStaff |-> None]
    /\ hired = 0
    /\ steps = 0
    /\ master = [c \in Masters |-> Still]
    /\ young = {} /\ late = {}

\* A removal is past the count of children, or of workers.
Closing(i, pcs) == \E c \in Masters : master[c].on = i /\ master[c].pc \in pcs

\* The history of a step: whoever it brings to a site comes late or not.
Arrivals ==
    /\ young' = {j \in SiteIds :
                  IF site'[j] # None /\ (site[j] = None \/ site[j].parent # site'[j].parent)
                  THEN Closing(site'[j].parent, {"staff", "remove"}) ELSE j \in young}
    /\ late' = {w \in DOMAIN place : IF place'[w] # place[w]
                                     THEN Closing(place'[w], {"remove"}) ELSE w \in late}

SitesSteps ==
    \/ \E c \in Masters :
        \/ \E k \in SiteCodes :
            \/ \E p \in SiteIds \cup {None} : CreateSiteRead(c, k, p)
            \/ CreateFromTemplateRead(c, k)
        \/ \E i \in SiteIds : ToggleRead(c, i) \/ RemoveRead(c, i) \/ MigrateRead(c, i)
        \/ CreateSite(c) \/ CreateFromTemplate(c) \/ Toggle(c) \/ RemoveCount(c) \/ RemoveSite(c)
        \/ Migrate(c) \/ MasterDies(c)
    \/ \E i \in SiteIds :
        \/ \E k \in SiteCodes : SetCode(i, k)
        \/ Settle(i) \/ Hire(i)
        \/ \E w \in StaffIds : Move(w, i)

SitesNext == SitesSteps /\ Arrivals

SitesSpec == SitesInit /\ [][SitesNext]_sitesVars

-----------------------------------------------------------------------------
(* Property *)

\* "소속 작업자가 있으면 삭제 불가" ("cannot be removed while workers belong to
\* it"), and so for child sites: no step takes the site of a worker, or the
\* parent of a site, which would make a customer of it that nobody set up,
\* unless he or it came after the removal had counted (remove).
OnlyLateAreStranded ==
    [][/\ \A w \in DOMAIN place : place[w] # None /\ place'[w] = None => w \in late
       /\ \A j \in SiteIds :
            site[j] # None /\ site[j].parent # None /\ site'[j] # None /\ site'[j].parent = None =>
                j \in young]_sitesVars
=============================================================================
