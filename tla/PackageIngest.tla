---------------------------- MODULE PackageIngest ----------------------------
(***************************************************************************)
(* How packages get into the database and stay up to date (ingest.ts,      *)
(* insforge.ts, the package functions and triggers of the migrations).     *)
(*                                                                         *)
(* A job is one invocation of the Worker: a list walk, the refresh of open *)
(* packages, or a single guide, given with its provider or without.  It    *)
(* fetches a page of a courier's site, looks up who owns the guide, and    *)
(* posts; the site, other jobs and the panel's staff move in between.      *)
(*                                                                         *)
(* A package row is identified by tenant and guide.  Of its columns the    *)
(* model keeps provider_id, status, manual_status, deleted_at and the      *)
(* order of scraped_at.  Left out: events, notes and descriptive columns   *)
(* (the update trigger keeps these from being erased).  Which clients are  *)
(* deactivated does not change.                                            *)
(***************************************************************************)
EXTENDS Naturals, FiniteSets

CONSTANTS
  Provider,   \* courier sites, all of them active and with credentials
  Org,        \* tenants
  Guia,       \* warehouse numbers
  Box,        \* casilleros
  NoBox,      \* no casillero: a page that is not the detail of a package
  NoProvider, \* the provider of a row that does not exist
  NoMailbox,  \* no mailbox filter on a provider
  Mailbox,    \* providers.casillero_filter of each provider
  Link,       \* provider_agencies: [prov, org, filter], filter being the set
              \* of casilleros that start with the prefix, {} if it is NULL
  Scrapable,  \* tenants with agencies.is_scrapable
  Job,        \* invocations that can run at the same time
  Limit,      \* size of a refresh batch
  Inactive,   \* rows whose client is deactivated, if they exist
  Ops,        \* kinds of job, and what staff and the couriers do
  Faults      \* "fetch": a page cannot be had; "login": the page had is the
              \* login form; "call": a database call fails; "cut": the Worker dies

ASSUME IngestAssumption ==
  /\ IsFiniteSet(Guia)
  /\ IsFiniteSet(Link)
  /\ NoBox \notin Box
  /\ NoProvider \notin Provider
  /\ NoMailbox \notin Box
  /\ Mailbox \in [Provider -> Box \cup {NoMailbox}]
  /\ Link \subseteq [prov : Provider, org : Org, filter : SUBSET Box]
  /\ Scrapable \subseteq Org
  /\ Limit \in Nat \ {0}
  /\ Inactive \subseteq Org \X Guia

VARIABLES
  site,     \* what each courier's site shows of each guide
  box,      \* the casillero it has there
  prov,     \* packages.provider_id, NoProvider if there is no row
  scraped,  \* packages.status
  manual,   \* packages.manual_status
  deleted,  \* packages.deleted_at is set
  older,    \* packages.scraped_at: the rows scraped before this one
  pc,       \* what each job does next
  loc,      \* what each job has been given or has read
  late      \* history: the rows that others gave a provider since the
            \* pre-check of each job that is about to post

courier == <<site, box>>
table == <<prov, scraped, manual, deleted, older>>
job == <<pc, loc>>
vars == <<courier, table, job, late>>

Key == Org \X Guia
SiteStatus == {"absent", "open", "note", "delivered"}
Scraped == {"unknown", "open", "delivered"}
Override == {"none", "open", "delivered"}

(* A row as toPackageRow builds it. *)
Built == [org : Org, guia : Guia, prov : Provider, st : Scraped, note : BOOLEAN]

Pc == {"idle", "fetch", "check", "post"}
Kind == {"walk", "refresh", "one", "any"}
Local == [kind : Kind \cup {"none"}, todo : SUBSET (Provider \X Guia),
          list : [Guia -> Scraped], batch : SUBSET Built]
Blank == [kind |-> "none", todo |-> {}, list |-> [g \in Guia |-> "unknown"],
          batch |-> {}]

-----------------------------------------------------------------------------
(* Routing and the tables.                                                 *)

(* A manual-only tenant without a prefix is no candidate. *)
Routable(p) == {l \in Link : l.prov = p /\ (l.filter # {} \/ l.org \in Scrapable)}

(* Mutant: whoever has no prefix match goes to any tenant of the provider. *)
BugResolveProviderOrg(p, c) ==
  LET matches == {l \in Routable(p) : c \in l.filter}
  IN {l.org : l \in IF matches # {} THEN matches ELSE Routable(p)}

(* resolveProviderOrg.  {} stands for null; two tenants given the same      *)
(* prefix come in the order the database likes.  Of two prefixes of one     *)
(* casillero the longer one is the prefix of fewer casilleros.              *)
ResolveProviderOrg(p, c) ==
  LET matches == {l \in Routable(p) : c \in l.filter}
      longest == {l \in matches : \A m \in matches : l.filter \subseteq m.filter}
      defaults == {l \in Routable(p) : l.filter = {}}
  IN {l.org : l \in IF Cardinality(Routable(p)) = 1 THEN Routable(p)
                    ELSE IF matches # {} THEN longest
                    ELSE IF Cardinality(defaults) = 1 THEN defaults ELSE {}}

(* coalesce(manual_status, status), the generated column. *)
Effective(k) == IF manual[k] = "none" THEN scraped[k] ELSE manual[k]

Existing == {k \in Key : prov[k] # NoProvider}

(* The open packages of a provider, in all tenants. *)
Open(p) == {k \in Key : prov[k] = p /\ ~deleted[k] /\ Effective(k) # "delivered"}

BatchSize(p) == IF Cardinality(Open(p)) < Limit THEN Cardinality(Open(p)) ELSE Limit

(* Mutant: ordered by a column that a scrape does not change. *)
BugOldestOpen(p) == {CHOOSE B \in SUBSET Open(p) : Cardinality(B) = BatchSize(p)}

(* getOpenAlmacenIds: the least recently scraped open packages. *)
OldestOpen(p) ==
  {B \in SUBSET Open(p) :
     /\ Cardinality(B) = BatchSize(p)
     /\ \A k \in B : older[k] \cap Open(p) \subseteq B}

KeyOf(r) == <<r.org, r.guia>>

(* Mutant: an upsert sets scraped_at on insert only. *)
BugStamped(K) == [k \in Key |-> IF k \in K \ Existing THEN Existing \ K ELSE older[k]]

(* Writes set scraped_at to now; what one POST writes is of one age. *)
Stamped(K) == [k \in Key |-> IF k \in K THEN Existing \ K ELSE older[k] \ K]

(* Mutant: rows without a note are posted with a null manual_status. *)
BugNewOverride(k, r) == IF r.note THEN "delivered" ELSE "none"

(* manual_status is sent only with a RETIRADO note. *)
NewOverride(k, r) == IF r.note THEN "delivered" ELSE manual[k]

(* The upsert on (organization_id, almacen_id) overwrites provider_id and   *)
(* status, and never sends deleted_at.                                      *)
Upsert(R) ==
  LET at(k) == {r \in R : KeyOf(r) = k}
      new(k) == CHOOSE r \in at(k) : TRUE
  IN /\ prov' = [k \in Key |-> IF at(k) = {} THEN prov[k] ELSE new(k).prov]
     /\ scraped' = [k \in Key |-> IF at(k) = {} THEN scraped[k] ELSE new(k).st]
     /\ manual' = [k \in Key |-> IF at(k) = {} THEN manual[k] ELSE NewOverride(k, new(k))]
     /\ older' = Stamped({KeyOf(r) : r \in R})
     /\ UNCHANGED deleted

-----------------------------------------------------------------------------
Init ==
  /\ site = [p \in Provider |-> [g \in Guia |-> "absent"]]
  /\ box = [p \in Provider |-> [g \in Guia |-> NoBox]]
  /\ prov = [k \in Key |-> NoProvider]
  /\ scraped = [k \in Key |-> "unknown"]
  /\ manual = [k \in Key |-> "none"]
  /\ deleted = [k \in Key |-> FALSE]
  /\ older = [k \in Key |-> {}]
  /\ pc = [j \in Job |-> "idle"]
  /\ loc = [j \in Job |-> Blank]
  /\ late = [j \in Job |-> {}]

Given == {k \in Key : prov'[k] # prov[k]}

(* What every step leaves in the history; it restricts none of them. *)
Recorded ==
  late' = [j \in Job |->
    IF pc'[j] # "post" THEN {}
    ELSE IF loc'[j] # loc[j] THEN late[j] ELSE late[j] \cup Given]

Goto(j, step, locals) ==
  /\ pc' = [pc EXCEPT ![j] = step]
  /\ loc' = [loc EXCEPT ![j] = locals]

Finish(j) == Goto(j, "idle", Blank)

(* After a guide: a refresh goes on with the next one whatever happened,    *)
(* ingestOneAnyProvider with the next provider unless this one took it.     *)
GoOn(j, todo, success) ==
  IF todo # {} /\ (loc[j].kind = "refresh" \/ (loc[j].kind = "any" /\ ~success))
  THEN Goto(j, "fetch", [loc[j] EXCEPT !.todo = todo, !.batch = {}])
  ELSE Finish(j)

-----------------------------------------------------------------------------
(* Jobs.                                                                   *)

Known(p) == {g \in Guia : site[p][g] # "absent"}

(* Mutants: a note is taken for a status; a note is taken for a delivery. *)
BugShownNote(p, g) == site[p][g]
BugShownEarly(p, g) == IF site[p][g] = "open" THEN "open" ELSE "delivered"

(* The color of a row of the list, the color of a detail page. *)
Shown(p, g) == IF site[p][g] = "delivered" THEN "delivered" ELSE "open"

(* ingestProvider and ingestPage: a page lists some guides of the site; the *)
(* window and the recipient's name drop some more.                          *)
Walk(j, p) ==
  /\ pc[j] = "idle" /\ "walk" \in Ops
  /\ \E page \in (SUBSET Known(p)) \ {{}} :
       Goto(j, "fetch", [Blank EXCEPT !.kind = "walk", !.todo = {p} \X page,
              !.list = [g \in Guia |-> IF g \in page THEN Shown(p, g) ELSE "unknown"]])
  /\ UNCHANGED <<courier, table>>
  /\ Recorded

(* refreshOpenPackages reads guides, not rows: two tenants may have one.    *)
(* Rows of deactivated clients are dropped from the batch after the limit.  *)
Refresh(j, p) ==
  /\ pc[j] = "idle" /\ "refresh" \in Ops
  /\ \E B \in OldestOpen(p) :
       /\ B \ Inactive # {}
       /\ Goto(j, "fetch", [Blank EXCEPT !.kind = "refresh",
                                         !.todo = {<<p, k[2]>> : k \in B \ Inactive}])
  /\ UNCHANGED <<courier, table>>
  /\ Recorded

(* ingestOne, from the e-mail hook, the panel or the admin API. *)
One(j, p, g) ==
  /\ pc[j] = "idle" /\ "one" \in Ops
  /\ Goto(j, "fetch", [Blank EXCEPT !.kind = "one", !.todo = {<<p, g>>}])
  /\ UNCHANGED <<courier, table>>
  /\ Recorded

(* ingestOneAnyProvider: the providers come in no particular order. *)
AnyProvider(j, g) ==
  /\ pc[j] = "idle" /\ "any" \in Ops
  /\ Goto(j, "fetch", [Blank EXCEPT !.kind = "any", !.todo = Provider \X {g}])
  /\ UNCHANGED <<courier, table>>
  /\ Recorded

(* A page without any of the fields of a package. *)
Empty == [st |-> "unknown", box |-> NoBox, note |-> FALSE]

(* fetchDetail and parseDetail.  A site answers a guide it does not know    *)
(* with a page that has none of the fields, and so is the login form.       *)
Page(p, g) ==
  (IF g \in Known(p)
   THEN {[st |-> Shown(p, g), box |-> box[p][g], note |-> site[p][g] = "note"]}
   ELSE {Empty})
  \cup (IF "login" \in Faults THEN {Empty} ELSE {})

(* orgForPackage, then canScrape. *)
Tenants(p, c) == ResolveProviderOrg(p, c) \cap Scrapable

(* toPackageRow, if the package passes the routing. *)
RowsFor(p, g, st, d) ==
  {[org |-> o, guia |-> g, prov |-> p, st |-> st,
    note |-> d.note /\ st # "delivered"] : o \in Tenants(p, d.box)}

(* At most one row comes out of a page; the set is what it may be. *)
Choices(R) == IF R = {} THEN {{}} ELSE {{r} : r \in R}

(* A page of a list walk: a failed fetch leaves the row of the list, which  *)
(* has the status; only another casillero than the mailbox is rejected.     *)
FetchListed(j) ==
  /\ pc[j] = "fetch" /\ loc[j].kind = "walk"
  /\ \E t \in loc[j].todo :
     \E d \in Page(t[1], t[2]) \cup (IF "fetch" \in Faults THEN {Empty} ELSE {}) :
     \E new \in IF d.box \notin {NoBox, Mailbox[t[1]]} /\ Mailbox[t[1]] # NoMailbox
                THEN {{}} ELSE Choices(RowsFor(t[1], t[2], loc[j].list[t[2]], d)) :
       LET read == [loc[j] EXCEPT !.todo = @ \ {t}, !.batch = @ \cup new]
       IN IF read.todo # {} THEN Goto(j, "fetch", read)
          ELSE IF read.batch # {} THEN Goto(j, "check", read) ELSE Finish(j)
  /\ UNCHANGED <<courier, table>>
  /\ Recorded

(* ingestOne: the casillero must be the mailbox. *)
FetchSingle(j) ==
  /\ pc[j] = "fetch" /\ loc[j].kind # "walk"
  /\ \E t \in loc[j].todo : \E d \in Page(t[1], t[2]) :
     \E new \in IF Mailbox[t[1]] \notin {NoMailbox, d.box}
                THEN {{}} ELSE Choices(RowsFor(t[1], t[2], d.st, d)) :
       IF new = {} THEN GoOn(j, loc[j].todo \ {t}, FALSE)
       ELSE Goto(j, "check", [loc[j] EXCEPT !.todo = @ \ {t}, !.batch = new])
  /\ UNCHANGED <<courier, table>>
  /\ Recorded

FetchFails(j) ==
  /\ "fetch" \in Faults
  /\ pc[j] = "fetch" /\ loc[j].kind # "walk"
  /\ \E t \in loc[j].todo : GoOn(j, loc[j].todo \ {t}, FALSE)
  /\ UNCHANGED <<courier, table>>
  /\ Recorded

(* Mutant: the pre-check is dropped. *)
BugForeign(r) == FALSE

(* Another provider's row for this guide and tenant, deleted ones included. *)
Foreign(r) == prov[KeyOf(r)] \notin {NoProvider, r.prov}

(* excludeCrossProviderDuplicates.  A guide left out counts as taken. *)
PreCheck(j) ==
  /\ pc[j] = "check"
  /\ LET keep == {r \in loc[j].batch : ~Foreign(r)}
     IN IF keep = {} THEN GoOn(j, loc[j].todo, TRUE)
        ELSE Goto(j, "post", [loc[j] EXCEPT !.batch = keep])
  /\ UNCHANGED <<courier, table>>
  /\ Recorded

(* Rows of the same keys are one POST: those with a RETIRADO note and those *)
(* without.  After the last one come the events, whose POST may fail.       *)
Post(j) ==
  /\ pc[j] = "post"
  /\ \E note \in {r.note : r \in loc[j].batch} :
       LET group == {r \in loc[j].batch : r.note = note}
           rest == loc[j].batch \ group
       IN /\ Upsert(group)
          /\ IF rest # {} THEN Goto(j, "post", [loc[j] EXCEPT !.batch = rest])
             ELSE \E success \in IF "call" \in Faults THEN BOOLEAN ELSE {TRUE} :
                    GoOn(j, loc[j].todo, success)
  /\ UNCHANGED courier
  /\ Recorded

CallFails(j) ==
  /\ "call" \in Faults
  /\ pc[j] \in {"check", "post"}
  /\ GoOn(j, loc[j].todo, FALSE)
  /\ UNCHANGED <<courier, table>>
  /\ Recorded

(* The Worker is out of time or subrequests. *)
Cut(j) ==
  /\ "cut" \in Faults
  /\ pc[j] # "idle"
  /\ Finish(j)
  /\ UNCHANGED <<courier, table>>
  /\ Recorded

-----------------------------------------------------------------------------
(* Staff and couriers.                                                     *)

(* create_package: the provider is one of the tenant's; an existing row     *)
(* keeps its provider and status and is restored.                           *)
Create(k, p, m) ==
  /\ "create" \in Ops
  /\ \E l \in Link : l.prov = p /\ l.org = k[1]
  /\ IF prov[k] = NoProvider
     THEN prov' = [prov EXCEPT ![k] = p] /\ manual' = [manual EXCEPT ![k] = m]
     ELSE UNCHANGED <<prov, manual>>
  /\ deleted' = [deleted EXCEPT ![k] = FALSE]
  /\ older' = Stamped({k})
  /\ UNCHANGED <<courier, scraped, job>>
  /\ Recorded

(* set_manual_status, on a deleted package too. *)
SetStatus(k, m) ==
  /\ "status" \in Ops
  /\ k \in Existing
  /\ manual' = [manual EXCEPT ![k] = m]
  /\ UNCHANGED <<courier, prov, scraped, deleted, older, job>>
  /\ Recorded

(* delete_package *)
Delete(k) ==
  /\ "delete" \in Ops
  /\ k \in Existing
  /\ deleted' = [deleted EXCEPT ![k] = TRUE]
  /\ UNCHANGED <<courier, prov, scraped, manual, older, job>>
  /\ Recorded

Arrive(p, g, c) ==
  /\ site[p][g] = "absent"
  /\ site' = [site EXCEPT ![p][g] = "open"]
  /\ box' = [box EXCEPT ![p][g] = c]
  /\ UNCHANGED <<table, job>>
  /\ Recorded

(* A picked-up package gets a RETIRADO note or another color, or both. *)
PickUp(p, g, st) ==
  /\ \/ site[p][g] = "open"
     \/ site[p][g] = "note" /\ st = "delivered"
  /\ site' = [site EXCEPT ![p][g] = st]
  /\ UNCHANGED <<box, table, job>>
  /\ Recorded

-----------------------------------------------------------------------------
Start(j) ==
  \/ \E p \in Provider : Walk(j, p) \/ Refresh(j, p)
  \/ \E p \in Provider, g \in Guia : One(j, p, g)
  \/ \E g \in Guia : AnyProvider(j, g)

Continue(j) == FetchListed(j) \/ FetchSingle(j) \/ PreCheck(j) \/ Post(j)

Fault(j) == FetchFails(j) \/ CallFails(j) \/ Cut(j)

Staff(k) ==
  \/ \E p \in Provider, m \in Override : Create(k, p, m)
  \/ \E m \in Override \ {"none"} : SetStatus(k, m)
  \/ Delete(k)

Courier(p, g) ==
  \/ \E c \in Box : Arrive(p, g, c)
  \/ \E st \in {"note", "delivered"} : PickUp(p, g, st)

Next ==
  \/ \E j \in Job : Start(j) \/ Continue(j) \/ Fault(j)
  \/ \E k \in Key : Staff(k)
  \/ \E p \in Provider, g \in Guia : Courier(p, g)

Spec == Init /\ [][Next]_vars

(* The cron refreshes every provider again and again, and a job goes on. *)
FairSpec ==
  /\ Spec
  /\ \A p \in Provider : SF_vars(\E j \in Job : Refresh(j, p))
  /\ \A j \in Job : WF_vars(Continue(j))
=============================================================================
