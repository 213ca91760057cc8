-------------------------- MODULE IngestRequirements --------------------------
(* What the ingest promises about packages, apart from the state machine    *)
(* that has to keep it.                                                     *)
EXTENDS PackageIngest

TypeOK ==
  /\ site \in [Provider -> [Guia -> SiteStatus]]
  /\ box \in [Provider -> [Guia -> Box \cup {NoBox}]]
  /\ prov \in [Key -> Provider \cup {NoProvider}]
  /\ scraped \in [Key -> Scraped]
  /\ manual \in [Key -> Override]
  /\ deleted \in [Key -> BOOLEAN]
  /\ older \in [Key -> SUBSET Key]
  /\ pc \in [Job -> Pc]
  /\ loc \in [Job -> Local]
  /\ late \in [Job -> SUBSET Key]

(* A step of a job, as opposed to one of the staff or of a courier. *)
JobStep == job' # job

(* A row that says delivered says so of a package that its own provider      *)
(* shows as delivered, never of another provider's guide of that number.     *)
DeliveredIsReal ==
  \A k \in Existing : scraped[k] = "delivered" => site[prov[k]][k[2]] = "delivered"

(* A scrape changes the override of the staff only because the provider has  *)
(* noted that the package was picked up (ingest.ts 241-250).                 *)
OverrideKept ==
  [][\A k \in Key : JobStep /\ manual'[k] # manual[k] =>
       manual'[k] = "delivered" /\ site[prov'[k]][k[2]] \in {"note", "delivered"}]_vars

(* Tenant o takes packages of provider p that have casillero c. *)
Serves(o, p, c) ==
  /\ o \in Scrapable
  /\ \E l \in Routable(p) : /\ l.org = o
                            /\ c \in l.filter \/ l.filter = {} \/ Routable(p) = {l}

(* A scrape writes only in a tenant that takes the package: never in one     *)
(* with the prefix of other casilleros, and never in one that is not scraped *)
(* ("no sync for it, ever", ingest.ts 396 and 486).                          *)
RightTenant ==
  [][\A k \in Key : JobStep /\ <<prov'[k], scraped'[k]>> # <<prov[k], scraped[k]>> =>
       Serves(k[1], prov'[k], box[prov'[k]][k[2]])]_vars

(* Job j posts over what its pre-check could not have seen. *)
PostsLate(j, k) == pc[j] = "post" /\ loc'[j] # loc[j] /\ k \in late[j]

(* "A guide that belongs to another provider is never merged" (insforge.ts   *)
(* 287-288), deleted rows included: whatever jobs overlap and whatever staff *)
(* create, no row changes its provider except under a job that looked before *)
(* the row was given the one it has.                                         *)
MergedOnlyLate ==
  [][\A k \in Existing : prov'[k] # prov[k] => \E j \in Job : PostsLate(j, k)]_vars

(* The row of package k gets a new scraped_at. *)
Reach(k) ==
  \/ \E j \in Job : pc[j] = "post" /\ Post(j) /\ (\E r \in loc[j].batch : KeyOf(r) = k)
  \/ \E p \in Provider, m \in Override : Create(k, p, m)

(* "every open package is reached within a few ticks" (insforge.ts 179-180), *)
(* but for those of deactivated clients, which are left out on purpose.      *)
EveryOpenReached ==
  \A k \in Key \ Inactive : (<>[](\E p \in Provider : k \in Open(p))) => []<><<Reach(k)>>_vars

(* An open package that its provider shows as delivered gets to be known as  *)
(* delivered (docs/known-issues.md 165-183), unless staff close it first.    *)
DeliveryNoticed ==
  \A k \in Key \ Inactive, p \in Provider :
    (k \in Open(p) /\ site[p][k[2]] = "delivered")
      ~> (k \notin Open(p) \/ scraped[k] = "delivered")
=============================================================================
