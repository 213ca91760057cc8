----------------------------- MODULE IngestProofs -----------------------------
(***************************************************************************)
(* Theorems about PackageIngest for every set of couriers, tenants, guides *)
(* and routing rules, every mix of jobs and every fault.                   *)
(***************************************************************************)
EXTENDS IngestRequirements, FiniteSetTheorems, TLAPS

(***************************************************************************)
(* Routing.  A page without a casillero goes to a tenant that would take   *)
(* any package of the provider; one with a casillero, to one that takes it.*)
(***************************************************************************)
LEMMA TenantsServe ==
  ASSUME NEW p \in Provider, NEW c \in Box \cup {NoBox}, NEW o \in Tenants(p, c)
  PROVE  o \in Org /\ Serves(o, p, c)
<1>1. IsFiniteSet(Routable(p))
  BY IngestAssumption, FS_Subset DEF Routable
<1>2. o \in ResolveProviderOrg(p, c) /\ o \in Scrapable
  BY DEF Tenants
<1>3. CASE Cardinality(Routable(p)) = 1
  <2>1. PICK l : Routable(p) = {l}
    BY <1>1, <1>3, FS_Singleton
  <2>2. o = l.org
    BY <1>2, <1>3, <2>1 DEF ResolveProviderOrg
  <2>3. QED
    BY <1>2, <2>1, <2>2, IngestAssumption DEF Serves
<1>4. CASE Cardinality(Routable(p)) # 1
  <2>1. PICK l \in Routable(p) : l.org = o /\ (c \in l.filter \/ l.filter = {})
    BY <1>2, <1>4 DEF ResolveProviderOrg
  <2>2. QED
    BY <1>2, <2>1, IngestAssumption DEF Serves
<1>5. QED
  BY <1>3, <1>4

LEMMA UnknownServes ==
  ASSUME NEW o, NEW p \in Provider, NEW c, Serves(o, p, NoBox)
  PROVE  Serves(o, p, c)
<1>1. PICK l \in Routable(p) :
        l.org = o /\ (NoBox \in l.filter \/ l.filter = {} \/ Routable(p) = {l})
  BY DEF Serves
<1>2. NoBox \notin l.filter
  BY IngestAssumption DEF Routable
<1>3. QED
  BY <1>1, <1>2 DEF Serves

(***************************************************************************)
(* What a job has read stays true of the courier's site: nothing there is  *)
(* taken back.                                                             *)
(***************************************************************************)
Sound(r) ==
  /\ r.st = "delivered" => site[r.prov][r.guia] = "delivered"
  /\ r.note => site[r.prov][r.guia] \in {"note", "delivered"}
  /\ Serves(r.org, r.prov, box[r.prov][r.guia])

LocalSound(l) ==
  /\ \A r \in l.batch : Sound(r)
  /\ l.kind = "walk" =>
       \A t \in l.todo : l.list[t[2]] = "delivered" => site[t[1]][t[2]] = "delivered"

JobsSound == \A j \in Job : LocalSound(loc[j])
BoxKnown == \A p \in Provider, g \in Guia : site[p][g] = "absent" => box[p][g] = NoBox

EmptyRows == \A k \in Key : prov[k] = NoProvider => scraped[k] = "unknown"

IngestInv == TypeOK /\ BoxKnown /\ JobsSound /\ EmptyRows /\ DeliveredIsReal

LEMMA ShownSound ==
  ASSUME TypeOK, NEW p \in Provider, NEW g \in Guia
  PROVE  /\ Shown(p, g) \in Scraped
         /\ Shown(p, g) = "delivered" => site[p][g] = "delivered"
BY DEF Shown, Scraped

Detail == [st : Scraped, box : Box \cup {NoBox}, note : BOOLEAN]

LEMMA EmptySound == Empty \in Detail /\ Empty.st # "delivered" /\ ~Empty.note /\ Empty.box = NoBox
BY DEF Empty, Detail, Scraped

LEMMA PageSound ==
  ASSUME TypeOK, NEW p \in Provider, NEW g \in Guia, NEW d \in Page(p, g) \cup {Empty}
  PROVE  /\ d \in Detail
         /\ d.st = "delivered" => site[p][g] = "delivered"
         /\ d.note => site[p][g] = "note"
         /\ d.box \in {NoBox, box[p][g]}
<1>1. CASE d = Empty
  BY <1>1, EmptySound
<1>2. CASE d # Empty
  <2>1. d = [st |-> Shown(p, g), box |-> box[p][g], note |-> site[p][g] = "note"]
    BY <1>2 DEF Page
  <2>2. box[p][g] \in Box \cup {NoBox}
    BY DEF TypeOK
  <2>3. QED
    BY <2>1, <2>2, ShownSound DEF Detail
<1>3. QED
  BY <1>1, <1>2

LEMMA RowsBuilt ==
  ASSUME TypeOK, NEW p \in Provider, NEW g \in Guia, NEW st \in Scraped,
         NEW d \in Page(p, g) \cup {Empty},
         NEW new \in Choices(RowsFor(p, g, st, d)), NEW r \in new
  PROVE  r \in Built /\ r.prov = p
<1>1. PICK o \in Tenants(p, d.box) :
        r = [org |-> o, guia |-> g, prov |-> p, st |-> st, note |-> d.note /\ st # "delivered"]
  BY DEF Choices, RowsFor
<1>2. d.note \in BOOLEAN /\ d.box \in Box \cup {NoBox}
  BY PageSound DEF Detail
<1>3. o \in Org
  BY <1>2, TenantsServe
<1>4. QED
  BY <1>1, <1>2, <1>3 DEF Built

(***************************************************************************)
(* A row built from a page is sound if its status is.                      *)
(***************************************************************************)
LEMMA RowsSound ==
  ASSUME TypeOK, NEW p \in Provider, NEW g \in Guia, NEW st \in Scraped,
         NEW d \in Page(p, g) \cup {Empty},
         st = "delivered" => site[p][g] = "delivered",
         NEW new \in Choices(RowsFor(p, g, st, d)), NEW r \in new
  PROVE  r \in Built /\ Sound(r)
<1>1. PICK o \in Tenants(p, d.box) :
        r = [org |-> o, guia |-> g, prov |-> p, st |-> st, note |-> d.note /\ st # "delivered"]
  BY DEF Choices, RowsFor
<1>2. /\ d.note \in BOOLEAN
      /\ d.note => site[p][g] = "note"
      /\ d.box \in {NoBox, box[p][g]}
      /\ d.box \in Box \cup {NoBox}
  BY PageSound DEF Detail
<1>3. o \in Org /\ Serves(o, p, d.box)
  BY <1>2, TenantsServe
<1>4. Serves(o, p, box[p][g])
  BY <1>2, <1>3, UnknownServes
<1>5. QED
  BY <1>1, <1>2, <1>4, RowsBuilt DEF Sound

(***************************************************************************)
(* A job moves on with well-typed and sound locals; the others keep theirs.*)
(***************************************************************************)
LEMMA GotoSound ==
  ASSUME TypeOK, JobsSound, NEW j \in Job, NEW s \in Pc, NEW l \in Local, LocalSound(l),
         Goto(j, s, l), UNCHANGED courier
  PROVE  pc' \in [Job -> Pc] /\ loc' \in [Job -> Local] /\ JobsSound'
<1>1. pc' \in [Job -> Pc] /\ loc' \in [Job -> Local]
  BY DEF Goto, TypeOK
<1>2. ASSUME NEW i \in Job PROVE LocalSound(loc'[i])
  BY DEF Goto, TypeOK, JobsSound
<1>3. site' = site /\ box' = box
  BY DEF courier
<1>4. QED
  BY <1>1, <1>2, <1>3 DEF JobsSound, LocalSound, Sound

LEMMA BlankSound == Blank \in Local /\ LocalSound(Blank)
BY DEF Blank, Local, LocalSound, Scraped

LEMMA FinishSound ==
  ASSUME TypeOK, JobsSound, NEW j \in Job, Finish(j), UNCHANGED courier
  PROVE  pc' \in [Job -> Pc] /\ loc' \in [Job -> Local] /\ JobsSound'
BY BlankSound, GotoSound DEF Finish, Pc

LEMMA GoOnSound ==
  ASSUME TypeOK, JobsSound, NEW j \in Job, NEW todo \in SUBSET loc[j].todo, NEW success,
         GoOn(j, todo, success), UNCHANGED courier
  PROVE  pc' \in [Job -> Pc] /\ loc' \in [Job -> Local] /\ JobsSound'
<1>1. CASE Finish(j)
  BY <1>1, FinishSound
<1>2. CASE loc[j].kind \in {"refresh", "any"}
           /\ Goto(j, "fetch", [loc[j] EXCEPT !.todo = todo, !.batch = {}])
  <2> DEFINE l == [loc[j] EXCEPT !.todo = todo, !.batch = {}]
  <2>1. loc[j] \in Local
    BY DEF TypeOK
  <2>2. l \in Local /\ LocalSound(l)
    BY <1>2, <2>1 DEF Local, LocalSound
  <2>3. QED
    BY <1>2, <2>2, GotoSound DEF Pc
<1>3. QED
  BY <1>1, <1>2 DEF GoOn

(***************************************************************************)
(* An upsert writes a row of its batch or leaves the row as it is.         *)
(***************************************************************************)
LEMMA UpsertWrites ==
  ASSUME TypeOK, NEW R \in SUBSET Built, Upsert(R)
  PROVE  /\ prov' \in [Key -> Provider \cup {NoProvider}]
         /\ scraped' \in [Key -> Scraped]
         /\ manual' \in [Key -> Override]
         /\ older' \in [Key -> SUBSET Key]
         /\ \A k \in Key :
              \/ prov'[k] = prov[k] /\ scraped'[k] = scraped[k] /\ manual'[k] = manual[k]
              \/ \E r \in R : /\ KeyOf(r) = k
                             /\ prov'[k] = r.prov
                             /\ scraped'[k] = r.st
                             /\ manual'[k] = NewOverride(k, r)
<1> DEFINE at(k) == {r \in R : KeyOf(r) = k}
           new(k) == CHOOSE r \in at(k) : TRUE
<1>1. ASSUME NEW k \in Key, at(k) # {}
      PROVE  new(k) \in R /\ KeyOf(new(k)) = k
  <2>1. new(k) \in at(k)
    BY <1>1
  <2>2. QED
    BY <2>1
<1>2. /\ prov' = [k \in Key |-> IF at(k) = {} THEN prov[k] ELSE new(k).prov]
      /\ scraped' = [k \in Key |-> IF at(k) = {} THEN scraped[k] ELSE new(k).st]
      /\ manual' = [k \in Key |-> IF at(k) = {} THEN manual[k] ELSE NewOverride(k, new(k))]
      /\ older' = Stamped({KeyOf(r) : r \in R})
  BY DEF Upsert
<1> HIDE DEF at, new
<1>3. ASSUME NEW k \in Key
      PROVE  \/ prov'[k] = prov[k] /\ scraped'[k] = scraped[k] /\ manual'[k] = manual[k]
             \/ \E r \in R : /\ KeyOf(r) = k
                            /\ prov'[k] = r.prov
                            /\ scraped'[k] = r.st
                            /\ manual'[k] = NewOverride(k, r)
  BY <1>1, <1>2
<1>4. older' \in [Key -> SUBSET Key]
  BY <1>2 DEF Stamped, Existing, TypeOK
<1>5. ASSUME NEW k \in Key
      PROVE  prov'[k] \in Provider \cup {NoProvider} /\ scraped'[k] \in Scraped
             /\ manual'[k] \in Override
  BY <1>3 DEF TypeOK, Built, NewOverride, Override
<1>6. QED
  BY <1>2, <1>3, <1>4, <1>5

(***************************************************************************)
(* The steps of jobs, one lemma per stage.                                 *)
(***************************************************************************)
LEMMA StartSound ==
  ASSUME TypeOK, JobsSound, NEW j \in Job, Start(j)
  PROVE  pc' \in [Job -> Pc] /\ loc' \in [Job -> Local] /\ JobsSound'
<1>1. ASSUME NEW p \in Provider, Walk(j, p)
      PROVE  pc' \in [Job -> Pc] /\ loc' \in [Job -> Local] /\ JobsSound'
  <2>1. PICK page \in (SUBSET Known(p)) \ {{}} :
          Goto(j, "fetch", [Blank EXCEPT !.kind = "walk", !.todo = {p} \X page,
            !.list = [g \in Guia |-> IF g \in page THEN Shown(p, g) ELSE "unknown"]])
    BY <1>1 DEF Walk
  <2> DEFINE list == [g \in Guia |-> IF g \in page THEN Shown(p, g) ELSE "unknown"]
             l == [Blank EXCEPT !.kind = "walk", !.todo = {p} \X page, !.list = list]
  <2>2. page \subseteq Guia
    BY DEF Known
  <2>3. list \in [Guia -> Scraped]
    BY ShownSound DEF Scraped
  <2>4. /\ l.kind = "walk" /\ l.todo = {p} \X page /\ l.list = list /\ l.batch = {}
        /\ l \in Local
    BY <2>2, <2>3 DEF Blank, Local, Kind
  <2>5. \A g \in page : list[g] = "delivered" => site[p][g] = "delivered"
    BY <2>2, ShownSound
  <2>6. LocalSound(l)
    BY <2>2, <2>4, <2>5 DEF LocalSound
  <2>7. QED
    BY <1>1, <2>1, <2>4, <2>6, GotoSound DEF Walk, Pc
<1>2. ASSUME NEW kind \in {"refresh", "one", "any"}, NEW todo \in SUBSET (Provider \X Guia),
             Goto(j, "fetch", [Blank EXCEPT !.kind = kind, !.todo = todo]), UNCHANGED courier
      PROVE  pc' \in [Job -> Pc] /\ loc' \in [Job -> Local] /\ JobsSound'
  <2> DEFINE l == [Blank EXCEPT !.kind = kind, !.todo = todo]
  <2>1. l \in Local /\ l.batch = {} /\ l.kind # "walk"
    BY BlankSound DEF Blank, Local, Kind
  <2>2. QED
    BY <1>2, <2>1, GotoSound DEF LocalSound, Pc
<1>3. ASSUME NEW p \in Provider, Refresh(j, p)
      PROVE  pc' \in [Job -> Pc] /\ loc' \in [Job -> Local] /\ JobsSound'
  <2>1. PICK B \in OldestOpen(p) :
          Goto(j, "fetch", [Blank EXCEPT !.kind = "refresh", !.todo = {<<p, k[2]>> : k \in B \ Inactive}])
    BY <1>3 DEF Refresh
  <2>2. {<<p, k[2]>> : k \in B \ Inactive} \in SUBSET (Provider \X Guia)
    BY DEF OldestOpen, Open, Key
  <2>3. QED
    BY <1>2, <1>3, <2>1, <2>2 DEF Refresh
<1>4. ASSUME NEW p \in Provider, NEW g \in Guia, One(j, p, g)
      PROVE  pc' \in [Job -> Pc] /\ loc' \in [Job -> Local] /\ JobsSound'
  <2>1. {<<p, g>>} \in SUBSET (Provider \X Guia) /\ UNCHANGED courier
    BY <1>4 DEF One
  <2>2. Goto(j, "fetch", [Blank EXCEPT !.kind = "one", !.todo = {<<p, g>>}])
    BY <1>4 DEF One
  <2>3. QED
    BY <1>2, <2>1, <2>2
<1>5. ASSUME NEW g \in Guia, AnyProvider(j, g)
      PROVE  pc' \in [Job -> Pc] /\ loc' \in [Job -> Local] /\ JobsSound'
  <2>1. Provider \X {g} \in SUBSET (Provider \X Guia) /\ UNCHANGED courier
    BY <1>5 DEF AnyProvider
  <2>2. Goto(j, "fetch", [Blank EXCEPT !.kind = "any", !.todo = Provider \X {g}])
    BY <1>5 DEF AnyProvider
  <2>3. QED
    BY <1>2, <2>1, <2>2
<1>6. QED
  BY <1>1, <1>3, <1>4, <1>5 DEF Start

LEMMA FetchListedSound ==
  ASSUME TypeOK, JobsSound, NEW j \in Job, FetchListed(j)
  PROVE  pc' \in [Job -> Pc] /\ loc' \in [Job -> Local] /\ JobsSound'
<1>1. PICK t \in loc[j].todo :
        \E d \in Page(t[1], t[2]) \cup {Empty} : \E new \in {{}} \cup Choices(RowsFor(t[1], t[2], loc[j].list[t[2]], d)) :
          LET read == [loc[j] EXCEPT !.todo = @ \ {t}, !.batch = @ \cup new]
          IN IF read.todo # {} THEN Goto(j, "fetch", read)
             ELSE IF read.batch # {} THEN Goto(j, "check", read) ELSE Finish(j)
  BY DEF FetchListed
<1>2. PICK d \in Page(t[1], t[2]) \cup {Empty} :
        \E new \in {{}} \cup Choices(RowsFor(t[1], t[2], loc[j].list[t[2]], d)) :
          LET read == [loc[j] EXCEPT !.todo = @ \ {t}, !.batch = @ \cup new]
          IN IF read.todo # {} THEN Goto(j, "fetch", read)
             ELSE IF read.batch # {} THEN Goto(j, "check", read) ELSE Finish(j)
  BY <1>1
<1>a. PICK new \in {{}} \cup Choices(RowsFor(t[1], t[2], loc[j].list[t[2]], d)) :
          LET read == [loc[j] EXCEPT !.todo = @ \ {t}, !.batch = @ \cup new]
          IN IF read.todo # {} THEN Goto(j, "fetch", read)
             ELSE IF read.batch # {} THEN Goto(j, "check", read) ELSE Finish(j)
  BY <1>2
<1> DEFINE read == [loc[j] EXCEPT !.todo = @ \ {t}, !.batch = @ \cup new]
<1>3. loc[j] \in Local /\ LocalSound(loc[j]) /\ loc[j].kind = "walk"
  BY DEF TypeOK, JobsSound, FetchListed
<1>4. t[1] \in Provider /\ t[2] \in Guia
  BY <1>3 DEF Local
<1>5. /\ loc[j].list[t[2]] \in Scraped
      /\ loc[j].list[t[2]] = "delivered" => site[t[1]][t[2]] = "delivered"
  BY <1>3, <1>4 DEF Local, LocalSound
<1>6. \A r \in new : r \in Built /\ Sound(r)
  BY <1>4, <1>5, RowsSound
<1>7. read \in Local
  BY <1>3, <1>6 DEF Local
<1>8. LocalSound(read)
  BY <1>3, <1>6 DEF Local, LocalSound
<1>9. UNCHANGED courier
  BY DEF FetchListed
<1> HIDE DEF read
<1>10. QED
  BY <1>a, <1>7, <1>8, <1>9, GotoSound, FinishSound DEF read, Pc

LEMMA FetchSingleSound ==
  ASSUME TypeOK, JobsSound, NEW j \in Job, FetchSingle(j) \/ FetchFails(j)
  PROVE  pc' \in [Job -> Pc] /\ loc' \in [Job -> Local] /\ JobsSound'
<1>0. loc[j] \in Local /\ LocalSound(loc[j])
  BY DEF TypeOK, JobsSound
<1>1. UNCHANGED courier
  BY DEF FetchSingle, FetchFails
<1>2. CASE FetchFails(j)
  BY <1>1, <1>2, GoOnSound DEF FetchFails
<1>3. CASE FetchSingle(j)
  <2>a. PICK t \in loc[j].todo : \E d \in Page(t[1], t[2]) :
          \E new \in {{}} \cup Choices(RowsFor(t[1], t[2], d.st, d)) :
            IF new = {} THEN GoOn(j, loc[j].todo \ {t}, FALSE)
            ELSE Goto(j, "check", [loc[j] EXCEPT !.todo = @ \ {t}, !.batch = new])
    BY <1>3 DEF FetchSingle
  <2>b. PICK d \in Page(t[1], t[2]) :
          \E new \in {{}} \cup Choices(RowsFor(t[1], t[2], d.st, d)) :
            IF new = {} THEN GoOn(j, loc[j].todo \ {t}, FALSE)
            ELSE Goto(j, "check", [loc[j] EXCEPT !.todo = @ \ {t}, !.batch = new])
    BY <2>a
  <2>1. PICK new \in {{}} \cup Choices(RowsFor(t[1], t[2], d.st, d)) :
          IF new = {} THEN GoOn(j, loc[j].todo \ {t}, FALSE)
          ELSE Goto(j, "check", [loc[j] EXCEPT !.todo = @ \ {t}, !.batch = new])
    BY <2>b
  <2> DEFINE read == [loc[j] EXCEPT !.todo = @ \ {t}, !.batch = new]
  <2>2. t[1] \in Provider /\ t[2] \in Guia
    BY <1>0 DEF Local
  <2>3. d.st \in Scraped /\ (d.st = "delivered" => site[t[1]][t[2]] = "delivered")
    BY <2>2, PageSound DEF Detail
  <2>4. \A r \in new : r \in Built /\ Sound(r)
    BY <2>2, <2>3, RowsSound
  <2>5. read \in Local
    BY <1>0, <2>4 DEF Local
  <2>6. loc[j].kind # "walk"
    BY <1>3 DEF FetchSingle
  <2>7. LocalSound(read)
    BY <1>0, <2>4, <2>6 DEF Local, LocalSound
  <2>8. CASE new = {}
    BY <1>1, <2>1, <2>8, GoOnSound
  <2> HIDE DEF read
  <2>9. CASE new # {}
    BY <1>1, <2>1, <2>5, <2>7, <2>9, GotoSound DEF read, Pc
  <2>10. QED
    BY <2>8, <2>9
<1>4. QED
  BY <1>2, <1>3

LEMMA WriteSound ==
  ASSUME TypeOK, JobsSound, NEW j \in Job,
         PreCheck(j) \/ Post(j) \/ CallFails(j) \/ Cut(j)
  PROVE  pc' \in [Job -> Pc] /\ loc' \in [Job -> Local] /\ JobsSound'
<1>0. loc[j] \in Local /\ LocalSound(loc[j])
  BY DEF TypeOK, JobsSound
<1>1. UNCHANGED courier
  BY DEF PreCheck, Post, CallFails, Cut
<1>2. ASSUME NEW B \in SUBSET loc[j].batch,
             Goto(j, "post", [loc[j] EXCEPT !.batch = B])
      PROVE  pc' \in [Job -> Pc] /\ loc' \in [Job -> Local] /\ JobsSound'
  <2> DEFINE l == [loc[j] EXCEPT !.batch = B]
  <2>1. l \in Local /\ LocalSound(l)
    BY <1>0 DEF Local, LocalSound
  <2>2. QED
    BY <1>1, <1>2, <2>1, GotoSound DEF Pc
<1>3. CASE PreCheck(j)
  <2>1. PICK B \in SUBSET loc[j].batch :
          GoOn(j, loc[j].todo, TRUE) \/ Goto(j, "post", [loc[j] EXCEPT !.batch = B])
    BY <1>3 DEF PreCheck
  <2>2. QED
    BY <1>1, <1>2, <2>1, GoOnSound
<1>4. CASE Post(j)
  <2>1. PICK B \in SUBSET loc[j].batch :
          \/ Goto(j, "post", [loc[j] EXCEPT !.batch = B])
          \/ \E success \in BOOLEAN : GoOn(j, loc[j].todo, success)
    BY <1>4 DEF Post
  <2>2. QED
    BY <1>1, <1>2, <2>1, GoOnSound
<1>5. CASE CallFails(j)
  BY <1>1, <1>5, GoOnSound DEF CallFails
<1>6. CASE Cut(j)
  BY <1>1, <1>6, FinishSound DEF Cut
<1>7. QED
  BY <1>3, <1>4, <1>5, <1>6

LEMMA JobSteps ==
  ASSUME TypeOK, JobsSound, NEW j \in Job, Start(j) \/ Continue(j) \/ Fault(j)
  PROVE  pc' \in [Job -> Pc] /\ loc' \in [Job -> Local] /\ JobsSound'
BY StartSound, FetchListedSound, FetchSingleSound, WriteSound DEF Continue, Fault

(* Only a POST touches the tables. *)
LEMMA OthersWriteNothing ==
  ASSUME NEW j \in Job, Start(j) \/ Continue(j) \/ Fault(j), ~Post(j)
  PROVE  UNCHANGED <<courier, table>>
<1>1. CASE Start(j)
  BY <1>1 DEF Start, Walk, Refresh, One, AnyProvider
<1>2. CASE Continue(j) \/ Fault(j)
  BY <1>2 DEF Continue, Fault, FetchListed, FetchSingle, FetchFails, PreCheck, CallFails, Cut
<1>3. QED
  BY <1>1, <1>2

(* What a POST writes, in terms of the batch it comes from. *)
LEMMA PostWrites ==
  ASSUME TypeOK, NEW j \in Job, Post(j)
  PROVE  /\ UNCHANGED <<courier, deleted>>
         /\ prov' \in [Key -> Provider \cup {NoProvider}]
         /\ scraped' \in [Key -> Scraped]
         /\ manual' \in [Key -> Override]
         /\ older' \in [Key -> SUBSET Key]
         /\ \A k \in Key :
              \/ prov'[k] = prov[k] /\ scraped'[k] = scraped[k] /\ manual'[k] = manual[k]
              \/ \E r \in loc[j].batch : /\ r \in Built
                                       /\ KeyOf(r) = k
                                       /\ prov'[k] = r.prov
                                       /\ scraped'[k] = r.st
                                       /\ manual'[k] = NewOverride(k, r)
<1>1. PICK R \in SUBSET loc[j].batch : Upsert(R)
  BY DEF Post
<1>2. R \in SUBSET Built
  BY DEF TypeOK, Local
<1>3. UNCHANGED <<courier, deleted>>
  BY <1>1 DEF Post, Upsert
<1>4. QED
  BY <1>1, <1>2, <1>3, UpsertWrites

(* Every step records what it gives a provider. *)
LEMMA AllRecord == Next => Recorded
<1>1. ASSUME NEW j \in Job, Start(j) PROVE Recorded
  BY <1>1 DEF Start, Walk, Refresh, One, AnyProvider
<1>2. ASSUME NEW j \in Job, Continue(j) \/ Fault(j) PROVE Recorded
  BY <1>2 DEF Continue, Fault, FetchListed, FetchSingle, FetchFails, PreCheck, Post, CallFails,
              Cut
<1>3. ASSUME NEW k \in Key, Staff(k) PROVE Recorded
  BY <1>3 DEF Staff, Create, SetStatus, Delete
<1>4. ASSUME NEW p \in Provider, NEW g \in Guia, Courier(p, g) PROVE Recorded
  BY <1>4 DEF Courier, Arrive, PickUp
<1>5. QED
  BY <1>1, <1>2, <1>3, <1>4 DEF Next

LEMMA LateTyped == TypeOK /\ Next => late' \in [Job -> SUBSET Key]
BY AllRecord DEF Recorded, Given, TypeOK

LEMMA InvInit == Init => IngestInv
<1> SUFFICES ASSUME Init PROVE IngestInv
  OBVIOUS
<1>1. TypeOK
  BY BlankSound DEF Init, TypeOK, SiteStatus, Scraped, Override, Pc
<1>2. JobsSound
  BY BlankSound DEF Init, JobsSound
<1>3. BoxKnown
  BY DEF Init, BoxKnown
<1>4. EmptyRows /\ DeliveredIsReal
  BY DEF Init, EmptyRows, DeliveredIsReal, Existing, Key
<1>5. QED
  BY <1>1, <1>2, <1>3, <1>4 DEF IngestInv

LEMMA CourierStep ==
  ASSUME IngestInv, NEW p \in Provider, NEW g \in Guia, Courier(p, g)
  PROVE  IngestInv'
<1> USE DEF IngestInv
<1>1. UNCHANGED <<table, job>>
  BY DEF Courier, Arrive, PickUp
<1>2. prov' = prov /\ scraped' = scraped /\ manual' = manual /\ deleted' = deleted
      /\ older' = older /\ pc' = pc /\ loc' = loc
  BY <1>1 DEF table, job
<1>3. /\ site' \in [Provider -> [Guia -> SiteStatus]]
      /\ box' \in [Provider -> [Guia -> Box \cup {NoBox}]]
  <2>1. CASE \E c \in Box : Arrive(p, g, c)
    <3>1. PICK c \in Box : Arrive(p, g, c)
      BY <2>1
    <3>2. /\ site' = [site EXCEPT ![p] = [@ EXCEPT ![g] = "open"]]
          /\ box' = [box EXCEPT ![p] = [@ EXCEPT ![g] = c]]
      BY <3>1 DEF Arrive
    <3>3. QED
      BY <3>2 DEF TypeOK, SiteStatus
  <2>2. CASE \E st \in {"note", "delivered"} : PickUp(p, g, st)
    <3>1. PICK st \in {"note", "delivered"} : PickUp(p, g, st)
      BY <2>2
    <3>2. /\ site' = [site EXCEPT ![p] = [@ EXCEPT ![g] = st]]
          /\ box' = box
      BY <3>1 DEF PickUp
    <3>3. QED
      BY <3>2 DEF TypeOK, SiteStatus
  <2>3. QED
    BY <2>1, <2>2 DEF Courier
<1>4. ASSUME NEW q \in Provider, NEW h \in Guia
      PROVE  /\ site[q][h] = "delivered" => site'[q][h] = "delivered"
             /\ site[q][h] \in {"note", "delivered"} => site'[q][h] \in {"note", "delivered"}
             /\ site'[q][h] = "absent" => box'[q][h] = NoBox
             /\ box[q][h] # NoBox => box'[q][h] = box[q][h]
  <2> USE DEF SiteStatus
  <2>0. /\ site \in [Provider -> [Guia -> SiteStatus]]
        /\ box \in [Provider -> [Guia -> Box \cup {NoBox}]]
        /\ site[q][h] = "absent" => box[q][h] = NoBox
    BY <1>4 DEF TypeOK, BoxKnown
  <2>1. CASE \E c \in Box : Arrive(p, g, c)
    <3>1. PICK c \in Box : Arrive(p, g, c)
      BY <2>1
    <3>2. /\ site[p][g] = "absent"
          /\ site' = [site EXCEPT ![p] = [@ EXCEPT ![g] = "open"]]
          /\ box' = [box EXCEPT ![p] = [@ EXCEPT ![g] = c]]
      BY <3>1 DEF Arrive
    <3>3. box[p][g] = NoBox
      BY <3>2 DEF BoxKnown
    <3>4. CASE q = p /\ h = g
      BY <2>0, <3>2, <3>3, <3>4
    <3>5. CASE ~(q = p /\ h = g)
      BY <2>0, <3>2, <3>5
    <3>6. QED
      BY <3>4, <3>5
  <2>2. CASE \E st \in {"note", "delivered"} : PickUp(p, g, st)
    <3>1. PICK st \in {"note", "delivered"} : PickUp(p, g, st)
      BY <2>2
    <3>2. /\ site[p][g] \in {"open", "note"}
          /\ st = "note" => site[p][g] = "open"
          /\ site' = [site EXCEPT ![p] = [@ EXCEPT ![g] = st]]
          /\ box' = box
      BY <3>1 DEF PickUp
    <3>3. CASE q = p /\ h = g
      BY <2>0, <3>1, <3>2, <3>3
    <3>4. CASE ~(q = p /\ h = g)
      BY <2>0, <3>2, <3>4
    <3>5. QED
      BY <3>3, <3>4
  <2>3. QED
    BY <2>1, <2>2 DEF Courier
<1>5. ASSUME NEW r \in Built, Sound(r)
      PROVE  Sound(r)'
  <2>1. r.prov \in Provider /\ r.guia \in Guia
    BY DEF Built
  <2>2. Serves(r.org, r.prov, box'[r.prov][r.guia])
    BY <1>4, <1>5, <2>1, UnknownServes DEF Sound
  <2>3. QED
    BY <1>4, <1>5, <2>1, <2>2 DEF Sound
<1>6. ASSUME NEW l \in Local, LocalSound(l)
      PROVE  LocalSound(l)'
  BY <1>4, <1>5, <1>6 DEF LocalSound, Local
<1>7. JobsSound'
  BY <1>2, <1>6 DEF JobsSound, TypeOK
<1>8. TypeOK' /\ BoxKnown' /\ EmptyRows'
  BY <1>2, <1>3, <1>4, LateTyped DEF TypeOK, BoxKnown, EmptyRows, Next
<1>9. DeliveredIsReal'
  BY <1>2, <1>4 DEF DeliveredIsReal, Existing, TypeOK, Key
<1>10. QED
  BY <1>7, <1>8, <1>9

LEMMA StaffStep ==
  ASSUME IngestInv, NEW k \in Key, Staff(k)
  PROVE  IngestInv'
<1> USE DEF IngestInv
<1>1. UNCHANGED <<courier, scraped, job>>
  BY DEF Staff, Create, SetStatus, Delete
<1>2. site' = site /\ box' = box /\ scraped' = scraped /\ pc' = pc /\ loc' = loc
  BY <1>1 DEF courier, job
<1>3. \A i \in Key : prov'[i] = prov[i] \/ (prov[i] = NoProvider /\ prov'[i] \in Provider)
  BY DEF Staff, Create, SetStatus, Delete, TypeOK
<1>4. /\ prov' \in [Key -> Provider \cup {NoProvider}]
      /\ manual' \in [Key -> Override]
      /\ deleted' \in [Key -> BOOLEAN]
      /\ older' \in [Key -> SUBSET Key]
  <2>1. CASE \E p \in Provider, m \in Override : Create(k, p, m)
    <3>1. PICK p \in Provider, m \in Override : Create(k, p, m)
      BY <2>1
    <3>2. older' \in [Key -> SUBSET Key]
      BY <3>1 DEF Create, TypeOK, Stamped, Existing
    <3>3. QED
      BY <3>1, <3>2, ZenonT(30) DEF Create, TypeOK
  <2>2. CASE \E m \in Override \ {"none"} : SetStatus(k, m)
    BY <2>2 DEF SetStatus, TypeOK
  <2>3. CASE Delete(k)
    BY <2>3 DEF Delete, TypeOK
  <2>4. QED
    BY <2>1, <2>2, <2>3 DEF Staff
<1>5. TypeOK' /\ BoxKnown' /\ EmptyRows'
  BY <1>2, <1>3, <1>4, LateTyped DEF TypeOK, BoxKnown, EmptyRows, Next
<1>6. JobsSound'
  BY <1>2 DEF JobsSound, LocalSound, Sound
<1>7. DeliveredIsReal'
  BY <1>2, <1>3 DEF DeliveredIsReal, EmptyRows, Existing
<1>8. QED
  BY <1>5, <1>6, <1>7

LEMMA JobInv ==
  ASSUME IngestInv, NEW j \in Job, Start(j) \/ Continue(j) \/ Fault(j)
  PROVE  IngestInv'
<1> USE DEF IngestInv
<1>1. pc' \in [Job -> Pc] /\ loc' \in [Job -> Local] /\ JobsSound'
  BY JobSteps
<1>5. late' \in [Job -> SUBSET Key]
  BY LateTyped DEF Next
<1>2. CASE ~Post(j)
  <2>1. UNCHANGED <<site, box, prov, scraped, manual, deleted, older>>
    BY <1>2, OthersWriteNothing DEF courier, table
  <2>2. QED
    BY <1>1, <1>5, <2>1 DEF TypeOK, BoxKnown, EmptyRows, DeliveredIsReal, Existing, Known
<1>3. CASE Post(j)
  <2>1. site' = site /\ box' = box /\ deleted' = deleted
    BY <1>3, PostWrites DEF courier
  <2>2. TypeOK' /\ BoxKnown'
    BY <1>1, <1>3, <1>5, <2>1, PostWrites DEF TypeOK, BoxKnown
  <2>3. ASSUME NEW k \in Key
        PROVE  \/ prov'[k] = prov[k] /\ scraped'[k] = scraped[k]
               \/ prov'[k] \in Provider
                  /\ (scraped'[k] = "delivered" => site[prov'[k]][k[2]] = "delivered")
    <3>1. CASE prov'[k] = prov[k] /\ scraped'[k] = scraped[k]
      BY <3>1
    <3>2. CASE ~(prov'[k] = prov[k] /\ scraped'[k] = scraped[k])
      <4>1. PICK r \in loc[j].batch :
              r \in Built /\ KeyOf(r) = k /\ prov'[k] = r.prov /\ scraped'[k] = r.st
        BY <1>3, <3>2, PostWrites
      <4>2. Sound(r) /\ k[2] = r.guia /\ r.prov \in Provider
        BY <4>1 DEF JobsSound, LocalSound, KeyOf, Built
      <4>3. QED
        BY <4>1, <4>2 DEF Sound
    <3>3. QED
      BY <3>1, <3>2
  <2>4. EmptyRows'
    BY <2>3, IngestAssumption DEF EmptyRows
  <2>5. DeliveredIsReal'
    BY <2>1, <2>3 DEF DeliveredIsReal, Existing
  <2>6. QED
    BY <1>1, <2>2, <2>4, <2>5
<1>4. QED
  BY <1>2, <1>3

LEMMA InvStep == IngestInv /\ [Next]_vars => IngestInv'
<1> SUFFICES ASSUME IngestInv, [Next]_vars PROVE IngestInv'
  OBVIOUS
<1>1. CASE UNCHANGED vars
  BY <1>1 DEF vars, courier, table, job, IngestInv, TypeOK, BoxKnown, JobsSound, LocalSound,
              Sound, EmptyRows, DeliveredIsReal, Existing
<1>2. CASE Next
  BY <1>2, JobInv, StaffStep, CourierStep DEF Next
<1>3. QED
  BY <1>1, <1>2

THEOREM IngestInvariant == Spec => []IngestInv
BY InvInit, InvStep, PTL DEF Spec

(* Type correctness of the ingest (TypeOK of IngestRequirements). *)
THEOREM IngestTypeCorrect == Spec => []TypeOK
BY IngestInvariant, PTL DEF IngestInv

(* DeliveredIsReal: whatever the mix of jobs and faults, a row that says     *)
(* delivered has a provider that shows the guide as delivered.               *)
THEOREM DeliveredIsRealHolds == Spec => []DeliveredIsReal
BY IngestInvariant, PTL DEF IngestInv

-----------------------------------------------------------------------------
(* What a step of the ingest writes, row by row. *)
Written(k) ==
  \/ UNCHANGED job
  \/ prov'[k] = prov[k] /\ scraped'[k] = scraped[k] /\ manual'[k] = manual[k]
  \/ /\ Serves(k[1], prov'[k], box[prov'[k]][k[2]])
     /\ manual'[k] # manual[k] =>
          manual'[k] = "delivered" /\ site[prov'[k]][k[2]] \in {"note", "delivered"}

LEMMA WrittenByAll == IngestInv /\ [Next]_vars => \A k \in Key : Written(k)
<1> SUFFICES ASSUME IngestInv, [Next]_vars, NEW k \in Key PROVE Written(k)
  OBVIOUS
<1>1. CASE UNCHANGED vars
  BY <1>1 DEF vars, Written
<1>2. CASE (\E i \in Key : Staff(i)) \/ (\E p \in Provider, g \in Guia : Courier(p, g))
  <2>1. ASSUME NEW i \in Key, Staff(i)
        PROVE  UNCHANGED job
    BY <2>1 DEF Staff, Create, SetStatus, Delete
  <2>2. ASSUME NEW p \in Provider, NEW g \in Guia, Courier(p, g)
        PROVE  UNCHANGED job
    BY <2>2 DEF Courier, Arrive, PickUp
  <2>3. QED
    BY <1>2, <2>1, <2>2 DEF Written
<1>3. ASSUME NEW j \in Job, Start(j) \/ Continue(j) \/ Fault(j), ~Post(j)
      PROVE  Written(k)
  <2>1. UNCHANGED <<prov, scraped, manual>>
    BY <1>3, OthersWriteNothing DEF table
  <2>2. QED
    BY <2>1 DEF Written
<1>4. ASSUME NEW j \in Job, Post(j)
      PROVE  Written(k)
  <2>1. \/ prov'[k] = prov[k] /\ scraped'[k] = scraped[k] /\ manual'[k] = manual[k]
        \/ \E r \in loc[j].batch : /\ r \in Built
                                 /\ KeyOf(r) = k
                                 /\ prov'[k] = r.prov
                                 /\ manual'[k] = NewOverride(k, r)
    BY <1>4, PostWrites DEF IngestInv
  <2>2. ASSUME NEW r \in loc[j].batch, KeyOf(r) = k, prov'[k] = r.prov,
               manual'[k] = NewOverride(k, r)
        PROVE  Written(k)
    <3>1. Sound(r)
      BY DEF IngestInv, JobsSound, LocalSound
    <3>2. k[1] = r.org /\ k[2] = r.guia
      BY <2>2 DEF KeyOf
    <3>3. QED
      BY <2>2, <3>1, <3>2 DEF Sound, Written, NewOverride
  <2>3. QED
    BY <2>1, <2>2 DEF Written
<1>5. QED
  BY <1>1, <1>2, <1>3, <1>4 DEF Next

(* OverrideKept: no scrape takes back what staff set, except for a package   *)
(* that the provider has noted as picked up.                                 *)
THEOREM OverrideKeptHolds == Spec => OverrideKept
<1>1. IngestInv /\ [Next]_vars =>
        [\A k \in Key : JobStep /\ manual'[k] # manual[k] =>
           manual'[k] = "delivered" /\ site[prov'[k]][k[2]] \in {"note", "delivered"}]_vars
  BY WrittenByAll DEF Written, JobStep
<1>2. QED
  BY <1>1, IngestInvariant, PTL DEF Spec, OverrideKept

(* RightTenant: no scrape writes in a tenant that does not take packages of  *)
(* that provider and casillero, or that is not scraped.                      *)
THEOREM RightTenantHolds == Spec => RightTenant
<1>1. IngestInv /\ [Next]_vars =>
        [\A k \in Key : JobStep /\ <<prov'[k], scraped'[k]>> # <<prov[k], scraped[k]>> =>
           Serves(k[1], prov'[k], box[prov'[k]][k[2]])]_vars
  BY WrittenByAll DEF Written, JobStep
<1>2. QED
  BY <1>1, IngestInvariant, PTL DEF Spec, RightTenant

-----------------------------------------------------------------------------
(***************************************************************************)
(* The pre-check and the POST are two calls.  What a job is about to post  *)
(* over another provider's row, it posts over a row that was given that    *)
(* provider after the job looked: by staff, or by another job.             *)
(***************************************************************************)
SameProvider(l) ==
  /\ \A r, s \in l.batch : r.prov = s.prov
  /\ l.kind = "walk" => /\ \A t, u \in l.todo : t[1] = u[1]
                        /\ \A t \in l.todo, r \in l.batch : t[1] = r.prov

Checked(j, r) == Foreign(r) => KeyOf(r) \in late[j]

CheckedJob(j) ==
  /\ SameProvider(loc[j])
  /\ pc[j] = "post" => \A r \in loc[j].batch : Checked(j, r)

CheckedInv == \A j \in Job : CheckedJob(j)

LEMMA GotoSame ==
  ASSUME TypeOK, NEW j \in Job, NEW step \in Pc \ {"post"}, NEW l \in Local,
         SameProvider(l), Goto(j, step, l)
  PROVE  CheckedJob(j)'
<1>1. pc'[j] = step /\ loc'[j] = l
  BY DEF Goto, TypeOK
<1>2. QED
  BY <1>1 DEF CheckedJob, SameProvider

LEMMA FinishSame ==
  ASSUME TypeOK, NEW j \in Job, Finish(j)
  PROVE  CheckedJob(j)'
<1>1. SameProvider(Blank)
  BY DEF SameProvider, Blank
<1>2. QED
  BY <1>1, BlankSound, GotoSame DEF Finish, Pc

LEMMA GoOnSame ==
  ASSUME TypeOK, NEW j \in Job, NEW todo \in SUBSET (Provider \X Guia), NEW success \in BOOLEAN,
         GoOn(j, todo, success)
  PROVE  CheckedJob(j)'
<1>1. CASE Finish(j)
  BY <1>1, FinishSame
<1>2. CASE ~Finish(j)
  <2> DEFINE l == [loc[j] EXCEPT !.todo = todo, !.batch = {}]
  <2>1. Goto(j, "fetch", l) /\ loc[j].kind # "walk"
    BY <1>2 DEF GoOn
  <2>2. l \in Local /\ l.kind = loc[j].kind /\ l.batch = {}
    BY DEF TypeOK, Local
  <2>3. SameProvider(l)
    BY <2>1, <2>2 DEF SameProvider
  <2>4. QED
    BY <2>1, <2>2, <2>3, GotoSame DEF Pc
<1>3. QED
  BY <1>1, <1>2

LEMMA StartSame ==
  ASSUME TypeOK, NEW j \in Job, Start(j)
  PROVE  CheckedJob(j)'
<1>1. PICK l \in Local : Goto(j, "fetch", l) /\ SameProvider(l)
  <2>1. ASSUME NEW p \in Provider, Walk(j, p)
        PROVE  \E l \in Local : Goto(j, "fetch", l) /\ SameProvider(l)
    <3>1. PICK page \in SUBSET Known(p) :
            Goto(j, "fetch", [Blank EXCEPT !.kind = "walk", !.todo = {p} \X page,
                 !.list = [g \in Guia |-> IF g \in page THEN Shown(p, g) ELSE "unknown"]])
      BY <2>1 DEF Walk
    <3> DEFINE l == [Blank EXCEPT !.kind = "walk", !.todo = {p} \X page,
                 !.list = [g \in Guia |-> IF g \in page THEN Shown(p, g) ELSE "unknown"]]
    <3>2. l \in Local
      BY ShownSound DEF Local, Blank, Kind, Known, Scraped
    <3>3. l.batch = {} /\ l.todo = {p} \X page
      BY DEF Blank
    <3>4. SameProvider(l)
      BY <3>3 DEF SameProvider
    <3>5. QED
      BY <3>1, <3>2, <3>4
  <2>2. ASSUME NEW kind \in Kind \ {"walk"}, NEW todo \in SUBSET (Provider \X Guia),
               Goto(j, "fetch", [Blank EXCEPT !.kind = kind, !.todo = todo])
        PROVE  \E l \in Local : Goto(j, "fetch", l) /\ SameProvider(l)
    <3> DEFINE l == [Blank EXCEPT !.kind = kind, !.todo = todo]
    <3>1. l \in Local /\ l.batch = {} /\ l.kind # "walk"
      BY <2>2 DEF Local, Blank, Kind, Scraped
    <3>2. SameProvider(l)
      BY <3>1 DEF SameProvider
    <3>3. QED
      BY <2>2, <3>1, <3>2
  <2>3. ASSUME NEW p \in Provider, Refresh(j, p)
        PROVE  \E l \in Local : Goto(j, "fetch", l) /\ SameProvider(l)
    <3>1. PICK B \in OldestOpen(p) :
            Goto(j, "fetch", [Blank EXCEPT !.kind = "refresh", !.todo = {<<p, k[2]>> : k \in B \ Inactive}])
      BY <2>3 DEF Refresh
    <3>2. {<<p, k[2]>> : k \in B \ Inactive} \in SUBSET (Provider \X Guia)
      BY DEF OldestOpen, Open, Key
    <3>3. QED
      BY <3>1, <3>2, <2>2 DEF Kind
  <2>4. ASSUME NEW p \in Provider, NEW g \in Guia, One(j, p, g)
        PROVE  \E l \in Local : Goto(j, "fetch", l) /\ SameProvider(l)
    <3>1. Goto(j, "fetch", [Blank EXCEPT !.kind = "one", !.todo = {<<p, g>>}])
      BY <2>4 DEF One
    <3>2. {<<p, g>>} \in SUBSET (Provider \X Guia)
      OBVIOUS
    <3>3. QED
      BY <3>1, <3>2, <2>2 DEF Kind
  <2>5. ASSUME NEW g \in Guia, AnyProvider(j, g)
        PROVE  \E l \in Local : Goto(j, "fetch", l) /\ SameProvider(l)
    <3>1. Goto(j, "fetch", [Blank EXCEPT !.kind = "any", !.todo = Provider \X {g}])
      BY <2>5 DEF AnyProvider
    <3>2. Provider \X {g} \in SUBSET (Provider \X Guia)
      OBVIOUS
    <3>3. QED
      BY <3>1, <3>2, <2>2 DEF Kind
  <2>6. QED
    BY <2>1, <2>3, <2>4, <2>5 DEF Start
<1>2. QED
  BY <1>1, GotoSame DEF Pc

LEMMA FetchSame ==
  ASSUME TypeOK, NEW j \in Job, SameProvider(loc[j]), FetchListed(j) \/ FetchSingle(j)
  PROVE  CheckedJob(j)'
<1>0. loc[j] \in Local
  BY DEF TypeOK
<1>1. CASE FetchListed(j)
  <2>1. PICK t \in loc[j].todo :
          \E d \in Page(t[1], t[2]) \cup {Empty} :
          \E new \in {{}} \cup Choices(RowsFor(t[1], t[2], loc[j].list[t[2]], d)) :
             LET read == [loc[j] EXCEPT !.todo = @ \ {t}, !.batch = @ \cup new]
             IN Goto(j, "fetch", read) \/ Goto(j, "check", read) \/ Finish(j)
    BY <1>1 DEF FetchListed
  <2>2. PICK d \in Page(t[1], t[2]) \cup {Empty} :
          \E new \in {{}} \cup Choices(RowsFor(t[1], t[2], loc[j].list[t[2]], d)) :
             LET read == [loc[j] EXCEPT !.todo = @ \ {t}, !.batch = @ \cup new]
             IN Goto(j, "fetch", read) \/ Goto(j, "check", read) \/ Finish(j)
    BY <2>1
  <2>3. PICK new \in {{}} \cup Choices(RowsFor(t[1], t[2], loc[j].list[t[2]], d)) :
             LET read == [loc[j] EXCEPT !.todo = @ \ {t}, !.batch = @ \cup new]
             IN Goto(j, "fetch", read) \/ Goto(j, "check", read) \/ Finish(j)
    BY <2>2
  <2> DEFINE read == [loc[j] EXCEPT !.todo = @ \ {t}, !.batch = @ \cup new]
  <2>4. t[1] \in Provider /\ t[2] \in Guia /\ loc[j].list[t[2]] \in Scraped
    BY <1>0 DEF Local
  <2>5. \A r \in new : r \in Built /\ r.prov = t[1]
    BY <2>4, RowsBuilt
  <2>6. read \in Local /\ read.todo \subseteq loc[j].todo /\ read.kind = "walk"
        /\ read.batch = loc[j].batch \cup new
    BY <1>0, <1>1, <2>5 DEF Local, FetchListed
  <2>7. SameProvider(read)
    BY <1>1, <2>5, <2>6, ZenonT(30) DEF SameProvider, FetchListed
  <2>8. QED
    BY <2>3, <2>6, <2>7, GotoSame, FinishSame DEF Pc
<1>2. CASE FetchSingle(j)
  <2>1. PICK t \in loc[j].todo :
          \E d \in Page(t[1], t[2]) : \E new \in {{}} \cup Choices(RowsFor(t[1], t[2], d.st, d)) :
            \/ GoOn(j, loc[j].todo \ {t}, FALSE)
            \/ Goto(j, "check", [loc[j] EXCEPT !.todo = @ \ {t}, !.batch = new])
    BY <1>2 DEF FetchSingle
  <2>2. PICK d \in Page(t[1], t[2]) :
          \E new \in {{}} \cup Choices(RowsFor(t[1], t[2], d.st, d)) :
            \/ GoOn(j, loc[j].todo \ {t}, FALSE)
            \/ Goto(j, "check", [loc[j] EXCEPT !.todo = @ \ {t}, !.batch = new])
    BY <2>1
  <2>3. PICK new \in {{}} \cup Choices(RowsFor(t[1], t[2], d.st, d)) :
            \/ GoOn(j, loc[j].todo \ {t}, FALSE)
            \/ Goto(j, "check", [loc[j] EXCEPT !.todo = @ \ {t}, !.batch = new])
    BY <2>2
  <2>4. CASE GoOn(j, loc[j].todo \ {t}, FALSE)
    BY <1>0, <2>4, GoOnSame DEF Local
  <2>5. CASE Goto(j, "check", [loc[j] EXCEPT !.todo = @ \ {t}, !.batch = new])
    <3> DEFINE l == [loc[j] EXCEPT !.todo = @ \ {t}, !.batch = new]
    <3>1. t[1] \in Provider /\ t[2] \in Guia
      BY <1>0 DEF Local
    <3>2. d.st \in Scraped
      BY <3>1, PageSound DEF Detail
    <3>3. \A r \in new : r \in Built
      BY <3>1, <3>2, RowsBuilt
    <3>4. \A r, s \in new : r = s
      BY DEF Choices
    <3>5. l \in Local /\ l.batch = new /\ l.kind # "walk"
      BY <1>0, <1>2, <3>3 DEF Local, FetchSingle
    <3>6. SameProvider(l)
      BY <3>4, <3>5 DEF SameProvider
    <3>7. QED
      BY <2>5, <3>5, <3>6, GotoSame DEF Pc
  <2>6. QED
    BY <2>3, <2>4, <2>5
<1>3. QED
  BY <1>1, <1>2

LEMMA WriteSame ==
  ASSUME TypeOK, NEW j \in Job, CheckedJob(j),
         PreCheck(j) \/ Post(j) \/ FetchFails(j) \/ CallFails(j) \/ Cut(j), Next
  PROVE  CheckedJob(j)'
<1>0. loc[j] \in Local
  BY DEF TypeOK
<1>1. ASSUME NEW B \in SUBSET loc[j].batch, Goto(j, "post", [loc[j] EXCEPT !.batch = B])
      PROVE  /\ SameProvider(loc'[j])
             /\ loc'[j].batch = B
  <2>1. loc'[j] = [loc[j] EXCEPT !.batch = B]
    BY <1>1 DEF Goto, TypeOK
  <2>2. loc'[j].batch = B /\ loc'[j].kind = loc[j].kind /\ loc'[j].todo = loc[j].todo
    BY <1>0, <2>1 DEF Local
  <2>3. QED
    BY <2>2 DEF CheckedJob, SameProvider
<1>2. ASSUME NEW todo \in SUBSET loc[j].todo, NEW success \in BOOLEAN, GoOn(j, todo, success)
      PROVE  CheckedJob(j)'
  BY <1>0, <1>2, GoOnSame DEF Local
<1>3. CASE PreCheck(j)
  <2> DEFINE keep == {r \in loc[j].batch : ~Foreign(r)}
  <2>1. GoOn(j, loc[j].todo, TRUE) \/ Goto(j, "post", [loc[j] EXCEPT !.batch = keep])
    BY <1>3 DEF PreCheck
  <2>2. CASE Goto(j, "post", [loc[j] EXCEPT !.batch = keep])
    <3>1. SameProvider(loc'[j]) /\ loc'[j].batch = keep
      BY <1>1, <2>2
    <3>2. prov' = prov
      BY <1>3 DEF PreCheck, table
    <3>3. \A r \in keep : ~Foreign(r)'
      BY <3>2 DEF Foreign
    <3>4. QED
      BY <3>1, <3>3 DEF CheckedJob, Checked, SameProvider
  <2>3. QED
    BY <1>2, <2>1, <2>2
<1>4. CASE Post(j)
  <2>1. PICK B \in SUBSET loc[j].batch :
          \/ B # loc[j].batch /\ Goto(j, "post", [loc[j] EXCEPT !.batch = B])
          \/ \E success \in BOOLEAN : GoOn(j, loc[j].todo, success)
    BY <1>4 DEF Post
  <2>2. CASE B # loc[j].batch /\ Goto(j, "post", [loc[j] EXCEPT !.batch = B])
    <3>1. SameProvider(loc'[j]) /\ loc'[j].batch = B
      BY <1>1, <2>2
    <3>2. pc'[j] = "post" /\ B # loc[j].batch
      BY <2>1, <2>2 DEF Goto, TypeOK
    <3>3. late'[j] = late[j]
      BY <1>0, <3>1, <3>2, AllRecord DEF Recorded
    <3>4. ASSUME NEW r \in B
          PROVE  Checked(j, r)'
      <4>1. r \in Built /\ KeyOf(r) \in Key
        BY <1>0 DEF Local, Built, KeyOf, Key
      <4>2. CASE prov'[KeyOf(r)] = prov[KeyOf(r)]
        <5>1. Checked(j, r)
          BY <1>4 DEF CheckedJob, Post
        <5>2. QED
          BY <3>3, <4>2, <5>1 DEF Checked, Foreign
      <4>3. CASE \E s \in loc[j].batch : prov'[KeyOf(r)] = s.prov
        BY <4>3 DEF CheckedJob, SameProvider, Checked, Foreign
      <4>4. QED
        BY <1>4, <4>1, <4>2, <4>3, PostWrites
    <3>5. QED
      BY <3>1, <3>4 DEF CheckedJob, SameProvider
  <2>3. QED
    BY <1>2, <2>1, <2>2
<1>5. CASE FetchFails(j) \/ CallFails(j)
  BY <1>2, <1>5 DEF FetchFails, CallFails
<1>6. CASE Cut(j)
  BY <1>6, FinishSame DEF Cut
<1>7. QED
  BY <1>3, <1>4, <1>5, <1>6

(* The step of a job leaves the other jobs where they are. *)
LEMMA OneJobMoves ==
  ASSUME TypeOK, NEW j \in Job, Start(j) \/ Continue(j) \/ Fault(j), NEW i \in Job \ {j}
  PROVE  pc'[i] = pc[i] /\ loc'[i] = loc[i]
<1>1. ASSUME NEW step, NEW l, Goto(j, step, l)
      PROVE  pc'[i] = pc[i] /\ loc'[i] = loc[i]
  BY <1>1 DEF Goto, TypeOK
<1>2. ASSUME NEW todo, NEW success, GoOn(j, todo, success)
      PROVE  pc'[i] = pc[i] /\ loc'[i] = loc[i]
  BY <1>1, <1>2 DEF GoOn, Finish
<1>3. CASE Start(j)
  BY <1>1, <1>3 DEF Start, Walk, Refresh, One, AnyProvider
<1>4. CASE FetchListed(j) \/ FetchSingle(j) \/ FetchFails(j)
  <2>1. CASE FetchListed(j)
    BY <1>1, <2>1 DEF FetchListed, Finish
  <2>2. CASE FetchSingle(j)
    BY <1>1, <1>2, <2>2 DEF FetchSingle
  <2>3. CASE FetchFails(j)
    BY <1>2, <2>3 DEF FetchFails
  <2>4. QED
    BY <1>4, <2>1, <2>2, <2>3
<1>5. CASE PreCheck(j) \/ Post(j) \/ CallFails(j) \/ Cut(j)
  <2>1. CASE PreCheck(j)
    BY <1>1, <1>2, <2>1 DEF PreCheck
  <2>2. CASE Post(j)
    BY <1>1, <1>2, <2>2 DEF Post
  <2>3. CASE CallFails(j) \/ Cut(j)
    BY <1>1, <1>2, <2>3 DEF CallFails, Cut, Finish
  <2>4. QED
    BY <1>5, <2>1, <2>2, <2>3
<1>6. QED
  BY <1>3, <1>4, <1>5 DEF Continue, Fault

(* A POST takes rows out of the batch of its job. *)
LEMMA PostMoves ==
  ASSUME TypeOK, NEW j \in Job, Post(j)
  PROVE  loc'[j] # loc[j]
<1>0. loc[j] \in Local /\ loc[j].batch # {}
  BY DEF TypeOK, Post
<1>1. PICK B \in SUBSET loc[j].batch :
        \/ B # loc[j].batch /\ Goto(j, "post", [loc[j] EXCEPT !.batch = B])
        \/ \E success \in BOOLEAN : GoOn(j, loc[j].todo, success)
  BY DEF Post
<1>2. CASE B # loc[j].batch /\ Goto(j, "post", [loc[j] EXCEPT !.batch = B])
  BY <1>0, <1>2 DEF Goto, TypeOK, Local
<1>3. CASE \E success \in BOOLEAN : GoOn(j, loc[j].todo, success)
  <2>1. PICK l \in {Blank, [loc[j] EXCEPT !.todo = loc[j].todo, !.batch = {}]} :
          loc' = [loc EXCEPT ![j] = l]
    BY <1>3 DEF GoOn, Finish, Goto
  <2>2. /\ Blank.batch = {}
        /\ [loc[j] EXCEPT !.todo = loc[j].todo, !.batch = {}].batch = {}
    BY <1>0 DEF Local, Blank
  <2>3. loc'[j] = l
    BY <2>1 DEF TypeOK
  <2>4. QED
    BY <1>0, <2>1, <2>2, <2>3
<1>4. QED
  BY <1>1, <1>2, <1>3

(* A job that does not move keeps what it has looked at.                     *)
LEMMA OthersSame ==
  ASSUME IngestInv, NEW j \in Job, CheckedJob(j), Next, pc'[j] = pc[j], loc'[j] = loc[j]
  PROVE  CheckedJob(j)'
<1>1. ASSUME pc[j] = "post", NEW r \in loc[j].batch
      PROVE  Checked(j, r)'
  <2>1. Checked(j, r) /\ late'[j] = late[j] \cup Given
    BY <1>1, AllRecord DEF CheckedJob, Recorded, IngestInv, TypeOK
  <2>2. r \in Built /\ KeyOf(r) \in Key
    BY DEF IngestInv, TypeOK, Local, Built, KeyOf, Key
  <2>3. QED
    BY <2>1, <2>2 DEF Checked, Foreign, Given
<1>2. QED
  BY <1>1 DEF CheckedJob, SameProvider

LEMMA CheckedStep ==
  ASSUME IngestInv, CheckedInv, [Next]_vars
  PROVE  CheckedInv'
<1>1. CASE UNCHANGED vars
  BY <1>1 DEF vars, table, job, CheckedInv, CheckedJob, SameProvider, Checked, Foreign
<1>2. ASSUME Next, NEW j \in Job, Start(j) \/ Continue(j) \/ Fault(j)
      PROVE  CheckedInv'
  <2>1. TypeOK /\ CheckedJob(j) /\ SameProvider(loc[j])
    BY DEF IngestInv, CheckedInv, CheckedJob
  <2>2. CheckedJob(j)'
    BY <1>2, <2>1, StartSame, FetchSame, WriteSame DEF Continue, Fault
  <2>3. ASSUME NEW i \in Job \ {j}
        PROVE  CheckedJob(i)'
    <3>1. pc'[i] = pc[i] /\ loc'[i] = loc[i]
      BY <1>2, OneJobMoves DEF IngestInv
    <3>2. QED
      BY <1>2, <3>1, OthersSame DEF CheckedInv
  <2>4. QED
    BY <2>2, <2>3 DEF CheckedInv
<1>3. ASSUME Next, NEW k \in Key, Staff(k)
      PROVE  CheckedInv'
  <2>1. UNCHANGED job
    BY <1>3 DEF Staff, Create, SetStatus, Delete
  <2>2. QED
    BY <1>3, <2>1, OthersSame DEF CheckedInv, job
<1>4. ASSUME Next, NEW p \in Provider, NEW g \in Guia, Courier(p, g)
      PROVE  CheckedInv'
  <2>1. UNCHANGED job
    BY <1>4 DEF Courier, Arrive, PickUp
  <2>2. QED
    BY <1>4, <2>1, OthersSame DEF CheckedInv, job
<1>5. QED
  BY <1>1, <1>2, <1>3, <1>4 DEF Next

Merged(k) == prov'[k] # prov[k] => \E j \in Job : PostsLate(j, k)

LEMMA MergedStep ==
  ASSUME IngestInv, CheckedInv, [Next]_vars, NEW k \in Existing
  PROVE  Merged(k)
<1>0. k \in Key /\ prov[k] # NoProvider
  BY DEF Existing
<1>1. CASE UNCHANGED vars
  BY <1>1 DEF vars, table, Merged
<1>2. ASSUME NEW j \in Job, Start(j) \/ Continue(j) \/ Fault(j), ~Post(j)
      PROVE  Merged(k)
  <2>1. prov' = prov
    BY <1>2, OthersWriteNothing DEF table
  <2>2. QED
    BY <2>1 DEF Merged
<1>3. ASSUME NEW j \in Job, Post(j), prov'[k] # prov[k]
      PROVE  PostsLate(j, k)
  <2>1. PICK r \in loc[j].batch : KeyOf(r) = k /\ prov'[k] = r.prov
    BY <1>0, <1>3, PostWrites DEF IngestInv
  <2>2. pc[j] = "post" /\ Checked(j, r)
    BY <1>3 DEF CheckedInv, CheckedJob, Post
  <2>3. k \in late[j]
    BY <1>0, <1>3, <2>1, <2>2 DEF Checked, Foreign
  <2>4. loc'[j] # loc[j]
    BY <1>3, PostMoves DEF IngestInv
  <2>5. QED
    BY <2>2, <2>3, <2>4 DEF PostsLate
<1>4. ASSUME NEW i \in Key, Staff(i)
      PROVE  Merged(k)
  BY <1>0, <1>4 DEF Staff, Create, SetStatus, Delete, IngestInv, TypeOK, Merged
<1>5. ASSUME NEW p \in Provider, NEW g \in Guia, Courier(p, g)
      PROVE  Merged(k)
  BY <1>5 DEF Courier, Arrive, PickUp, table, Merged
<1>6. QED
  BY <1>1, <1>2, <1>3, <1>4, <1>5 DEF Next, Merged

(* MergedOnlyLate: however many jobs overlap, whatever staff create and      *)
(* whatever fails, no row changes its provider except under a POST whose     *)
(* pre-check came before the row was given the provider it had.              *)
THEOREM MergedOnlyLateHolds == Spec => MergedOnlyLate
<1>1. Init => CheckedInv
  BY DEF Init, CheckedInv, CheckedJob, SameProvider, Blank
<1>2. IngestInv /\ CheckedInv /\ [Next]_vars => CheckedInv'
  BY CheckedStep
<1>3. IngestInv /\ CheckedInv /\ [Next]_vars =>
        [\A k \in Existing : prov'[k] # prov[k] => \E j \in Job : PostsLate(j, k)]_vars
  BY MergedStep DEF Merged
<1>4. QED
  BY <1>1, <1>2, <1>3, IngestInvariant, PTL DEF Spec, MergedOnlyLate
=============================================================================
