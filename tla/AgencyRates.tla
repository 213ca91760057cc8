------------------------------ MODULE AgencyRates ------------------------------
(***************************************************************************)
(* What one agency charges: its rate cards, the legacy rate tables they      *)
(* replace, the defaults that name them and a charge concept (config module: *)
(* routes, service, repo), with the script that turns tables into cards      *)
(* (config/backfill/backfill-rate-cards.ts).                                 *)
(*                                                                         *)
(* A request reads what it will touch, then writes it, one call at a time.   *)
(* No call spans two tables: a card, its version and its two prices are      *)
(* three inserts, the rows of a table an upsert and a delete.  The schema    *)
(* keeps names unique and references valid; a call it refuses ends the       *)
(* request.  Every row is this agency's, so the tenant checks always hold.   *)
(* A call that was done and then threw is the call and, next, Abandon.     *)
(***************************************************************************)
EXTENDS Naturals

CONSTANTS
  Request,  \* requests that can run at the same time
  Card,     \* ids of rate cards
  Old,      \* those an agency may begin with
  Table,    \* ids of rate tables
  Name,     \* names of cards
  Tier,     \* price tiers; the script names a card after its tier
  Regular,  \* the tier whose card becomes the default
  None,     \* SQL null
  MaxAsked  \* bound: requests

ASSUME RatesAssumption ==
  /\ Old \subseteq Card
  /\ Regular \in Tier
  /\ Tier \subseteq Name
  /\ None \notin Card \cup Table \cup Name
  /\ MaxAsked \in Nat

VARIABLES
  card,      \* rate_cards with version and entries: name, source_key, and stage
  table,     \* rate_tables with rate_rows: freight type, tiers priced, and stage
  dfltCard,  \* default_rate_card_id of a client
  dfltTable, \* default_rate_id of the client, rate_override_id of a package
  concept,   \* a charge concept
  billed,    \* an invoice line names it
  pc, loc,   \* what each request does next, and what it has read
  asked,     \* requests so far
  broken,    \* history: the creation of this card did not reach its end
  overlapped \* history: when the rows of this table were last upserted, some
             \* other save of them had still to prune

data == <<card, table, dfltCard, dfltTable, concept, billed>>
job == <<pc, loc>>
history == <<asked, broken, overlapped>>
vars == <<data, job, history>>

Freight == {"AIR", "MAR"}
Holder == {"client", "package"}

(* A bare card has no version, an unpriced one a version without prices. *)
CardStage == {"absent", "bare", "unpriced", "whole", "gone"}
Stage == {"absent", "there", "gone"}

NoCard == [stage |-> "absent", name |-> None, source |-> None]
NoTable == [stage |-> "absent", freight |-> "AIR", rows |-> {}]

Pc == {"idle", "card", "version", "entries", "owner", "rename", "drop", "version?",
       "upsertEntries", "table", "tableOwner", "dropTable", "upsertRows", "clearRows",
       "pruneRows", "defaultTable", "cardOwner", "defaultCard", "inUse", "dropConcept",
       "belongs", "line", "tables", "keys", "clients"}
Local == [do : Pc, card : Card \cup {None}, name : Name \cup {None},
          table : Table \cup {None}, freight : Freight, rows : SUBSET Tier,
          holder : Holder, script : BOOLEAN, source : Tier \cup {None},
          plan : SUBSET Tier, regular : Card \cup {None},
          seen : SUBSET Table]
Blank == [do |-> "idle", card |-> None, name |-> None, table |-> None,
          freight |-> "AIR", rows |-> {}, holder |-> "client", script |-> FALSE,
          source |-> None, plan |-> {}, regular |-> None, seen |-> {}]

There(c) == card[c].stage \in {"bare", "unpriced", "whole"}
TableThere(t) == table[t].stage = "there"

(* unique (organization_id, name) *)
NameTaken(n, but) == \E c \in Card \ {but} : There(c) /\ card[c].name = n

Goto(r, call, locals) ==
  /\ pc' = [pc EXCEPT ![r] = call]
  /\ loc' = [loc EXCEPT ![r] = locals]

Then(r, call) == Goto(r, call, loc[r])

Finish(r) == Goto(r, "idle", Blank)

Creating(c) == \E r \in Request : pc[r] \in {"version", "entries"} /\ loc[r].card = c

-----------------------------------------------------------------------------
(* Any legacy tables, and any whole cards among Old. *)
Init ==
  /\ card \in [Card -> {NoCard} \cup [stage : {"whole"}, name : Name, source : {None}]]
  /\ \A c \in Card \ Old : card[c] = NoCard
  /\ \A c, d \in Card : There(c) /\ There(d) /\ c # d => card[c].name # card[d].name
  /\ table \in [Table -> {NoTable} \cup
       [stage : {"there"}, freight : Freight, rows : {{}, Tier}]]
  /\ \A t, u \in Table : TableThere(t) /\ TableThere(u) /\ t # u
                           => table[t].freight # table[u].freight
  /\ dfltCard \in {None} \cup {c \in Card : There(c)}
  /\ dfltTable \in [Holder -> {None} \cup {t \in Table : TableThere(t)}]
  /\ concept = "absent" /\ billed = FALSE
  /\ pc = [r \in Request |-> "idle"]
  /\ loc = [r \in Request |-> Blank]
  /\ asked = 0
  /\ broken = [c \in Card |-> FALSE]
  /\ overlapped = [t \in Table |-> FALSE]

Begin(r, call, locals) ==
  /\ pc[r] = "idle"
  /\ asked < MaxAsked
  /\ asked' = asked + 1
  /\ Goto(r, call, locals)
  /\ UNCHANGED <<data, broken, overlapped>>

-----------------------------------------------------------------------------
(* Rate cards. *)

(* POST /rates/v2: exactly two prices, one AIR and one MAR (assertSimplePair).*)
CreateRateCard(r, n) == Begin(r, "card", [Blank EXCEPT !.name = n])

(* The insert of the plan. *)
PostCard(r) ==
  /\ pc[r] = "card"
  /\ IF NameTaken(loc[r].name, None)
     THEN Finish(r) /\ UNCHANGED card
     ELSE \E c \in Card :
            /\ card[c].stage = "absent"
            /\ card' = [card EXCEPT ![c] =
                 [stage |-> "bare", name |-> loc[r].name, source |-> None]]
            /\ Goto(r, "version", [loc[r] EXCEPT !.card = c])
  /\ UNCHANGED <<table, dfltCard, dfltTable, concept, billed, history>>

(* The version: the card must still be there, and source_key is unique.      *)
PostVersion(r) ==
  /\ pc[r] = "version"
  /\ LET c == loc[r].card
         source == loc[r].source
         refused == \/ ~There(c)
                    \/ source # None /\ \E d \in Card : There(d) /\ card[d].source = source
     IN IF refused
        THEN /\ Finish(r)
             /\ broken' = [broken EXCEPT ![c] = TRUE]
             /\ UNCHANGED card
        ELSE /\ card' = [card EXCEPT ![c].stage = "unpriced", ![c].source = source]
             /\ Then(r, "entries")
             /\ UNCHANGED broken
  /\ UNCHANGED <<table, dfltCard, dfltTable, concept, billed, asked, overlapped>>

(* The next card of the script's plan, in any order. *)
GoOn(r, plan, regular) ==
  IF plan = {} THEN Goto(r, "clients", [loc[r] EXCEPT !.plan = {}, !.regular = regular])
  ELSE \E t \in plan :
         Goto(r, "card", [loc[r] EXCEPT !.name = t, !.source = t, !.plan = plan \ {t},
                                        !.regular = regular])

(* Both prices in one insert, unless another request has put them there.     *)
PostEntries(r) ==
  /\ pc[r] = "entries"
  /\ LET c == loc[r].card
     IN IF card[c].stage = "unpriced"
        THEN /\ card' = [card EXCEPT ![c].stage = "whole"]
             /\ IF loc[r].script
                THEN GoOn(r, loc[r].plan,
                          IF loc[r].source = Regular THEN c ELSE loc[r].regular)
                ELSE Finish(r)
        ELSE Finish(r) /\ UNCHANGED card
  /\ UNCHANGED <<table, dfltCard, dfltTable, concept, billed, history>>

(* PATCH and DELETE /rates/v2/:id, PUT /rates/v2/:id/entries. *)
RenameRateCard(r, c, n) ==
  card[c].stage # "absent"
    /\ Begin(r, "owner", [Blank EXCEPT !.do = "rename", !.card = c, !.name = n])

DeleteRateCard(r, c) ==
  card[c].stage # "absent" /\ Begin(r, "owner", [Blank EXCEPT !.do = "drop", !.card = c])

ReplaceCardEntries(r, c) ==
  card[c].stage # "absent" /\ Begin(r, "owner", [Blank EXCEPT !.do = "version?", !.card = c])

RequireRateCardInOrg(r) ==
  /\ pc[r] = "owner"
  /\ IF There(loc[r].card) THEN Then(r, loc[r].do) ELSE Finish(r)
  /\ UNCHANGED <<data, history>>

UpdateRateCard(r) ==
  /\ pc[r] = "rename"
  /\ LET c == loc[r].card
     IN IF There(c) /\ ~NameTaken(loc[r].name, c)
        THEN card' = [card EXCEPT ![c].name = loc[r].name]
        ELSE UNCHANGED card
  /\ Finish(r)
  /\ UNCHANGED <<table, dfltCard, dfltTable, concept, billed, history>>

(* Mutant: the default keeps the card. *)
BugDropRateCard(r) ==
  /\ pc[r] = "drop"
  /\ card' = [card EXCEPT ![loc[r].card] = [NoCard EXCEPT !.stage = "gone"]]
  /\ Finish(r)
  /\ UNCHANGED <<table, dfltCard, dfltTable, concept, billed, history>>

(* Version and prices cascade; a default that names the card becomes null.   *)
DropRateCard(r) ==
  /\ pc[r] = "drop"
  /\ LET c == loc[r].card
     IN /\ card' = [card EXCEPT ![c] = [NoCard EXCEPT !.stage = "gone"]]
        /\ dfltCard' = IF dfltCard = c THEN None ELSE dfltCard
  /\ Finish(r)
  /\ UNCHANGED <<table, dfltTable, concept, billed, history>>

(* replaceCardEntries reads the card again: a bare one has no version to post *)
(* to, and the insert is refused.                                            *)
ReadVersion(r) ==
  /\ pc[r] = "version?"
  /\ IF card[loc[r].card].stage \in {"unpriced", "whole"}
     THEN Then(r, "upsertEntries")
     ELSE Finish(r)
  /\ UNCHANGED <<data, history>>

(* Mutant: the delete takes the services it should keep. *)
BugUpsertEntries(r) ==
  /\ pc[r] = "upsertEntries"
  /\ LET c == loc[r].card
     IN card' = IF There(c) THEN [card EXCEPT ![c].stage = "unpriced"] ELSE card
  /\ Finish(r)
  /\ UNCHANGED <<table, dfltCard, dfltTable, concept, billed, history>>

(* Upserted by service; the delete of other services then finds none.        *)
UpsertEntries(r) ==
  /\ pc[r] = "upsertEntries"
  /\ LET c == loc[r].card
     IN card' = IF There(c) THEN [card EXCEPT ![c].stage = "whole"] ELSE card
  /\ Finish(r)
  /\ UNCHANGED <<table, dfltCard, dfltTable, concept, billed, history>>

-----------------------------------------------------------------------------
(* Legacy rate tables. *)

CreateRate(r, f) == Begin(r, "table", [Blank EXCEPT !.freight = f])

(* unique (organization_id, name, freight_type); the name is always the same. *)
PostTable(r) ==
  /\ pc[r] = "table"
  /\ IF \E t \in Table : TableThere(t) /\ table[t].freight = loc[r].freight
     THEN UNCHANGED table
     ELSE \E t \in Table :
            /\ table[t].stage = "absent"
            /\ table' = [table EXCEPT ![t] =
                 [stage |-> "there", freight |-> loc[r].freight, rows |-> {}]]
  /\ Finish(r)
  /\ UNCHANGED <<card, dfltCard, dfltTable, concept, billed, history>>

(* DELETE /rates/:id, PUT /rates/:id/rows, POST /rates/assign-client and      *)
(* /rates/override-package.                                                  *)
DeleteRate(r, t) ==
  table[t].stage # "absent"
    /\ Begin(r, "tableOwner", [Blank EXCEPT !.do = "dropTable", !.table = t])

ReplaceRows(r, t, rows) ==
  table[t].stage # "absent"
    /\ Begin(r, "tableOwner",
             [Blank EXCEPT !.do = IF rows = {} THEN "clearRows" ELSE "upsertRows",
                           !.table = t, !.rows = rows])

AssignTable(r, h, t) ==
  IF t = None THEN Begin(r, "defaultTable", [Blank EXCEPT !.holder = h])
  ELSE /\ table[t].stage # "absent"
       /\ Begin(r, "tableOwner",
                [Blank EXCEPT !.do = "defaultTable", !.table = t, !.holder = h])

RequireRateInOrg(r) ==
  /\ pc[r] = "tableOwner"
  /\ IF TableThere(loc[r].table) THEN Then(r, loc[r].do) ELSE Finish(r)
  /\ UNCHANGED <<data, history>>

(* The rows cascade; a default or an override that names it becomes null.    *)
DropTable(r) ==
  /\ pc[r] = "dropTable"
  /\ LET t == loc[r].table
     IN /\ table' = [table EXCEPT ![t] = [NoTable EXCEPT !.stage = "gone"]]
        /\ dfltTable' = [h \in Holder |-> IF dfltTable[h] = t THEN None ELSE dfltTable[h]]
  /\ Finish(r)
  /\ UNCHANGED <<card, dfltCard, concept, billed, history>>

(* Mutant: the rows go first and come after, as a delete and an insert. *)
BugUpsertRows(r) ==
  /\ pc[r] = "upsertRows"
  /\ table' = [table EXCEPT ![loc[r].table].rows = {}]
  /\ Then(r, "pruneRows")
  /\ UNCHANGED <<card, dfltCard, dfltTable, concept, billed, history>>

(* replaceRateRows, first half: the insert is refused if the table is gone.  *)
UpsertRows(r) ==
  /\ pc[r] = "upsertRows"
  /\ LET t == loc[r].table
     IN IF TableThere(t)
        THEN /\ table' = [table EXCEPT ![t].rows = @ \cup loc[r].rows]
             /\ overlapped' = [overlapped EXCEPT ![t] =
                  \E s \in Request \ {r} : pc[s] = "pruneRows" /\ loc[s].table = t]
             /\ Then(r, "pruneRows")
        ELSE Finish(r) /\ UNCHANGED <<table, overlapped>>
  /\ UNCHANGED <<card, dfltCard, dfltTable, concept, billed, asked, broken>>

(* Second half: the tiers that were not sent. *)
PruneRows(r) ==
  /\ pc[r] = "pruneRows"
  /\ table' = [table EXCEPT ![loc[r].table].rows = @ \cap loc[r].rows]
  /\ Finish(r)
  /\ UNCHANGED <<card, dfltCard, dfltTable, concept, billed, history>>

ClearRows(r) ==
  /\ pc[r] = "clearRows"
  /\ table' = [table EXCEPT ![loc[r].table].rows = {}]
  /\ Finish(r)
  /\ UNCHANGED <<card, dfltCard, dfltTable, concept, billed, history>>

(* Mutant: nothing checks the reference when it is written. *)
BugPatchDefaultTable(r) ==
  /\ pc[r] = "defaultTable"
  /\ dfltTable' = [dfltTable EXCEPT ![loc[r].holder] = loc[r].table]
  /\ Finish(r)
  /\ UNCHANGED <<card, table, dfltCard, concept, billed, history>>

(* setClientDefaultRate, setPackageRateOverride: a foreign key. *)
PatchDefaultTable(r) ==
  /\ pc[r] = "defaultTable"
  /\ LET t == loc[r].table
     IN dfltTable' = IF t = None \/ TableThere(t)
                     THEN [dfltTable EXCEPT ![loc[r].holder] = t]
                     ELSE dfltTable
  /\ Finish(r)
  /\ UNCHANGED <<card, table, dfltCard, concept, billed, history>>

(* PATCH /clients/:id with a default card. *)
AssignCard(r, c) ==
  card[c].stage # "absent" /\ Begin(r, "cardOwner", [Blank EXCEPT !.card = c])

ValidateRateCard(r) ==
  /\ pc[r] = "cardOwner"
  /\ IF There(loc[r].card) THEN Then(r, "defaultCard") ELSE Finish(r)
  /\ UNCHANGED <<data, history>>

PatchDefaultCard(r) ==
  /\ pc[r] = "defaultCard"
  /\ dfltCard' = IF There(loc[r].card) THEN loc[r].card ELSE dfltCard
  /\ Finish(r)
  /\ UNCHANGED <<card, table, dfltTable, concept, billed, history>>

-----------------------------------------------------------------------------
(* A charge concept. *)

CreateChargeConcept ==
  /\ asked < MaxAsked
  /\ concept = "absent"
  /\ concept' = "there"
  /\ asked' = asked + 1
  /\ UNCHANGED <<card, table, dfltCard, dfltTable, billed, job, broken, overlapped>>

DeleteChargeConcept(r) == concept # "absent" /\ Begin(r, "inUse", Blank)

IsConceptInUse(r) ==
  /\ pc[r] = "inUse"
  /\ IF billed THEN Finish(r) ELSE Then(r, "dropConcept")
  /\ UNCHANGED <<data, history>>

(* The foreign key of the lines refuses what the check has missed. *)
DropConcept(r) ==
  /\ pc[r] = "dropConcept"
  /\ concept' = IF billed THEN concept ELSE "gone"
  /\ Finish(r)
  /\ UNCHANGED <<card, table, dfltCard, dfltTable, billed, history>>

(* An invoice with an extra charge: the concept is checked, then named.      *)
BillConcept(r) == concept # "absent" /\ Begin(r, "belongs", Blank)

ConceptBelongsToOrg(r) ==
  /\ pc[r] = "belongs"
  /\ IF concept = "there" THEN Then(r, "line") ELSE Finish(r)
  /\ UNCHANGED <<data, history>>

InsertLine(r) ==
  /\ pc[r] = "line"
  /\ billed' = (billed \/ concept = "there")
  /\ Finish(r)
  /\ UNCHANGED <<card, table, dfltCard, dfltTable, concept, history>>

-----------------------------------------------------------------------------
(* The script, run by hand, once at a time. *)

Backfill(r) ==
  /\ \A s \in Request : ~loc[s].script
  /\ Begin(r, "tables", [Blank EXCEPT !.script = TRUE])

(* A tier becomes a card if both an AIR and a MAR table price it. *)
BuildBackfillPlan ==
  {t \in Tier : \A f \in Freight :
     \E u \in Table : TableThere(u) /\ table[u].freight = f /\ t \in table[u].rows}

ReadTables(r) ==
  /\ pc[r] = "tables"
  /\ Goto(r, "keys", [loc[r] EXCEPT !.plan = BuildBackfillPlan,
                                    !.seen = {t \in Table : TableThere(t)}])
  /\ UNCHANGED <<data, history>>

(* What an earlier run has created is skipped, priced or not. *)
ReadKeys(r) ==
  /\ pc[r] = "keys"
  /\ LET done(t) == {c \in Card : There(c) /\ card[c].source = t}
     IN \E regular \in IF done(Regular) = {} THEN {None} ELSE done(Regular) :
          GoOn(r, {t \in loc[r].plan : done(t) = {}}, regular)
  /\ UNCHANGED <<data, history>>

(* The client whose default table was read with the plan gets its card.      *)
ReadClients(r) ==
  /\ pc[r] = "clients"
  /\ IF dfltTable["client"] \in loc[r].seen /\ loc[r].regular # None
     THEN Goto(r, "defaultCard", [Blank EXCEPT !.card = loc[r].regular, !.script = TRUE])
     ELSE Finish(r)
  /\ UNCHANGED <<data, history>>

-----------------------------------------------------------------------------
(* A call throws, or the process dies: what was written stays. *)
Abandon(r) ==
  /\ pc[r] # "idle"
  /\ broken' = [c \in Card |-> broken[c] \/ (pc[r] \in {"version", "entries"} /\ loc[r].card = c)]
  /\ Finish(r)
  /\ UNCHANGED <<data, asked, overlapped>>

-----------------------------------------------------------------------------
Start(r) ==
  \/ \E n \in Name : CreateRateCard(r, n)
  \/ \E c \in Card, n \in Name : RenameRateCard(r, c, n)
  \/ \E c \in Card : DeleteRateCard(r, c) \/ ReplaceCardEntries(r, c) \/ AssignCard(r, c)
  \/ \E f \in Freight : CreateRate(r, f)
  \/ \E t \in Table : DeleteRate(r, t)
  \/ \E t \in Table, rows \in SUBSET Tier : ReplaceRows(r, t, rows)
  \/ \E h \in Holder, t \in Table \cup {None} : AssignTable(r, h, t)
  \/ DeleteChargeConcept(r) \/ BillConcept(r)
  \/ Backfill(r)

Continue(r) ==
  \/ PostCard(r) \/ PostVersion(r) \/ PostEntries(r)
  \/ RequireRateCardInOrg(r) \/ UpdateRateCard(r) \/ DropRateCard(r)
  \/ ReadVersion(r) \/ UpsertEntries(r)
  \/ PostTable(r) \/ RequireRateInOrg(r) \/ DropTable(r)
  \/ UpsertRows(r) \/ PruneRows(r) \/ ClearRows(r)
  \/ PatchDefaultTable(r) \/ ValidateRateCard(r) \/ PatchDefaultCard(r)
  \/ IsConceptInUse(r) \/ DropConcept(r) \/ ConceptBelongsToOrg(r) \/ InsertLine(r)
  \/ ReadTables(r) \/ ReadKeys(r) \/ ReadClients(r)

Next ==
  \/ \E r \in Request : Start(r) \/ Continue(r) \/ Abandon(r)
  \/ CreateChargeConcept

Spec == Init /\ [][Next]_vars

-----------------------------------------------------------------------------
(* Types, and what the schema's references promise: a default, an override   *)
(* and a billed line name a row that is there, whoever deletes it meanwhile. *)
TypeOK ==
  /\ card \in [Card -> [stage : CardStage, name : Name \cup {None}, source : Tier \cup {None}]]
  /\ table \in [Table -> [stage : Stage, freight : Freight, rows : SUBSET Tier]]
  /\ dfltCard \in {None} \cup {c \in Card : There(c)}
  /\ dfltTable \in [Holder -> {None} \cup {t \in Table : TableThere(t)}]
  /\ concept \in Stage
  /\ billed \in BOOLEAN /\ (billed => concept = "there")
  /\ pc \in [Request -> Pc]
  /\ loc \in [Request -> Local]
  /\ asked \in Nat
  /\ broken \in [Card -> BOOLEAN]
  /\ overlapped \in [Table -> BOOLEAN]

(* A card on the list prices both services, unless its creation is under way *)
(* or never reached its end: no save, rename or delete that runs meanwhile    *)
(* leaves a card that cannot price (config-repo.ts 289-304, 315-337).        *)
CardWholeOrBroken ==
  \A c \in Card : card[c].stage \in {"bare", "unpriced"} => Creating(c) \/ broken[c]

(* The rows of a table that has some only all go when somebody saves none,    *)
(* deletes the table, or two saves overlap.  A save that is cut off half way  *)
(* leaves old rows, never none (config-repo.ts 232-242).                     *)
PricesLostOnlyByOverlap ==
  [][\A t \in Table : table[t].rows # {} /\ table'[t].rows = {} =>
       \/ table'[t].stage = "gone" \/ overlapped[t]
       \/ \E r \in Request : pc[r] = "clearRows" /\ pc'[r] = "idle" /\ loc[r].table = t]_vars
=============================================================================
