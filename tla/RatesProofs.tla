------------------------------ MODULE RatesProofs ------------------------------
(***************************************************************************)
(* Theorems about AgencyRates and PriceQuote for every set of requests,      *)
(* cards, tables, names and tiers.                                           *)
(***************************************************************************)
EXTENDS PriceQuote, TLAPS

(* What a request remembers fits what it does next. *)
HeldBy(call, l) ==
  /\ call \in {"version", "entries", "owner", "rename", "drop", "version?", "upsertEntries",
              "cardOwner", "defaultCard"} => l.card \in Card
  /\ call = "owner" => l.do \in {"rename", "drop", "version?"}
  /\ call \in {"card", "rename"} \/ (call = "owner" /\ l.do = "rename") => l.name \in Name
  /\ call \in {"tableOwner", "dropTable", "upsertRows", "clearRows", "pruneRows"} =>
       l.table \in Table
  /\ call = "tableOwner" => l.do \in {"dropTable", "clearRows", "upsertRows", "defaultTable"}
  /\ call \in {"upsertRows", "pruneRows"} \/ (call = "tableOwner" /\ l.do = "upsertRows") =>
       l.rows # {}

Held == \A r \in Request : HeldBy(pc[r], loc[r])

Typed == TypeOK /\ Held

(* A row put in its place leaves the other rows alone. *)
LEMMA Put ==
  ASSUME NEW S, NEW T, NEW f \in [S -> T], NEW a \in S, NEW v \in T, NEW g,
         g = [f EXCEPT ![a] = v]
  PROVE  g \in [S -> T] /\ g[a] = v /\ \A b \in S \ {a} : g[b] = f[b]
OBVIOUS

(* A card that gets its prices stays a card, and no other one changes. *)
LEMMA StageSet ==
  ASSUME Typed, NEW c \in Card,
         card' = card \/ card' = [card EXCEPT ![c].stage = "whole"]
  PROVE  /\ card' \in [Card -> [stage : CardStage, name : Name \cup {None},
                                source : Tier \cup {None}]]
         /\ \A d \in Card : There(d) => There(d)'
<1> DEFINE new == [card[c] EXCEPT !.stage = "whole"]
<1>1. card[c] \in [stage : CardStage, name : Name \cup {None}, source : Tier \cup {None}]
  BY DEF Typed, TypeOK
<1>2. /\ new \in [stage : CardStage, name : Name \cup {None}, source : Tier \cup {None}]
      /\ new.stage = "whole"
  BY <1>1 DEF CardStage
<1>3. card' = card \/ card' = [card EXCEPT ![c] = new]
  OBVIOUS
<1> HIDE DEF new
<1>4. card' \in [Card -> [stage : CardStage, name : Name \cup {None}, source : Tier \cup {None}]]
  BY <1>2, <1>3, Put, SMTT(30) DEF Typed, TypeOK
<1>5. \A d \in Card : card'[d].stage = card[d].stage \/ card'[d].stage = "whole"
  BY <1>2, <1>3, Put, SMTT(30) DEF Typed, TypeOK
<1>6. QED
  BY <1>4, <1>5 DEF There

LEMMA BlankLocal == Blank \in Local /\ "idle" \in Pc /\ HeldBy("idle", Blank)
BY RatesAssumption DEF Blank, Local, Pc, Freight, Holder, HeldBy

(* Every step of a request is a Goto, and leaves the other requests alone. *)
LEMMA GotoTyped ==
  ASSUME Typed, NEW r \in Request, NEW c \in Pc, NEW l \in Local, Goto(r, c, l), HeldBy(c, l)
  PROVE  /\ pc' \in [Request -> Pc] /\ loc' \in [Request -> Local] /\ Held'
         /\ pc'[r] = c /\ loc'[r] = l
         /\ \A s \in Request \ {r} : pc'[s] = pc[s] /\ loc'[s] = loc[s]
<1>1. /\ pc' \in [Request -> Pc] /\ loc' \in [Request -> Local]
      /\ pc'[r] = c /\ loc'[r] = l
      /\ \A s \in Request \ {r} : pc'[s] = pc[s] /\ loc'[s] = loc[s]
  BY DEF Goto, Typed, TypeOK
<1>2. ASSUME NEW s \in Request PROVE HeldBy(pc'[s], loc'[s])
  BY <1>1 DEF Typed, Held
<1>3. QED
  BY <1>1, <1>2 DEF Held

LEMMA FinishTyped ==
  ASSUME Typed, NEW r \in Request, Finish(r)
  PROVE  /\ pc' \in [Request -> Pc] /\ loc' \in [Request -> Local] /\ Held'
         /\ pc'[r] = "idle" /\ loc'[r] = Blank
         /\ \A s \in Request \ {r} : pc'[s] = pc[s] /\ loc'[s] = loc[s]
BY BlankLocal, GotoTyped DEF Finish

LEMMA BeginTyped ==
  ASSUME Typed, NEW r \in Request, NEW c \in Pc, NEW l \in Local, Begin(r, c, l), HeldBy(c, l)
  PROVE  Typed'
<1>1. pc' \in [Request -> Pc] /\ loc' \in [Request -> Local] /\ Held'
  BY GotoTyped DEF Begin
<1>2. UNCHANGED <<data, broken, overlapped>> /\ asked' \in Nat
  BY DEF Begin, Typed, TypeOK
<1>3. QED
  BY <1>1, <1>2 DEF Typed, TypeOK, data, There, TableThere

LEMMA StartTyped ==
  ASSUME Typed, NEW r \in Request, Start(r)
  PROVE  Typed'
<1>1. ASSUME NEW n \in Name, CreateRateCard(r, n) PROVE Typed'
  <2>1. [Blank EXCEPT !.name = n] \in Local /\ HeldBy("card", [Blank EXCEPT !.name = n]) /\ "card" \in Pc
    BY RatesAssumption DEF Blank, Local, Pc, HeldBy, Freight, Holder
  <2>2. QED
    BY <1>1, <2>1, BeginTyped, Zenon DEF CreateRateCard
<1>2. ASSUME NEW c \in Card, NEW n \in Name, RenameRateCard(r, c, n) PROVE Typed'
  <2>1. [Blank EXCEPT !.do = "rename", !.card = c, !.name = n] \in Local /\ HeldBy("owner", [Blank EXCEPT !.do = "rename", !.card = c, !.name = n]) /\ "owner" \in Pc
    BY RatesAssumption DEF Blank, Local, Pc, HeldBy, Freight, Holder
  <2>2. QED
    BY <1>2, <2>1, BeginTyped, Zenon DEF RenameRateCard
<1>3. ASSUME NEW c \in Card, DeleteRateCard(r, c) PROVE Typed'
  <2>1. [Blank EXCEPT !.do = "drop", !.card = c] \in Local /\ HeldBy("owner", [Blank EXCEPT !.do = "drop", !.card = c]) /\ "owner" \in Pc
    BY RatesAssumption DEF Blank, Local, Pc, HeldBy, Freight, Holder
  <2>2. QED
    BY <1>3, <2>1, BeginTyped, Zenon DEF DeleteRateCard
<1>4. ASSUME NEW c \in Card, ReplaceCardEntries(r, c) PROVE Typed'
  <2>1. [Blank EXCEPT !.do = "version?", !.card = c] \in Local /\ HeldBy("owner", [Blank EXCEPT !.do = "version?", !.card = c]) /\ "owner" \in Pc
    BY RatesAssumption DEF Blank, Local, Pc, HeldBy, Freight, Holder
  <2>2. QED
    BY <1>4, <2>1, BeginTyped, Zenon DEF ReplaceCardEntries
<1>5. ASSUME NEW c \in Card, AssignCard(r, c) PROVE Typed'
  <2>1. [Blank EXCEPT !.card = c] \in Local /\ HeldBy("cardOwner", [Blank EXCEPT !.card = c]) /\ "cardOwner" \in Pc
    BY RatesAssumption DEF Blank, Local, Pc, HeldBy, Freight, Holder
  <2>2. QED
    BY <1>5, <2>1, BeginTyped, Zenon DEF AssignCard
<1>6. ASSUME NEW f \in Freight, CreateRate(r, f) PROVE Typed'
  <2>1. [Blank EXCEPT !.freight = f] \in Local /\ HeldBy("table", [Blank EXCEPT !.freight = f]) /\ "table" \in Pc
    BY RatesAssumption DEF Blank, Local, Pc, HeldBy, Freight, Holder
  <2>2. QED
    BY <1>6, <2>1, BeginTyped, Zenon DEF CreateRate
<1>7. ASSUME NEW t \in Table, DeleteRate(r, t) PROVE Typed'
  <2>1. [Blank EXCEPT !.do = "dropTable", !.table = t] \in Local /\ HeldBy("tableOwner", [Blank EXCEPT !.do = "dropTable", !.table = t]) /\ "tableOwner" \in Pc
    BY RatesAssumption DEF Blank, Local, Pc, HeldBy, Freight, Holder
  <2>2. QED
    BY <1>7, <2>1, BeginTyped, Zenon DEF DeleteRate
<1>8. ASSUME DeleteChargeConcept(r) PROVE Typed'
  <2>1. Blank \in Local /\ HeldBy("inUse", Blank) /\ "inUse" \in Pc
    BY RatesAssumption DEF Blank, Local, Pc, HeldBy, Freight, Holder
  <2>2. QED
    BY <1>8, <2>1, BeginTyped, Zenon DEF DeleteChargeConcept
<1>9. ASSUME BillConcept(r) PROVE Typed'
  <2>1. Blank \in Local /\ HeldBy("belongs", Blank) /\ "belongs" \in Pc
    BY RatesAssumption DEF Blank, Local, Pc, HeldBy, Freight, Holder
  <2>2. QED
    BY <1>9, <2>1, BeginTyped, Zenon DEF BillConcept
<1>10. ASSUME Backfill(r) PROVE Typed'
  <2>1. [Blank EXCEPT !.script = TRUE] \in Local /\ HeldBy("tables", [Blank EXCEPT !.script = TRUE]) /\ "tables" \in Pc
    BY RatesAssumption DEF Blank, Local, Pc, HeldBy, Freight, Holder
  <2>2. QED
    BY <1>10, <2>1, BeginTyped, Zenon DEF Backfill
<1>11. ASSUME NEW t \in Table, NEW rows \in SUBSET Tier, ReplaceRows(r, t, rows) PROVE Typed'
  <2> DEFINE do == IF rows = {} THEN "clearRows" ELSE "upsertRows"
             l == [Blank EXCEPT !.do = do, !.table = t, !.rows = rows]
  <2>1. l \in Local /\ HeldBy("tableOwner", l) /\ "tableOwner" \in Pc
    BY RatesAssumption DEF Blank, Local, Pc, HeldBy, Freight, Holder
  <2>2. QED
    BY <1>11, <2>1, BeginTyped, Zenon DEF ReplaceRows
<1>12. ASSUME NEW h \in Holder, NEW t \in Table \cup {None}, AssignTable(r, h, t) PROVE Typed'
  <2>1. CASE t = None
    <3>1. [Blank EXCEPT !.holder = h] \in Local /\ HeldBy("defaultTable", [Blank EXCEPT !.holder = h])
            /\ "defaultTable" \in Pc
      BY RatesAssumption DEF Blank, Local, Pc, HeldBy, Freight, Holder
    <3>2. QED
      BY <1>12, <2>1, <3>1, BeginTyped, Zenon DEF AssignTable
  <2>2. CASE t # None
    <3> DEFINE l == [Blank EXCEPT !.do = "defaultTable", !.table = t, !.holder = h]
    <3>1. l \in Local /\ HeldBy("tableOwner", l) /\ "tableOwner" \in Pc
      BY <2>2 DEF Blank, Local, Pc, HeldBy, Freight, Holder
    <3>2. QED
      BY <1>12, <2>2, <3>1, BeginTyped, Zenon DEF AssignTable
  <2>3. QED
    BY <2>1, <2>2
<1>13. QED
  BY <1>1, <1>2, <1>3, <1>4, <1>5, <1>6, <1>7, <1>8, <1>9, <1>10, <1>11, <1>12, Zenon DEF Start

(* The next card of the script keeps the plan. *)
LEMMA GoOnTyped ==
  ASSUME Typed, NEW r \in Request, NEW plan \in SUBSET Tier, NEW regular \in Card \cup {None},
         GoOn(r, plan, regular)
  PROVE  /\ pc' \in [Request -> Pc] /\ loc' \in [Request -> Local] /\ Held'
         /\ pc'[r] \in {"card", "clients"} /\ loc'[r].script = loc[r].script
         /\ \A s \in Request \ {r} : pc'[s] = pc[s] /\ loc'[s] = loc[s]
<1>1. loc[r] \in Local
  BY DEF Typed, TypeOK
<1>2. CASE plan = {}
  <2> DEFINE l == [loc[r] EXCEPT !.plan = {}, !.regular = regular]
  <2>1. l \in Local /\ HeldBy("clients", l) /\ "clients" \in Pc /\ l.script = loc[r].script
    BY <1>1 DEF Local, HeldBy, Pc
  <2>2. Goto(r, "clients", l)
    BY <1>2 DEF GoOn
  <2> HIDE DEF l
  <2>3. QED
    BY <2>1, <2>2, GotoTyped
<1>3. CASE plan # {}
  <2>1. PICK t \in plan :
          Goto(r, "card", [loc[r] EXCEPT !.name = t, !.source = t, !.plan = plan \ {t},
                                         !.regular = regular])
    BY <1>3 DEF GoOn
  <2> DEFINE l == [loc[r] EXCEPT !.name = t, !.source = t, !.plan = plan \ {t},
                                 !.regular = regular]
  <2>2. l \in Local /\ HeldBy("card", l) /\ "card" \in Pc /\ l.script = loc[r].script
    BY <1>1, RatesAssumption DEF Local, HeldBy, Pc
  <2>3. Goto(r, "card", l)
    BY <2>1
  <2> HIDE DEF l
  <2>4. QED
    BY <2>2, <2>3, GotoTyped
<1>4. QED
  BY <1>2, <1>3

LEMMA ContinueTyped ==
  ASSUME Typed, NEW r \in Request, Continue(r)
  PROVE  Typed'
<1>1. CASE PostCard(r)
  <2>1. loc[r] \in Local /\ loc[r].name \in Name /\ "version" \in Pc
    BY <1>1 DEF PostCard, Typed, TypeOK, Held, HeldBy, Pc
  <2>2. CASE NameTaken(loc[r].name, None)
    BY <1>1, <2>2, FinishTyped DEF PostCard, Typed, TypeOK, There, TableThere, history
  <2>3. CASE ~NameTaken(loc[r].name, None)
    <3> DEFINE new == [stage |-> "bare", name |-> loc[r].name, source |-> None]
    <3>1. PICK c \in Card : /\ card[c].stage = "absent"
                           /\ card' = [card EXCEPT ![c] = new]
                           /\ Goto(r, "version", [loc[r] EXCEPT !.card = c])
      BY <1>1, <2>3 DEF PostCard
    <3>2. [loc[r] EXCEPT !.card = c] \in Local /\ HeldBy("version", [loc[r] EXCEPT !.card = c])
      BY <2>1 DEF Local, HeldBy
    <3>3. pc' \in [Request -> Pc] /\ loc' \in [Request -> Local] /\ Held'
      BY <2>1, <3>1, <3>2, GotoTyped
    <3>4. new \in [stage : CardStage, name : Name \cup {None}, source : Tier \cup {None}]
      BY <2>1 DEF CardStage
    <3>5. QED
      BY <1>1, <3>1, <3>3, <3>4 DEF PostCard, Typed, TypeOK, There, TableThere, history
  <2>4. QED
    BY <2>2, <2>3
<1>2. CASE PostVersion(r)
  <2> DEFINE c == loc[r].card
             source == loc[r].source
  <2>1. /\ loc[r] \in Local /\ c \in Card /\ source \in Tier \cup {None}
        /\ "entries" \in Pc /\ HeldBy("entries", loc[r])
    BY <1>2 DEF PostVersion, Typed, TypeOK, Held, HeldBy, Local, Pc
  <2>2. CASE Finish(r) /\ broken' = [broken EXCEPT ![c] = TRUE] /\ UNCHANGED card
    BY <1>2, <2>2, FinishTyped DEF PostVersion, Typed, TypeOK, There, TableThere, history
  <2>3. CASE /\ card' = [card EXCEPT ![c].stage = "unpriced", ![c].source = source]
             /\ Then(r, "entries") /\ UNCHANGED broken /\ There(c)
    <3>1. pc' \in [Request -> Pc] /\ loc' \in [Request -> Local] /\ Held'
      BY <2>1, <2>3, GotoTyped DEF Then
    <3>2. card' \in [Card -> [stage : CardStage, name : Name \cup {None}, source : Tier \cup {None}]]
            /\ \A d \in Card : There(d) => There(d)'
      BY <2>1, <2>3 DEF Typed, TypeOK, There, TableThere, history, CardStage
    <3>3. QED
      BY <1>2, <2>3, <3>1, <3>2 DEF PostVersion, Typed, TypeOK, TableThere, history
  <2>4. QED
    BY <1>2, <2>2, <2>3 DEF PostVersion
<1>3. CASE PostEntries(r)
  <2> DEFINE c == loc[r].card
             regular == IF loc[r].source = Regular THEN c ELSE loc[r].regular
  <2>1. /\ loc[r] \in Local /\ c \in Card
        /\ regular \in Card \cup {None} /\ loc[r].plan \in SUBSET Tier
    BY <1>3 DEF PostEntries, Typed, TypeOK, Held, HeldBy, Local
  <2>2. pc' \in [Request -> Pc] /\ loc' \in [Request -> Local] /\ Held'
    <3>1. Finish(r) \/ GoOn(r, loc[r].plan, regular)
      BY <1>3 DEF PostEntries
    <3> HIDE DEF regular
    <3>2. QED
      BY <2>1, <3>1, FinishTyped, GoOnTyped
  <2>3. card' = card \/ (card[c].stage = "unpriced" /\ card' = [card EXCEPT ![c].stage = "whole"])
    BY <1>3 DEF PostEntries
  <2>4. card' \in [Card -> [stage : CardStage, name : Name \cup {None}, source : Tier \cup {None}]]
          /\ \A d \in Card : There(d) => There(d)'
    BY <2>1, <2>3, StageSet
  <2>5. QED
    BY <1>3, <2>2, <2>4 DEF PostEntries, Typed, TypeOK, TableThere, history
<1>4. CASE RequireRateCardInOrg(r)
  <2>1. loc[r] \in Local /\ loc[r].do \in Pc /\ HeldBy(loc[r].do, loc[r])
    BY <1>4, RatesAssumption DEF RequireRateCardInOrg, Typed, TypeOK, Held, HeldBy, Local, Pc
  <2>2. pc' \in [Request -> Pc] /\ loc' \in [Request -> Local] /\ Held'
    BY <1>4, <2>1, GotoTyped, FinishTyped DEF RequireRateCardInOrg, Then
  <2>3. QED
    BY <1>4, <2>1, <2>2 DEF RequireRateCardInOrg, data, Typed, TypeOK, There, TableThere, history
<1>5. CASE UpdateRateCard(r)
  <2>1. loc[r].card \in Card /\ loc[r].name \in Name
    BY <1>5 DEF UpdateRateCard, Typed, Held, HeldBy
  <2>2. pc' \in [Request -> Pc] /\ loc' \in [Request -> Local] /\ Held'
    BY <1>5, FinishTyped DEF UpdateRateCard
  <2>3. card' = card \/ card' = [card EXCEPT ![loc[r].card].name = loc[r].name]
    BY <1>5 DEF UpdateRateCard
  <2>4. card' \in [Card -> [stage : CardStage, name : Name \cup {None}, source : Tier \cup {None}]]
          /\ \A d \in Card : There(d) => There(d)'
    <3> DEFINE c == loc[r].card
               new == [card[c] EXCEPT !.name = loc[r].name]
    <3>1. card[c] \in [stage : CardStage, name : Name \cup {None}, source : Tier \cup {None}]
      BY <2>1 DEF Typed, TypeOK
    <3>2. /\ new \in [stage : CardStage, name : Name \cup {None}, source : Tier \cup {None}]
          /\ new.stage = card[c].stage
      BY <2>1, <3>1
    <3>3. card' = card \/ card' = [card EXCEPT ![c] = new]
      BY <2>3
    <3> HIDE DEF new
    <3>4. card' \in [Card -> [stage : CardStage, name : Name \cup {None}, source : Tier \cup {None}]]
      BY <2>1, <3>2, <3>3, Put, SMTT(30) DEF Typed, TypeOK
    <3>5. \A d \in Card : card'[d].stage = card[d].stage
      BY <2>1, <3>2, <3>3, Put, SMTT(30) DEF Typed, TypeOK
    <3>6. QED
      BY <3>4, <3>5 DEF There
  <2>5. QED
    BY <1>5, <2>2, <2>4 DEF UpdateRateCard, Typed, TypeOK, TableThere, history
<1>6. CASE DropRateCard(r)
  <2>1. loc[r] \in Local /\ loc[r].card \in Card
    BY <1>6, RatesAssumption DEF DropRateCard, Typed, TypeOK, Held, HeldBy, Local, Pc
  <2>2. pc' \in [Request -> Pc] /\ loc' \in [Request -> Local] /\ Held'
    BY <1>6, <2>1, GotoTyped, FinishTyped DEF DropRateCard, Then
  <2>3. QED
    BY <1>6, <2>1, <2>2, SMTT(30) DEF DropRateCard, data, Typed, TypeOK, There, TableThere, history, NoCard, CardStage
<1>7. CASE ReadVersion(r)
  <2>1. loc[r] \in Local /\ "upsertEntries" \in Pc /\ HeldBy("upsertEntries", loc[r])
    BY <1>7, RatesAssumption DEF ReadVersion, Typed, TypeOK, Held, HeldBy, Local, Pc
  <2>2. pc' \in [Request -> Pc] /\ loc' \in [Request -> Local] /\ Held'
    BY <1>7, <2>1, GotoTyped, FinishTyped DEF ReadVersion, Then
  <2>3. QED
    BY <1>7, <2>1, <2>2 DEF ReadVersion, data, Typed, TypeOK, There, TableThere, history
<1>8. CASE UpsertEntries(r)
  <2>1. loc[r] \in Local /\ loc[r].card \in Card
    BY <1>8, RatesAssumption DEF UpsertEntries, Typed, TypeOK, Held, HeldBy, Local, Pc
  <2>2. pc' \in [Request -> Pc] /\ loc' \in [Request -> Local] /\ Held'
    BY <1>8, <2>1, GotoTyped, FinishTyped DEF UpsertEntries, Then
  <2>3. card' = card \/ card' = [card EXCEPT ![loc[r].card].stage = "whole"]
    BY <1>8 DEF UpsertEntries
  <2>4. card' \in [Card -> [stage : CardStage, name : Name \cup {None}, source : Tier \cup {None}]]
          /\ \A d \in Card : There(d) => There(d)'
    BY <2>1, <2>3, StageSet
  <2>5. QED
    BY <1>8, <2>2, <2>4 DEF UpsertEntries, Typed, TypeOK, TableThere, history
<1>9. CASE PostTable(r)
  <2>1. loc[r] \in Local /\ loc[r].freight \in Freight
    BY <1>9, RatesAssumption DEF PostTable, Typed, TypeOK, Held, HeldBy, Local, Pc
  <2>2. pc' \in [Request -> Pc] /\ loc' \in [Request -> Local] /\ Held'
    BY <1>9, <2>1, GotoTyped, FinishTyped DEF PostTable, Then
  <2>3. QED
    BY <1>9, <2>1, <2>2, SMTT(30) DEF PostTable, data, Typed, TypeOK, There, TableThere, history, Stage
<1>10. CASE RequireRateInOrg(r)
  <2>1. loc[r] \in Local /\ loc[r].do \in Pc /\ HeldBy(loc[r].do, loc[r])
    BY <1>10, RatesAssumption DEF RequireRateInOrg, Typed, TypeOK, Held, HeldBy, Local, Pc
  <2>2. pc' \in [Request -> Pc] /\ loc' \in [Request -> Local] /\ Held'
    BY <1>10, <2>1, GotoTyped, FinishTyped DEF RequireRateInOrg, Then
  <2>3. QED
    BY <1>10, <2>1, <2>2 DEF RequireRateInOrg, data, Typed, TypeOK, There, TableThere, history
<1>11. CASE DropTable(r)
  <2> DEFINE t == loc[r].table
             new == [NoTable EXCEPT !.stage = "gone"]
  <2>1. t \in Table /\ new \in [stage : Stage, freight : Freight, rows : SUBSET Tier]
    BY <1>11 DEF DropTable, Typed, Held, HeldBy, NoTable, Stage, Freight
  <2>2. pc' \in [Request -> Pc] /\ loc' \in [Request -> Local] /\ Held'
    BY <1>11, FinishTyped DEF DropTable
  <2>3. /\ table' = [table EXCEPT ![t] = new]
        /\ dfltTable' = [h \in Holder |-> IF dfltTable[h] = t THEN None ELSE dfltTable[h]]
    BY <1>11 DEF DropTable
  <2> HIDE DEF new
  <2>4. \A u \in Table \ {t} : TableThere(u) => TableThere(u)'
    BY <2>1, <2>3 DEF Typed, TypeOK, There, TableThere, history
  <2>5. dfltTable' \in [Holder -> {None} \cup {u \in Table : TableThere(u)'}]
    BY <2>3, <2>4 DEF Typed, TypeOK
  <2>6. table' \in [Table -> [stage : Stage, freight : Freight, rows : SUBSET Tier]]
    BY <2>1, <2>3 DEF Typed, TypeOK
  <2>7. QED
    BY <1>11, <2>2, <2>5, <2>6 DEF DropTable, Typed, TypeOK, There, history
<1>12. CASE UpsertRows(r)
  <2> DEFINE t == loc[r].table
  <2>1. /\ loc[r] \in Local /\ "pruneRows" \in Pc /\ HeldBy("pruneRows", loc[r])
        /\ t \in Table /\ loc[r].rows \in SUBSET Tier
    BY <1>12 DEF UpsertRows, Typed, TypeOK, Held, HeldBy, Local, Pc
  <2>2. pc' \in [Request -> Pc] /\ loc' \in [Request -> Local] /\ Held'
    BY <1>12, <2>1, GotoTyped, FinishTyped DEF UpsertRows, Then
  <2>3. \/ table' = table /\ overlapped' = overlapped
        \/ /\ table' = [table EXCEPT ![t].rows = @ \cup loc[r].rows]
           /\ overlapped' = [overlapped EXCEPT ![t] =
                \E s \in Request \ {r} : pc[s] = "pruneRows" /\ loc[s].table = t]
    BY <1>12 DEF UpsertRows
  <2>4. /\ table' \in [Table -> [stage : Stage, freight : Freight, rows : SUBSET Tier]]
        /\ \A u \in Table : TableThere(u)' <=> TableThere(u)
    <3> DEFINE new == [table[t] EXCEPT !.rows = table[t].rows \cup loc[r].rows]
    <3>1. table[t] \in [stage : Stage, freight : Freight, rows : SUBSET Tier]
      BY <2>1 DEF Typed, TypeOK
    <3>2. /\ new \in [stage : Stage, freight : Freight, rows : SUBSET Tier]
          /\ new.stage = table[t].stage
      BY <2>1, <3>1
    <3>3. table' = table \/ table' = [table EXCEPT ![t] = new]
      BY <2>3
    <3> HIDE DEF new
    <3>4. table' \in [Table -> [stage : Stage, freight : Freight, rows : SUBSET Tier]]
      BY <2>1, <3>2, <3>3, Put, SMTT(30) DEF Typed, TypeOK
    <3>5. \A u \in Table : table'[u].stage = table[u].stage
      BY <2>1, <3>2, <3>3, Put, SMTT(30) DEF Typed, TypeOK
    <3>6. QED
      BY <3>4, <3>5 DEF TableThere
  <2>5. overlapped' \in [Table -> BOOLEAN]
    BY <2>1, <2>3 DEF Typed, TypeOK
  <2>6. dfltTable' \in [Holder -> {None} \cup {u \in Table : TableThere(u)'}]
    BY <1>12, <2>4 DEF UpsertRows, Typed, TypeOK
  <2>7. QED
    BY <1>12, <2>2, <2>4, <2>5, <2>6 DEF UpsertRows, Typed, TypeOK, There, history
<1>13. CASE PruneRows(r)
  <2>1. loc[r] \in Local /\ loc[r].table \in Table /\ loc[r].rows \in SUBSET Tier
    BY <1>13, RatesAssumption DEF PruneRows, Typed, TypeOK, Held, HeldBy, Local, Pc
  <2>2. pc' \in [Request -> Pc] /\ loc' \in [Request -> Local] /\ Held'
    BY <1>13, <2>1, GotoTyped, FinishTyped DEF PruneRows, Then
  <2>3. QED
    BY <1>13, <2>1, <2>2 DEF PruneRows, data, Typed, TypeOK, There, TableThere, history
<1>14. CASE ClearRows(r)
  <2>1. loc[r] \in Local /\ loc[r].table \in Table /\ loc[r].rows \in SUBSET Tier
    BY <1>14, RatesAssumption DEF ClearRows, Typed, TypeOK, Held, HeldBy, Local, Pc
  <2>2. pc' \in [Request -> Pc] /\ loc' \in [Request -> Local] /\ Held'
    BY <1>14, <2>1, GotoTyped, FinishTyped DEF ClearRows, Then
  <2>3. QED
    BY <1>14, <2>1, <2>2 DEF ClearRows, data, Typed, TypeOK, There, TableThere, history
<1>15. CASE PatchDefaultTable(r)
  <2>1. loc[r] \in Local /\ loc[r].table \in Table \cup {None} /\ loc[r].holder \in Holder
    BY <1>15, RatesAssumption DEF PatchDefaultTable, Typed, TypeOK, Held, HeldBy, Local, Pc
  <2>2. pc' \in [Request -> Pc] /\ loc' \in [Request -> Local] /\ Held'
    BY <1>15, <2>1, GotoTyped, FinishTyped DEF PatchDefaultTable, Then
  <2>3. QED
    BY <1>15, <2>1, <2>2 DEF PatchDefaultTable, data, Typed, TypeOK, There, TableThere, history
<1>16. CASE ValidateRateCard(r)
  <2>1. loc[r] \in Local /\ "defaultCard" \in Pc /\ HeldBy("defaultCard", loc[r])
    BY <1>16, RatesAssumption DEF ValidateRateCard, Typed, TypeOK, Held, HeldBy, Local, Pc
  <2>2. pc' \in [Request -> Pc] /\ loc' \in [Request -> Local] /\ Held'
    BY <1>16, <2>1, GotoTyped, FinishTyped DEF ValidateRateCard, Then
  <2>3. QED
    BY <1>16, <2>1, <2>2 DEF ValidateRateCard, data, Typed, TypeOK, There, TableThere, history
<1>17. CASE PatchDefaultCard(r)
  <2>1. loc[r] \in Local /\ loc[r].card \in Card
    BY <1>17, RatesAssumption DEF PatchDefaultCard, Typed, TypeOK, Held, HeldBy, Local, Pc
  <2>2. pc' \in [Request -> Pc] /\ loc' \in [Request -> Local] /\ Held'
    BY <1>17, <2>1, GotoTyped, FinishTyped DEF PatchDefaultCard, Then
  <2>3. QED
    BY <1>17, <2>1, <2>2 DEF PatchDefaultCard, data, Typed, TypeOK, There, TableThere, history
<1>18. CASE IsConceptInUse(r)
  <2>1. loc[r] \in Local /\ "dropConcept" \in Pc /\ HeldBy("dropConcept", loc[r])
    BY <1>18, RatesAssumption DEF IsConceptInUse, Typed, TypeOK, Held, HeldBy, Local, Pc
  <2>2. pc' \in [Request -> Pc] /\ loc' \in [Request -> Local] /\ Held'
    BY <1>18, <2>1, GotoTyped, FinishTyped DEF IsConceptInUse, Then
  <2>3. QED
    BY <1>18, <2>1, <2>2 DEF IsConceptInUse, data, Typed, TypeOK, There, TableThere, history
<1>19. CASE DropConcept(r)
  <2>1. loc[r] \in Local
    BY <1>19, RatesAssumption DEF DropConcept, Typed, TypeOK, Held, HeldBy, Local, Pc
  <2>2. pc' \in [Request -> Pc] /\ loc' \in [Request -> Local] /\ Held'
    BY <1>19, <2>1, GotoTyped, FinishTyped DEF DropConcept, Then
  <2>3. QED
    BY <1>19, <2>1, <2>2 DEF DropConcept, data, Typed, TypeOK, There, TableThere, history, Stage
<1>20. CASE ConceptBelongsToOrg(r)
  <2>1. loc[r] \in Local /\ "line" \in Pc /\ HeldBy("line", loc[r])
    BY <1>20, RatesAssumption DEF ConceptBelongsToOrg, Typed, TypeOK, Held, HeldBy, Local, Pc
  <2>2. pc' \in [Request -> Pc] /\ loc' \in [Request -> Local] /\ Held'
    BY <1>20, <2>1, GotoTyped, FinishTyped DEF ConceptBelongsToOrg, Then
  <2>3. QED
    BY <1>20, <2>1, <2>2 DEF ConceptBelongsToOrg, data, Typed, TypeOK, There, TableThere, history
<1>21. CASE InsertLine(r)
  <2>1. loc[r] \in Local
    BY <1>21, RatesAssumption DEF InsertLine, Typed, TypeOK, Held, HeldBy, Local, Pc
  <2>2. pc' \in [Request -> Pc] /\ loc' \in [Request -> Local] /\ Held'
    BY <1>21, <2>1, GotoTyped, FinishTyped DEF InsertLine, Then
  <2>3. QED
    BY <1>21, <2>1, <2>2 DEF InsertLine, data, Typed, TypeOK, There, TableThere, history
<1>22. CASE ReadTables(r)
  <2> DEFINE l == [loc[r] EXCEPT !.plan = BuildBackfillPlan, !.seen = {t \in Table : TableThere(t)}]
  <2>1. l \in Local /\ HeldBy("keys", l) /\ "keys" \in Pc
    <3>1. loc[r] \in Local /\ BuildBackfillPlan \in SUBSET Tier
            /\ {t \in Table : TableThere(t)} \in SUBSET Table
      BY DEF Typed, TypeOK, BuildBackfillPlan
    <3> HIDE DEF l
    <3>2. l = [loc[r] EXCEPT !.plan = BuildBackfillPlan, !.seen = {t \in Table : TableThere(t)}]
      BY DEF l
    <3>3. QED
      BY <3>1, <3>2 DEF Local, HeldBy, Pc
  <2>2. Goto(r, "keys", l)
    BY <1>22 DEF ReadTables
  <2> HIDE DEF l
  <2>3. QED
    BY <1>22, <2>1, <2>2, GotoTyped DEF ReadTables, data, Typed, TypeOK, There, TableThere, history
<1>23. CASE ReadKeys(r)
  <2> DEFINE done(t) == {c \in Card : There(c) /\ card[c].source = t}
             plan == {t \in loc[r].plan : done(t) = {}}
  <2>1. PICK regular \in IF done(Regular) = {} THEN {None} ELSE done(Regular) :
          GoOn(r, plan, regular)
    BY <1>23 DEF ReadKeys
  <2>2. regular \in Card \cup {None} /\ plan \in SUBSET Tier
    BY DEF Typed, TypeOK, Local
  <2> HIDE DEF plan
  <2>3. QED
    BY <1>23, <2>1, <2>2, GoOnTyped DEF ReadKeys, data, Typed, TypeOK, There, TableThere, history
<1>24. CASE ReadClients(r)
  <2> DEFINE l == [Blank EXCEPT !.card = loc[r].regular, !.script = TRUE]
  <2>1. loc[r].regular \in Card \cup {None} /\ l \in Local /\ "defaultCard" \in Pc
          /\ (loc[r].regular # None => HeldBy("defaultCard", l))
    BY BlankLocal DEF Typed, TypeOK, Local, HeldBy, Pc, Blank
  <2>2. Finish(r) \/ (loc[r].regular # None /\ Goto(r, "defaultCard", l))
    BY <1>24 DEF ReadClients
  <2> HIDE DEF l
  <2>3. QED
    BY <1>24, <2>1, <2>2, GotoTyped, FinishTyped DEF ReadClients, data, Typed, TypeOK, There, TableThere, history
<1>25. QED
  BY <1>1, <1>2, <1>3, <1>4, <1>5, <1>6, <1>7, <1>8, <1>9, <1>10, <1>11, <1>12, <1>13,
     <1>14, <1>15, <1>16, <1>17, <1>18, <1>19, <1>20, <1>21, <1>22, <1>23, <1>24 DEF
     Continue

THEOREM RatesTypedStep == Typed /\ [Next]_vars => Typed'
<1> SUFFICES ASSUME Typed, [Next]_vars PROVE Typed'
  OBVIOUS
<1>1. ASSUME NEW r \in Request, Abandon(r) PROVE Typed'
  BY <1>1, FinishTyped DEF Abandon, data, Typed, TypeOK, There, TableThere, history
<1>2. CASE CreateChargeConcept
  BY <1>2 DEF CreateChargeConcept, job, Held, Stage, Typed, TypeOK, There, TableThere, history
<1>3. CASE UNCHANGED vars
  BY <1>3 DEF vars, data, job, Held, Typed, TypeOK, There, TableThere, history
<1>4. QED
  BY <1>1, <1>2, <1>3, StartTyped, ContinueTyped DEF Next

THEOREM RatesTypedInitially == Init => Typed
<1> SUFFICES ASSUME Init PROVE Typed
  OBVIOUS
<1>1. Held
  BY BlankLocal DEF Init, Held
<1>2. card \in [Card -> [stage : CardStage, name : Name \cup {None}, source : Tier \cup {None}]]
  BY DEF Init, NoCard, CardStage
<1>3. table \in [Table -> [stage : Stage, freight : Freight, rows : SUBSET Tier]]
  BY DEF Init, NoTable, Stage, Freight
<1>4. QED
  BY <1>1, <1>2, <1>3, BlankLocal DEF Init, Typed, TypeOK, Stage

(* In every behaviour cards, tables and requests have their types, and a      *)
(* default, an override and a billed line name a row that is there.          *)
THEOREM RatesTypeCorrect == Spec => []TypeOK
<1>1. Typed => TypeOK
  BY DEF Typed
<1>2. QED
  BY <1>1, RatesTypedInitially, RatesTypedStep, PTL DEF Spec

-----------------------------------------------------------------------------
(* A request moves by a Goto, whatever it goes to do. *)
LEMMA GotoAlone ==
  ASSUME Typed, NEW r \in Request, NEW c, NEW l, Goto(r, c, l)
  PROVE  /\ pc'[r] = c /\ loc'[r] = l
         /\ \A s \in Request \ {r} : pc'[s] = pc[s] /\ loc'[s] = loc[s]
BY DEF Goto, Typed, TypeOK

FirstCall == {"card", "owner", "cardOwner", "table", "tableOwner", "defaultTable", "inUse",
              "belongs", "tables"}

(* The handlers begin with a read, or with an insert of their own. *)
LEMMA StartBegins ==
  ASSUME Typed, NEW r \in Request, Start(r)
  PROVE  /\ \E c \in FirstCall : \E l : Goto(r, c, l)
         /\ pc[r] = "idle"
         /\ UNCHANGED <<data, broken, overlapped>>
<1>1. \E c \in FirstCall : \E l : Begin(r, c, l)
  BY Zenon DEF Start, CreateRateCard, RenameRateCard, DeleteRateCard, ReplaceCardEntries,
     AssignCard, CreateRate, DeleteRate, ReplaceRows, AssignTable, DeleteChargeConcept,
     BillConcept, Backfill, FirstCall
<1>2. QED
  BY <1>1 DEF Begin

-----------------------------------------------------------------------------
(* Cards that cannot price.  A request that is about to add the prices knows  *)
(* that the version is there.                                                *)
Versioned ==
  \A r \in Request : pc[r] = "entries" => card[loc[r].card].stage \notin {"absent", "bare"}

Cards == CardWholeOrBroken /\ Versioned

(* A step that touches no creation, and makes no card worse, keeps both. *)
LEMMA CardsKept ==
  ASSUME Typed, Cards, NEW r \in Request,
         \A s \in Request \ {r} : pc'[s] = pc[s] /\ loc'[s] = loc[s],
         \A c \in Card : broken[c] => broken'[c],
         \A c \in Card : card'[c].stage = card[c].stage \/ card'[c].stage \in {"whole", "gone"},
         pc'[r] # "entries",
         pc[r] \in {"version", "entries"} => \/ broken'[loc[r].card]
                                             \/ card'[loc[r].card].stage \in {"whole", "gone"}
  PROVE  Cards'
<1>1. CardWholeOrBroken'
  <2>1. SUFFICES ASSUME NEW c \in Card, card'[c].stage \in {"bare", "unpriced"}, ~broken'[c]
                 PROVE  Creating(c)'
    BY DEF CardWholeOrBroken
  <2>2. card[c].stage \in {"bare", "unpriced"} /\ ~broken[c]
    BY <2>1
  <2>3. PICK s \in Request : pc[s] \in {"version", "entries"} /\ loc[s].card = c
    BY <2>2 DEF Cards, CardWholeOrBroken, Creating
  <2>4. s # r
    BY <2>1, <2>3
  <2>5. QED
    BY <2>3, <2>4 DEF Creating
<1>2. Versioned'
  <2>1. SUFFICES ASSUME NEW s \in Request, pc'[s] = "entries"
                 PROVE  card'[loc'[s].card].stage \notin {"absent", "bare"}
    BY DEF Versioned
  <2>2. pc[s] = "entries" /\ loc'[s] = loc[s]
    BY <2>1
  <2>3. loc[s].card \in Card
    BY <2>2 DEF Typed, Held, HeldBy
  <2>4. QED
    BY <2>2, <2>3 DEF Cards, Versioned
<1>3. QED
  BY <1>1, <1>2 DEF Cards

(* The calls that are not part of a creation. *)
Aside(r) ==
  \/ RequireRateCardInOrg(r) \/ UpdateRateCard(r) \/ DropRateCard(r)
  \/ ReadVersion(r) \/ UpsertEntries(r)
  \/ PostTable(r) \/ RequireRateInOrg(r) \/ DropTable(r)
  \/ UpsertRows(r) \/ PruneRows(r) \/ ClearRows(r)
  \/ PatchDefaultTable(r) \/ ValidateRateCard(r) \/ PatchDefaultCard(r)
  \/ IsConceptInUse(r) \/ DropConcept(r) \/ ConceptBelongsToOrg(r) \/ InsertLine(r)
  \/ ReadTables(r) \/ ReadKeys(r) \/ ReadClients(r)

AsideCall == Pc \ {"idle", "card", "version", "entries"}

LEMMA AsideGoes ==
  ASSUME Typed, NEW r \in Request, Aside(r)
  PROVE  /\ pc[r] \in AsideCall /\ broken' = broken
         /\ \E c \in Pc \ {"version", "entries"} : \E l : Goto(r, c, l)
<1>1. pc[r] \in AsideCall
  BY DEF Aside, AsideCall, Typed, TypeOK, RequireRateCardInOrg, UpdateRateCard, DropRateCard,
     ReadVersion, UpsertEntries, PostTable, RequireRateInOrg, DropTable, UpsertRows, PruneRows,
     ClearRows, PatchDefaultTable, ValidateRateCard, PatchDefaultCard, IsConceptInUse,
     DropConcept, ConceptBelongsToOrg, InsertLine, ReadTables, ReadKeys, ReadClients, Pc
<1>2. broken' = broken
  BY DEF Aside, RequireRateCardInOrg, UpdateRateCard, DropRateCard,
     ReadVersion, UpsertEntries, PostTable, RequireRateInOrg, DropTable, UpsertRows, PruneRows,
     ClearRows, PatchDefaultTable, ValidateRateCard, PatchDefaultCard, IsConceptInUse,
     DropConcept, ConceptBelongsToOrg, InsertLine, ReadTables, ReadKeys, ReadClients, history
<1>3. loc[r].do \in Pc \ {"version", "entries"} \/ ~(RequireRateCardInOrg(r) \/ RequireRateInOrg(r))
  BY DEF RequireRateCardInOrg, RequireRateInOrg, Typed, Held, HeldBy, Pc
<1>4. \E c \in Pc \ {"version", "entries"} : \E l : Goto(r, c, l)
  <2> DEFINE Goes == \E c \in Pc \ {"version", "entries"} : \E l : Goto(r, c, l)
  <2>1. Finish(r) => Goes
    <3>1. "idle" \in Pc \ {"version", "entries"}
      BY DEF Pc
    <3>2. QED
      BY <3>1, Zenon DEF Finish
  <2>2. ASSUME NEW c \in Pc \ {"version", "entries"}, Then(r, c) PROVE Goes
    BY <2>2, Zenon DEF Then
  <2>3. {"upsertEntries", "pruneRows", "defaultCard", "dropConcept", "line", "keys", "clients", "card"}
           \subseteq Pc \ {"version", "entries"}
    BY DEF Pc
  <2>4. (\E plan, regular : GoOn(r, plan, regular)) => Goes
    BY <2>3 DEF GoOn
  <2>5. ReadTables(r) \/ ReadClients(r) => Goes
    BY <2>1, <2>3 DEF ReadTables, ReadClients
  <2>6. ReadKeys(r) => Goes
    BY <2>4, Zenon DEF ReadKeys
  <2> HIDE DEF Goes
  <2>7. RequireRateCardInOrg(r) \/ RequireRateInOrg(r) => Goes
    BY <1>3, <2>1, <2>2 DEF RequireRateCardInOrg, RequireRateInOrg
  <2>8. ReadVersion(r) \/ UpsertRows(r) \/ ValidateRateCard(r) \/ IsConceptInUse(r)
          \/ ConceptBelongsToOrg(r) => Goes
    BY <2>1, <2>2, <2>3 DEF ReadVersion, UpsertRows, ValidateRateCard, IsConceptInUse,
       ConceptBelongsToOrg
  <2>9. UpdateRateCard(r) \/ DropRateCard(r) \/ UpsertEntries(r) \/ PostTable(r) \/ DropTable(r)
          \/ PruneRows(r) \/ ClearRows(r) \/ PatchDefaultTable(r) \/ PatchDefaultCard(r)
          \/ DropConcept(r) \/ InsertLine(r) => Goes
    BY <2>1 DEF UpdateRateCard, DropRateCard, UpsertEntries, PostTable, DropTable, PruneRows,
       ClearRows, PatchDefaultTable, PatchDefaultCard, DropConcept, InsertLine
  <2>10. Goes
    BY <2>5, <2>6, <2>7, <2>8, <2>9, Zenon DEF Aside
  <2>11. QED
    BY <2>10 DEF Goes
<1>5. QED
  BY <1>1, <1>2, <1>4

LEMMA AsideCards ==
  ASSUME Typed, NEW r \in Request, Aside(r), NEW c \in Card
  PROVE  card'[c].stage = card[c].stage \/ card'[c].stage \in {"whole", "gone"}
<1>1. card' = card \/ UpdateRateCard(r) \/ DropRateCard(r) \/ UpsertEntries(r)
  BY DEF Aside, data, RequireRateCardInOrg, ReadVersion, PostTable, RequireRateInOrg, DropTable,
     UpsertRows, PruneRows, ClearRows, PatchDefaultTable, ValidateRateCard, PatchDefaultCard,
     IsConceptInUse, DropConcept, ConceptBelongsToOrg, InsertLine, ReadTables, ReadKeys, ReadClients
<1>2. CASE UpdateRateCard(r)
  <2>1. card' = card \/ card' = [card EXCEPT ![loc[r].card].name = loc[r].name]
    BY <1>2 DEF UpdateRateCard
  <2>2. card[c] \in [stage : CardStage, name : Name \cup {None}, source : Tier \cup {None}]
    BY DEF Typed, TypeOK
  <2>3. card'[c] = card[c] \/ card'[c] = [card[c] EXCEPT !.name = loc[r].name]
    BY <2>1 DEF Typed, TypeOK
  <2>4. QED
    BY <2>2, <2>3
<1>3. CASE DropRateCard(r)
  BY <1>3 DEF DropRateCard, Typed, TypeOK, NoCard
<1>4. CASE UpsertEntries(r)
  BY <1>4 DEF UpsertEntries, Typed, TypeOK
<1>5. QED
  BY <1>1, <1>2, <1>3, <1>4

LEMMA CardsStep == Typed /\ Cards /\ [Next]_vars => Cards'
<1> SUFFICES ASSUME Typed, Cards, [Next]_vars PROVE Cards'
  OBVIOUS
<1>1. ASSUME NEW r \in Request, Start(r) PROVE Cards'
  <2>1. pc[r] = "idle" /\ UNCHANGED <<card, broken>>
    BY <1>1, StartBegins DEF data
  <2>2. PICK c \in FirstCall : \E l : Goto(r, c, l)
    BY <1>1, StartBegins
  <2>3. /\ pc'[r] # "entries"
        /\ \A s \in Request \ {r} : pc'[s] = pc[s] /\ loc'[s] = loc[s]
    BY <2>2, GotoAlone DEF FirstCall
  <2>4. QED
    BY <2>1, <2>3, CardsKept
<1>2. ASSUME NEW r \in Request, Aside(r) PROVE Cards'
  <2>1. pc[r] \notin {"version", "entries"} /\ broken' = broken
    BY <1>2, AsideGoes DEF AsideCall
  <2>2. PICK c \in Pc \ {"version", "entries"} : \E l : Goto(r, c, l)
    BY <1>2, AsideGoes
  <2>3. /\ pc'[r] # "entries"
        /\ \A s \in Request \ {r} : pc'[s] = pc[s] /\ loc'[s] = loc[s]
    BY <2>2, GotoAlone
  <2>4. QED
    BY <1>2, <2>1, <2>3, AsideCards, CardsKept
<1>3. ASSUME NEW r \in Request, PostCard(r) PROVE Cards'
  <2>1. CASE Finish(r) /\ UNCHANGED card
    <3>1. /\ pc'[r] = "idle" /\ pc[r] = "card" /\ broken' = broken /\ card' = card
          /\ \A s \in Request \ {r} : pc'[s] = pc[s] /\ loc'[s] = loc[s]
      BY <1>3, <2>1, GotoAlone DEF PostCard, Finish, history
    <3>2. QED
      BY <3>1, CardsKept
  <2>2. CASE \E c \in Card : /\ card[c].stage = "absent"
                             /\ card' = [card EXCEPT ![c] =
                                  [stage |-> "bare", name |-> loc[r].name, source |-> None]]
                             /\ Goto(r, "version", [loc[r] EXCEPT !.card = c])
    <3>1. PICK c \in Card : /\ card[c].stage = "absent"
                            /\ card' = [card EXCEPT ![c] =
                                 [stage |-> "bare", name |-> loc[r].name, source |-> None]]
                            /\ Goto(r, "version", [loc[r] EXCEPT !.card = c])
      BY <2>2
    <3>2. /\ pc'[r] = "version" /\ loc'[r] = [loc[r] EXCEPT !.card = c]
          /\ \A s \in Request \ {r} : pc'[s] = pc[s] /\ loc'[s] = loc[s]
      BY <3>1, GotoAlone
    <3>3. loc'[r].card = c /\ pc[r] = "card" /\ broken' = broken
      BY <1>3, <3>2 DEF PostCard, history, Typed, TypeOK, Local
    <3>4. \A d \in Card \ {c} : card'[d] = card[d]
      BY <3>1 DEF Typed, TypeOK
    <3>5. CardWholeOrBroken'
      <4>1. SUFFICES ASSUME NEW d \in Card, d # c, card'[d].stage \in {"bare", "unpriced"}, ~broken'[d]
                     PROVE  Creating(d)'
        BY <3>2, <3>3 DEF CardWholeOrBroken, Creating
      <4>2. PICK s \in Request : pc[s] \in {"version", "entries"} /\ loc[s].card = d
        BY <3>3, <3>4, <4>1 DEF Cards, CardWholeOrBroken, Creating
      <4>3. QED
        BY <3>2, <3>3, <4>2 DEF Creating
    <3>6. Versioned'
      <4>1. SUFFICES ASSUME NEW s \in Request, pc'[s] = "entries"
                     PROVE  card'[loc'[s].card].stage \notin {"absent", "bare"}
        BY DEF Versioned
      <4>2. pc[s] = "entries" /\ loc'[s] = loc[s] /\ loc[s].card \in Card
        BY <3>2, <4>1 DEF Typed, Held, HeldBy
      <4>3. QED
        BY <3>1, <3>4, <4>2 DEF Cards, Versioned
    <3>7. QED
      BY <3>5, <3>6 DEF Cards
  <2>3. QED
    BY <1>3, <2>1, <2>2 DEF PostCard
<1>4. ASSUME NEW r \in Request, PostVersion(r) PROVE Cards'
  <2> DEFINE c == loc[r].card
  <2>1. pc[r] = "version" /\ c \in Card /\ loc[r] \in Local
    BY <1>4 DEF PostVersion, Typed, TypeOK, Held, HeldBy
  <2>2. CASE Finish(r) /\ broken' = [broken EXCEPT ![c] = TRUE] /\ UNCHANGED card
    <3>1. /\ pc'[r] = "idle" /\ broken'[c] /\ card' = card
          /\ \A d \in Card : broken[d] => broken'[d]
          /\ \A s \in Request \ {r} : pc'[s] = pc[s] /\ loc'[s] = loc[s]
      BY <2>1, <2>2, GotoAlone DEF Finish, Typed, TypeOK
    <3>2. QED
      BY <3>1, CardsKept
  <2>3. CASE /\ card' = [card EXCEPT ![c].stage = "unpriced", ![c].source = loc[r].source]
             /\ Then(r, "entries") /\ UNCHANGED broken
    <3>1. /\ pc'[r] = "entries" /\ loc'[r] = loc[r]
          /\ \A s \in Request \ {r} : pc'[s] = pc[s] /\ loc'[s] = loc[s]
      BY <2>3, GotoAlone DEF Then
    <3>2. card'[c].stage = "unpriced" /\ \A d \in Card \ {c} : card'[d] = card[d]
      BY <2>1, <2>3 DEF Typed, TypeOK
    <3>3. CardWholeOrBroken'
      <4>1. SUFFICES ASSUME NEW d \in Card, d # c, card'[d].stage \in {"bare", "unpriced"}, ~broken'[d]
                     PROVE  Creating(d)'
        BY <3>1 DEF CardWholeOrBroken, Creating
      <4>2. PICK s \in Request : pc[s] \in {"version", "entries"} /\ loc[s].card = d
        BY <2>3, <3>2, <4>1 DEF Cards, CardWholeOrBroken, Creating
      <4>3. QED
        BY <3>1, <4>1, <4>2 DEF Creating
    <3>4. Versioned'
      <4>1. SUFFICES ASSUME NEW s \in Request, s # r, pc'[s] = "entries"
                     PROVE  card'[loc'[s].card].stage \notin {"absent", "bare"}
        BY <3>1, <3>2 DEF Versioned
      <4>2. pc[s] = "entries" /\ loc'[s] = loc[s] /\ loc[s].card \in Card
        BY <3>1, <4>1 DEF Typed, Held, HeldBy
      <4>3. QED
        BY <3>2, <4>2 DEF Cards, Versioned
    <3>5. QED
      BY <3>3, <3>4 DEF Cards
  <2>4. QED
    BY <1>4, <2>2, <2>3 DEF PostVersion
<1>5. ASSUME NEW r \in Request, PostEntries(r) PROVE Cards'
  <2> DEFINE c == loc[r].card
             regular == IF loc[r].source = Regular THEN c ELSE loc[r].regular
  <2>1. pc[r] = "entries" /\ c \in Card /\ broken' = broken
    BY <1>5 DEF PostEntries, Typed, TypeOK, Held, HeldBy, history
  <2>2. card[c].stage \in {"unpriced", "whole", "gone"}
    BY <2>1 DEF Cards, Versioned, Typed, TypeOK, CardStage
  <2>3. \/ card[c].stage # "unpriced" /\ card' = card
        \/ card' = [card EXCEPT ![c].stage = "whole"]
    BY <1>5 DEF PostEntries
  <2>4. /\ card'[c].stage \in {"whole", "gone"}
        /\ \A d \in Card : card'[d].stage = card[d].stage \/ card'[d].stage \in {"whole", "gone"}
    BY <2>1, <2>2, <2>3, SMTT(30) DEF Typed, TypeOK
  <2>5. \E call \in Pc \ {"version", "entries"} : \E l : Goto(r, call, l)
    <3>1. Finish(r) \/ GoOn(r, loc[r].plan, regular)
      BY <1>5 DEF PostEntries
    <3>2. {"idle", "card", "clients"} \subseteq Pc \ {"version", "entries"}
      BY DEF Pc
    <3> HIDE DEF regular
    <3>3. QED
      BY <3>1, <3>2 DEF Finish, GoOn
  <2>6. /\ pc'[r] # "entries"
        /\ \A s \in Request \ {r} : pc'[s] = pc[s] /\ loc'[s] = loc[s]
    BY <2>5, GotoAlone
  <2>7. QED
    BY <2>1, <2>4, <2>6, CardsKept
<1>6. ASSUME NEW r \in Request, Abandon(r) PROVE Cards'
  <2>1. /\ pc'[r] = "idle" /\ card' = card
        /\ \A s \in Request \ {r} : pc'[s] = pc[s] /\ loc'[s] = loc[s]
    BY <1>6, GotoAlone DEF Abandon, Finish, data
  <2>2. \A d \in Card : broken'[d] <=> broken[d] \/ (pc[r] \in {"version", "entries"} /\ loc[r].card = d)
    BY <1>6 DEF Abandon
  <2>3. pc[r] \in {"version", "entries"} => loc[r].card \in Card
    BY DEF Typed, Held, HeldBy
  <2>4. QED
    BY <2>1, <2>2, <2>3, CardsKept
<1>7. CASE CreateChargeConcept
  BY <1>7 DEF CreateChargeConcept, job, Cards, CardWholeOrBroken, Versioned, Creating
<1>8. CASE UNCHANGED vars
  BY <1>8 DEF vars, data, job, history, Cards, CardWholeOrBroken, Versioned, Creating
<1>9. QED
  BY <1>1, <1>2, <1>3, <1>4, <1>5, <1>6, <1>7, <1>8, Zenon DEF Next, Continue, Aside

(* No save, rename or delete that runs meanwhile leaves a card on the list    *)
(* that cannot price: only a creation that stopped half way does.            *)
THEOREM CardsHold == Spec => []CardWholeOrBroken
<1>1. Init => Cards
  BY DEF Init, NoCard, Cards, CardWholeOrBroken, Versioned
<1>2. Cards => CardWholeOrBroken
  BY DEF Cards
<1>3. QED
  BY <1>1, <1>2, RatesTypedInitially, RatesTypedStep, CardsStep, PTL DEF Spec

-----------------------------------------------------------------------------
(* Rows.  What a save has put in place is still there when it prunes, unless *)
(* another save came between, or the table has been emptied.                 *)
Saving(r, t) == pc[r] = "pruneRows" /\ loc[r].table = t

Empty == \A t \in Table : table[t].stage = "absent" => table[t].rows = {}
SavedStay ==
  \A r \in Request, t \in Table : Saving(r, t) =>
    \/ overlapped[t]
    \/ table[t].rows = {}
    \/ loc[r].rows # {} /\ loc[r].rows \subseteq table[t].rows
TwoOverlap ==
  \A r, s \in Request, t \in Table : r # s /\ Saving(r, t) /\ Saving(s, t) => overlapped[t]

Rows == Empty /\ SavedStay /\ TwoOverlap

Lost(t) ==
  table[t].rows # {} /\ table'[t].rows = {} =>
    \/ table'[t].stage = "gone" \/ overlapped[t]
    \/ \E r \in Request : pc[r] = "clearRows" /\ pc'[r] = "idle" /\ loc[r].table = t

(* A step that is not a save may empty a table, or leave it as it is. *)
LEMMA RowsKept ==
  ASSUME Typed, Rows, NEW r \in Request,
         \A s \in Request \ {r} : pc'[s] = pc[s] /\ loc'[s] = loc[s],
         pc'[r] # "pruneRows",
         overlapped' = overlapped,
         \A t \in Table : /\ table'[t].rows \in {table[t].rows, {}}
                          /\ table'[t].stage = "absent" => table[t].stage = "absent"
  PROVE  Rows'
<1>1. \A s \in Request, t \in Table : Saving(s, t)' => Saving(s, t) /\ loc'[s] = loc[s]
  BY DEF Saving
<1>2. Empty'
  BY DEF Rows, Empty
<1>3. SavedStay'
  <2>1. SUFFICES ASSUME NEW s \in Request, NEW t \in Table, Saving(s, t)', ~overlapped'[t],
                        table'[t].rows # {}
                 PROVE  loc'[s].rows # {} /\ loc'[s].rows \subseteq table'[t].rows
    BY DEF SavedStay
  <2>2. Saving(s, t) /\ loc'[s] = loc[s] /\ table'[t].rows = table[t].rows /\ ~overlapped[t]
    BY <1>1, <2>1
  <2>3. QED
    BY <2>1, <2>2 DEF Rows, SavedStay
<1>4. TwoOverlap'
  BY <1>1 DEF Rows, TwoOverlap
<1>5. QED
  BY <1>2, <1>3, <1>4 DEF Rows

(* The calls that leave the rows alone. *)
LEMMA NotARow ==
  ASSUME Typed, NEW r \in Request,
         Continue(r), ~PostTable(r), ~DropTable(r), ~UpsertRows(r), ~PruneRows(r), ~ClearRows(r)
  PROVE  UNCHANGED <<table, overlapped>>
<1>1. UNCHANGED table
  BY DEF Continue, data, PostCard, PostVersion, PostEntries, RequireRateCardInOrg, UpdateRateCard,
     DropRateCard, ReadVersion, UpsertEntries, RequireRateInOrg, PatchDefaultTable,
     ValidateRateCard, PatchDefaultCard, IsConceptInUse, DropConcept, ConceptBelongsToOrg,
     InsertLine, ReadTables, ReadKeys, ReadClients
<1>2. UNCHANGED overlapped
  BY DEF Continue, history, PostCard, PostVersion, PostEntries, RequireRateCardInOrg, UpdateRateCard,
     DropRateCard, ReadVersion, UpsertEntries, RequireRateInOrg, PatchDefaultTable,
     ValidateRateCard, PatchDefaultCard, IsConceptInUse, DropConcept, ConceptBelongsToOrg,
     InsertLine, ReadTables, ReadKeys, ReadClients
<1>3. QED
  BY <1>1, <1>2

(* Only the first half of a save leads to the second. *)
LEMMA NotASave ==
  ASSUME Typed, NEW r \in Request, Continue(r), ~UpsertRows(r)
  PROVE  /\ pc'[r] # "pruneRows"
         /\ \A s \in Request \ {r} : pc'[s] = pc[s] /\ loc'[s] = loc[s]
<1> DEFINE Goes == \E c \in Pc \ {"pruneRows"} : \E l : Goto(r, c, l)
<1>1. {"idle", "version", "entries", "upsertEntries", "defaultCard", "dropConcept", "line",
       "keys", "clients", "card"} \subseteq Pc \ {"pruneRows"}
  BY DEF Pc
<1>2. Finish(r) => Goes
  BY <1>1 DEF Finish
<1>3. ASSUME NEW c \in Pc \ {"pruneRows"}, Then(r, c) PROVE Goes
  BY <1>3, Zenon DEF Then
<1>4. (\E plan, regular : GoOn(r, plan, regular)) => Goes
  BY <1>1 DEF GoOn
<1>5. RequireRateCardInOrg(r) \/ RequireRateInOrg(r) => Goes
  <2>1. RequireRateCardInOrg(r) \/ RequireRateInOrg(r) => loc[r].do \in Pc \ {"pruneRows"}
    BY DEF RequireRateCardInOrg, RequireRateInOrg, Typed, Held, HeldBy, Pc
  <2> HIDE DEF Goes
  <2>2. QED
    BY <1>2, <1>3, <2>1 DEF RequireRateCardInOrg, RequireRateInOrg
<1>6. ReadTables(r) \/ ReadClients(r) \/ PostCard(r) => Goes
  <2>1. ReadTables(r) => Goes
    BY <1>1 DEF ReadTables
  <2>2. ReadClients(r) => Goes
    BY <1>1, <1>2 DEF ReadClients
  <2>3. PostCard(r) => Goes
    BY <1>1, <1>2 DEF PostCard
  <2>4. QED
    BY <2>1, <2>2, <2>3
<1>7. ReadKeys(r) \/ PostEntries(r) => Goes
  BY <1>2, <1>4, Zenon DEF ReadKeys, PostEntries
<1> HIDE DEF Goes
<1>8. ReadVersion(r) \/ PostVersion(r) \/ ValidateRateCard(r) \/ IsConceptInUse(r)
        \/ ConceptBelongsToOrg(r) => Goes
  BY <1>1, <1>2, <1>3 DEF ReadVersion, PostVersion, ValidateRateCard, IsConceptInUse,
     ConceptBelongsToOrg
<1>9. UpdateRateCard(r) \/ DropRateCard(r) \/ UpsertEntries(r) \/ PostTable(r) \/ DropTable(r)
        \/ PruneRows(r) \/ ClearRows(r) \/ PatchDefaultTable(r) \/ PatchDefaultCard(r)
        \/ DropConcept(r) \/ InsertLine(r) => Goes
  BY <1>2 DEF UpdateRateCard, DropRateCard, UpsertEntries, PostTable, DropTable, PruneRows,
     ClearRows, PatchDefaultTable, PatchDefaultCard, DropConcept, InsertLine
<1>10. Goes
  BY <1>5, <1>6, <1>7, <1>8, <1>9, Zenon DEF Continue
<1>11. PICK c \in Pc \ {"pruneRows"} : \E l : Goto(r, c, l)
  BY <1>10 DEF Goes
<1>12. QED
  BY <1>11, GotoAlone

LEMMA RowsStep ==
  ASSUME Typed, Rows, [Next]_vars
  PROVE  Rows' /\ \A t \in Table : Lost(t)
<1>1. ASSUME NEW r \in Request, Start(r) PROVE Rows' /\ \A t \in Table : Lost(t)
  <2>1. UNCHANGED <<table, overlapped>>
    BY <1>1, StartBegins DEF data
  <2>2. PICK c \in FirstCall : \E l : Goto(r, c, l)
    BY <1>1, StartBegins
  <2>3. /\ pc'[r] # "pruneRows"
        /\ \A s \in Request \ {r} : pc'[s] = pc[s] /\ loc'[s] = loc[s]
    BY <2>2, GotoAlone DEF FirstCall
  <2>4. QED
    BY <2>1, <2>3, RowsKept DEF Lost
<1>2. ASSUME NEW r \in Request, Continue(r), ~PostTable(r), ~DropTable(r), ~UpsertRows(r),
             ~PruneRows(r), ~ClearRows(r)
      PROVE  Rows' /\ \A t \in Table : Lost(t)
  <2>1. UNCHANGED <<table, overlapped>>
    BY <1>2, NotARow
  <2>2. /\ pc'[r] # "pruneRows"
        /\ \A s \in Request \ {r} : pc'[s] = pc[s] /\ loc'[s] = loc[s]
    BY <1>2, NotASave
  <2>3. QED
    BY <2>1, <2>2, RowsKept DEF Lost
<1>3. ASSUME NEW r \in Request, PostTable(r) PROVE Rows' /\ \A t \in Table : Lost(t)
  <2>1. /\ pc'[r] # "pruneRows" /\ overlapped' = overlapped
        /\ \A s \in Request \ {r} : pc'[s] = pc[s] /\ loc'[s] = loc[s]
    BY <1>3, NotASave DEF Continue, PostTable, UpsertRows, history
  <2>2. \A t \in Table : table'[t].rows = table[t].rows
                           /\ (table'[t].stage = "absent" => table[t].stage = "absent")
    <3>1. CASE UNCHANGED table
      BY <3>1
    <3>2. CASE \E t \in Table : /\ table[t].stage = "absent"
                                /\ table' = [table EXCEPT ![t] =
                                     [stage |-> "there", freight |-> loc[r].freight, rows |-> {}]]
      <4>1. PICK t \in Table :
              /\ table[t].stage = "absent"
              /\ table' = [table EXCEPT ![t] =
                   [stage |-> "there", freight |-> loc[r].freight, rows |-> {}]]
        BY <3>2
      <4>2. /\ table'[t].rows = {} /\ table'[t].stage = "there"
            /\ \A v \in Table \ {t} : table'[v] = table[v]
        BY <4>1 DEF Typed, TypeOK
      <4>3. table[t].rows = {}
        BY <4>1 DEF Rows, Empty
      <4>4. QED
        BY <4>1, <4>2, <4>3
    <3>3. QED
      BY <1>3, <3>1, <3>2 DEF PostTable
  <2>3. QED
    BY <2>1, <2>2, RowsKept DEF Lost
<1>4. ASSUME NEW r \in Request, DropTable(r) PROVE Rows' /\ \A t \in Table : Lost(t)
  <2>1. /\ pc'[r] # "pruneRows" /\ overlapped' = overlapped
        /\ \A s \in Request \ {r} : pc'[s] = pc[s] /\ loc'[s] = loc[s]
    BY <1>4, NotASave DEF Continue, DropTable, UpsertRows, history
  <2>2. table' = [table EXCEPT ![loc[r].table] = [NoTable EXCEPT !.stage = "gone"]]
    BY <1>4 DEF DropTable
  <2>3. \A t \in Table : \/ table'[t] = table[t]
                         \/ table'[t].rows = {} /\ table'[t].stage = "gone"
    BY <2>2 DEF Typed, TypeOK, NoTable
  <2>4. QED
    BY <2>1, <2>3, RowsKept DEF Lost
<1>5. ASSUME NEW r \in Request, ClearRows(r) PROVE Rows' /\ \A t \in Table : Lost(t)
  <2>1. /\ pc'[r] = "idle" /\ pc[r] = "clearRows" /\ overlapped' = overlapped
        /\ \A s \in Request \ {r} : pc'[s] = pc[s] /\ loc'[s] = loc[s]
    BY <1>5, GotoAlone DEF ClearRows, Finish, history
  <2>2. table' = [table EXCEPT ![loc[r].table].rows = {}]
    BY <1>5 DEF ClearRows
  <2>3. \A t \in Table \ {loc[r].table} : table'[t] = table[t]
    BY <2>2 DEF Typed, TypeOK
  <2>4. \A t \in Table : t = loc[r].table => table'[t].rows = {} /\ table'[t].stage = table[t].stage
    BY <2>2 DEF Typed, TypeOK
  <2>5. QED
    BY <2>1, <2>3, <2>4, RowsKept DEF Lost
<1>6. ASSUME NEW r \in Request, UpsertRows(r) PROVE Rows' /\ \A t \in Table : Lost(t)
  <2> DEFINE u == loc[r].table
  <2>1. pc[r] = "upsertRows" /\ u \in Table /\ loc[r].rows # {}
    BY <1>6 DEF UpsertRows, Typed, Held, HeldBy
  <2>2. CASE Finish(r) /\ UNCHANGED <<table, overlapped>>
    <3>1. /\ pc'[r] = "idle"
          /\ \A s \in Request \ {r} : pc'[s] = pc[s] /\ loc'[s] = loc[s]
      BY <2>2, GotoAlone DEF Finish
    <3>2. QED
      BY <2>2, <3>1, RowsKept DEF Lost
  <2>3. CASE /\ table' = [table EXCEPT ![u].rows = @ \cup loc[r].rows]
             /\ overlapped' = [overlapped EXCEPT ![u] =
                  \E s \in Request \ {r} : pc[s] = "pruneRows" /\ loc[s].table = u]
             /\ Then(r, "pruneRows")
    <3>1. /\ pc'[r] = "pruneRows" /\ loc'[r] = loc[r]
          /\ \A s \in Request \ {r} : pc'[s] = pc[s] /\ loc'[s] = loc[s]
      BY <2>3, GotoAlone DEF Then
    <3>2. /\ \A t \in Table \ {u} : table'[t] = table[t] /\ overlapped'[t] = overlapped[t]
          /\ overlapped'[u] <=> \E s \in Request \ {r} : Saving(s, u)
      BY <2>1, <2>3 DEF Typed, TypeOK, Saving
    <3>3. table'[u].rows = table[u].rows \cup loc[r].rows /\ table'[u].stage = table[u].stage
      BY <2>1, <2>3 DEF Typed, TypeOK
    <3>4. Empty'
      <4>1. table[u].stage # "absent"
        BY <1>6, <2>3, <3>1, GotoAlone DEF UpsertRows, TableThere, Finish
      <4>2. QED
        BY <3>2, <3>3, <4>1 DEF Rows, Empty
    <3>5. \A s \in Request \ {r}, t \in Table : Saving(s, t)' <=> Saving(s, t)
      BY <3>1 DEF Saving
    <3>6. \A t \in Table : Saving(r, t)' <=> t = u
      BY <2>1, <3>1 DEF Saving
    <3>7. SavedStay'
      <4>1. SUFFICES ASSUME NEW s \in Request, NEW t \in Table, Saving(s, t)', ~overlapped'[t]
                     PROVE  \/ table'[t].rows = {}
                            \/ loc'[s].rows # {} /\ loc'[s].rows \subseteq table'[t].rows
        BY DEF SavedStay
      <4>2. CASE s = r
        BY <2>1, <3>1, <3>3, <3>6, <4>1, <4>2
      <4>3. CASE s # r
        <5>1. Saving(s, t) /\ t # u /\ loc'[s] = loc[s]
          BY <3>1, <3>2, <3>5, <4>1, <4>3
        <5>2. QED
          BY <3>2, <4>1, <5>1 DEF Rows, SavedStay
      <4>4. QED
        BY <4>2, <4>3
    <3>8. TwoOverlap'
      <4>1. SUFFICES ASSUME NEW s \in Request, NEW w \in Request, NEW t \in Table, s # w,
                            Saving(s, t)', Saving(w, t)'
                     PROVE  overlapped'[t]
        BY DEF TwoOverlap
      <4>2. CASE t = u
        BY <3>2, <3>5, <4>1, <4>2
      <4>3. CASE t # u
        BY <3>2, <3>5, <3>6, <4>1, <4>3 DEF Rows, TwoOverlap
      <4>4. QED
        BY <4>2, <4>3
    <3>9. \A t \in Table : Lost(t)
      BY <3>2, <3>3 DEF Lost
    <3>10. QED
      BY <3>4, <3>7, <3>8, <3>9 DEF Rows
  <2>4. QED
    BY <1>6, <2>2, <2>3 DEF UpsertRows
<1>7. ASSUME NEW r \in Request, PruneRows(r) PROVE Rows' /\ \A t \in Table : Lost(t)
  <2> DEFINE u == loc[r].table
  <2>1. pc[r] = "pruneRows" /\ u \in Table /\ overlapped' = overlapped
    BY <1>7 DEF PruneRows, Typed, Held, HeldBy, history
  <2>2. /\ pc'[r] = "idle"
        /\ \A s \in Request \ {r} : pc'[s] = pc[s] /\ loc'[s] = loc[s]
    BY <1>7, GotoAlone DEF PruneRows, Finish
  <2>3. table' = [table EXCEPT ![u].rows = @ \cap loc[r].rows]
    BY <1>7 DEF PruneRows
  <2>4. \A t \in Table \ {u} : table'[t] = table[t]
    BY <2>1, <2>3 DEF Typed, TypeOK
  <2>5. table'[u].rows = table[u].rows \cap loc[r].rows /\ table'[u].stage = table[u].stage
    BY <2>1, <2>3 DEF Typed, TypeOK
  <2>6. \A s \in Request, t \in Table : Saving(s, t)' => s # r /\ Saving(s, t) /\ loc'[s] = loc[s]
    BY <2>2 DEF Saving
  <2>7. Empty'
    BY <2>4, <2>5 DEF Rows, Empty
  <2>8. TwoOverlap'
    BY <2>1, <2>6 DEF Rows, TwoOverlap
  <2>9. SavedStay'
    <3>1. SUFFICES ASSUME NEW s \in Request, NEW t \in Table, Saving(s, t)', ~overlapped'[t]
                   PROVE  \/ table'[t].rows = {}
                          \/ loc'[s].rows # {} /\ loc'[s].rows \subseteq table'[t].rows
      BY DEF SavedStay
    <3>2. s # r /\ Saving(s, t) /\ loc'[s] = loc[s] /\ ~overlapped[t]
      BY <2>1, <2>6, <3>1
    <3>3. t # u
      BY <2>1, <3>2 DEF Rows, TwoOverlap, Saving
    <3>4. QED
      BY <2>4, <3>2, <3>3 DEF Rows, SavedStay
  <2>10. \A t \in Table : Lost(t)
    <3>1. SUFFICES ASSUME table[u].rows # {}, table'[u].rows = {} PROVE overlapped[u]
      BY <2>4 DEF Lost
    <3>2. Saving(r, u)
      BY <2>1 DEF Saving
    <3>3. QED
      BY <2>1, <2>5, <3>1, <3>2 DEF Rows, SavedStay
  <2>11. QED
    BY <2>7, <2>8, <2>9, <2>10 DEF Rows
<1>8. ASSUME NEW r \in Request, Abandon(r) PROVE Rows' /\ \A t \in Table : Lost(t)
  <2>1. /\ pc'[r] = "idle" /\ UNCHANGED <<table, overlapped>>
        /\ \A s \in Request \ {r} : pc'[s] = pc[s] /\ loc'[s] = loc[s]
    BY <1>8, GotoAlone DEF Abandon, Finish, data
  <2>2. QED
    BY <2>1, RowsKept DEF Lost
<1>9. CASE CreateChargeConcept
  BY <1>9 DEF CreateChargeConcept, job, Rows, Empty, SavedStay, TwoOverlap, Saving, Lost
<1>10. CASE UNCHANGED vars
  BY <1>10 DEF vars, data, job, history, Rows, Empty, SavedStay, TwoOverlap, Saving, Lost
<1>11. QED
  BY <1>1, <1>2, <1>3, <1>4, <1>5, <1>6, <1>7, <1>8, <1>9, <1>10, Zenon DEF Next

(* The rows of a table all go only when a save says so, the table is deleted, *)
(* or two saves overlap: a save that is cut off leaves some.                 *)
THEOREM RowsHold == Spec => PricesLostOnlyByOverlap
<1>1. Init => Rows
  BY DEF Init, NoTable, Rows, Empty, SavedStay, TwoOverlap, Saving
<1>2. Typed /\ Rows /\ [Next]_vars => Rows'
  BY RowsStep
<1>3. Typed /\ Rows /\ [Next]_vars =>
        [\A t \in Table : table[t].rows # {} /\ table'[t].rows = {} =>
           \/ table'[t].stage = "gone" \/ overlapped[t]
           \/ \E r \in Request : pc[r] = "clearRows" /\ pc'[r] = "idle" /\ loc[r].table = t]_vars
  BY RowsStep DEF Lost
<1>4. QED
  BY <1>1, <1>2, <1>3, RatesTypedInitially, RatesTypedStep, PTL
     DEF Spec, PricesLostOnlyByOverlap

-----------------------------------------------------------------------------
(* The quote.  Every step of AgencyRates it makes is one of theirs. *)
LEMMA QuoteStepIsRatesStep == [QuoteNext]_allVars => [Next]_vars
BY DEF QuoteNext, allVars

(* Pricing reads what AgencyRates writes, and writes none of it. *)
LEMMA QuoteRuns == QuoteSpec => Spec
<1>1. QuoteInit => Init
  BY DEF QuoteInit
<1>2. QED
  BY <1>1, QuoteStepIsRatesStep, PTL DEF QuoteSpec, Spec

QuoteTyped ==
  /\ step \in Step
  /\ bill \in Bill
  /\ charge \in Source \cup {None}
  /\ steady \subseteq Card

LEMMA WatchTyped == steady \subseteq Card /\ Watch => steady' \subseteq Card
BY DEF Watch

LEMMA QuoteTypedStep ==
  ASSUME Typed, QuoteTyped, [QuoteNext]_allVars
  PROVE  QuoteTyped'
<1>1. CASE Next /\ UNCHANGED <<step, bill, charge>> /\ Watch
  BY <1>1, WatchTyped DEF QuoteTyped
<1>2. CASE UNCHANGED allVars
  BY <1>2 DEF allVars, quoteVars, QuoteTyped
<1>3. CASE Quoting /\ UNCHANGED vars /\ Watch
  <2>1. steady' \subseteq Card
    BY <1>3, WatchTyped DEF QuoteTyped
  <2>2. NoBill \in Bill
    BY RatesAssumption DEF NoBill, Bill, Kind, Freight
  <2>3. ASSUME NEW kind \in Kind, NEW f \in Freight, NEW t \in Tier,
               NEW rate \in {None} \cup Card \cup Table, BillPackages(kind, f, t, rate)
        PROVE  QuoteTyped'
    <3>1. bill' \in Bill
      BY <2>2, <2>3 DEF BillPackages, Bill
    <3>2. QED
      BY <2>1, <2>3, <3>1 DEF BillPackages, QuoteTyped, Step
  <2>4. CASE ReadDefaultCard
    <3>1. PICK rate : /\ rate \in {bill.rate, dfltCard, dfltTable["client"], None}
                      /\ bill' = [bill EXCEPT !.rate = rate]
      BY <2>4 DEF ReadDefaultCard
    <3>2. dfltTable["client"] \in {None} \cup Table /\ dfltCard \in {None} \cup Card
      BY DEF Typed, TypeOK, Holder
    <3>3. bill' \in Bill
      BY <3>1, <3>2 DEF QuoteTyped, Bill
    <3>4. QED
      BY <2>1, <2>4, <3>3 DEF ReadDefaultCard, QuoteTyped, Step
  <2>5. CASE ReadDefaultTable
    <3>1. dfltTable["client"] \in {None} \cup Table
      BY DEF Typed, TypeOK, Holder
    <3>2. bill' \in Bill
      BY <2>5, <3>1 DEF ReadDefaultTable, QuoteTyped, Bill
    <3>3. QED
      BY <2>1, <2>5, <3>2 DEF ReadDefaultTable, QuoteTyped, Step
  <2>6. CASE GetOrgRateCards
    <3>1. bill' \in Bill
      BY <2>6 DEF GetOrgRateCards, QuoteTyped, Bill, Whole
    <3>2. QED
      BY <2>1, <2>6, <3>1 DEF GetOrgRateCards, QuoteTyped
  <2>7. CASE GetOrgRates
    <3>1. bill' \in Bill
      BY <2>7 DEF GetOrgRates, QuoteTyped, Bill
    <3>2. QED
      BY <2>1, <2>7, <3>1 DEF GetOrgRates, QuoteTyped
  <2>8. CASE Price
    <3>1. bill.rate \in Card \cup Table \cup {None} /\ bill.whole \subseteq Card
            /\ bill.tables \subseteq Table
      BY DEF QuoteTyped, Bill
    <3>2. ResolveOrgRate(bill) \subseteq Source
      BY <3>1 DEF ResolveOrgRate, Source
    <3>3. QuoteOrg(bill) \subseteq Source \cup {None}
      BY <3>2 DEF QuoteOrg, Source
    <3>4. QED
      BY <2>1, <2>2, <2>8, <3>3 DEF Price, QuoteTyped, Step
  <2>9. CASE Answer
    BY <2>1, <2>2, <2>9 DEF Answer, QuoteTyped, Step
  <2>10. QED
    BY <1>3, <2>3, <2>4, <2>5, <2>6, <2>7, <2>8, <2>9 DEF Quoting
<1>4. QED
  BY <1>1, <1>2, <1>3 DEF QuoteNext

LEMMA QuoteTypedInitially == QuoteInit => QuoteTyped
BY RatesAssumption DEF QuoteInit, QuoteTyped, NoBill, Bill, Kind, Freight, Step

(* The types of the quote, and with them those of the rates it reads. *)
THEOREM QuoteTypeCorrect == QuoteSpec => []QuoteTypeOK
<1>1. Typed /\ QuoteTyped => QuoteTypeOK
  BY DEF Typed, QuoteTyped, QuoteTypeOK
<1>2. QuoteInit => Typed
  BY RatesTypedInitially DEF QuoteInit
<1>3. Typed /\ [QuoteNext]_allVars => Typed'
  BY QuoteStepIsRatesStep, RatesTypedStep
<1>4. Typed /\ QuoteTyped /\ [QuoteNext]_allVars => QuoteTyped'
  BY QuoteTypedStep
<1>5. QED
  BY <1>1, <1>2, <1>3, <1>4, QuoteTypedInitially, PTL DEF QuoteSpec

(* A card that has had its prices since the request began is still on the     *)
(* list, and was there with its prices when the request read the cards.      *)
Watched ==
  /\ step # "idle" => steady \subseteq Whole
  /\ "cards" \in bill.got => steady \subseteq bill.whole
  /\ step = "priced" => "cards" \in bill.got
  /\ ChargedOwnPrice

LEMMA WatchedStep ==
  ASSUME Typed, QuoteTyped, Watched, [QuoteNext]_allVars
  PROVE  Watched'
<1>1. CASE UNCHANGED allVars
  BY <1>1 DEF allVars, quoteVars, vars, data, Watched, ChargedOwnPrice, Whole
<1>2. CASE Next /\ UNCHANGED <<step, bill, charge>> /\ Watch
  <2>1. CASE step = "idle"
    BY <1>2, <2>1 DEF Watch, Watched, ChargedOwnPrice
  <2>2. CASE step # "idle"
    <3>1. steady' = steady \cap Whole'
      BY <1>2, <2>2 DEF Watch
    <3>2. QED
      BY <1>2, <3>1 DEF Watched, ChargedOwnPrice
  <2>3. QED
    BY <2>1, <2>2
<1>3. CASE Quoting /\ UNCHANGED vars /\ Watch
  <2>1. Whole' = Whole
    BY <1>3 DEF vars, data, Whole
  <2>2. ASSUME NEW kind \in Kind, NEW f \in Freight, NEW t \in Tier,
               NEW rate \in {None} \cup Card \cup Table, BillPackages(kind, f, t, rate)
        PROVE  Watched'
    <3>1. step = "idle" /\ step' = "card" /\ bill'.got = {}
      BY <2>2 DEF BillPackages, NoBill
    <3>2. steady' = Card \cap Whole'
      BY <1>3, <3>1 DEF Watch
    <3>3. QED
      BY <3>1, <3>2 DEF Watched, ChargedOwnPrice
  <2>3. ASSUME step # "idle", step' # "idle" PROVE steady' = steady \cap Whole
    BY <1>3, <2>1, <2>3 DEF Watch
  <2>4. CASE ReadDefaultCard \/ ReadDefaultTable
    <3>1. step # "idle" /\ step' \in {"rates", "table"} /\ bill'.got = bill.got
      BY <2>4 DEF ReadDefaultCard, ReadDefaultTable, QuoteTyped, Bill
    <3>2. bill'.whole = bill.whole
      BY <2>4 DEF ReadDefaultCard, ReadDefaultTable, QuoteTyped, Bill
    <3>3. QED
      BY <2>1, <2>3, <3>1, <3>2 DEF Watched, ChargedOwnPrice
  <2>5. CASE GetOrgRateCards
    <3>1. step = "rates" /\ step' = "rates" /\ bill'.whole = Whole
      BY <2>5 DEF GetOrgRateCards, QuoteTyped, Bill
    <3>2. QED
      BY <2>1, <2>3, <3>1 DEF Watched, ChargedOwnPrice
  <2>6. CASE GetOrgRates
    <3>1. /\ step = "rates" /\ step' = "rates" /\ bill'.whole = bill.whole
          /\ "cards" \in bill'.got => "cards" \in bill.got
      BY <2>6 DEF GetOrgRates, QuoteTyped, Bill
    <3>2. QED
      BY <2>1, <2>3, <3>1 DEF Watched, ChargedOwnPrice
  <2>7. CASE Price
    <3>1. PICK q \in QuoteOrg(bill) :
            IF q = None /\ bill.kind = "invoice"
            THEN step' = "idle" /\ bill' = NoBill /\ UNCHANGED charge
            ELSE step' = "priced" /\ charge' = q /\ UNCHANGED bill
      BY <2>7 DEF Price
    <3>2. CASE step' = "idle" /\ bill' = NoBill
      BY <3>2 DEF NoBill, Watched, ChargedOwnPrice
    <3>3. CASE step' = "priced" /\ charge' = q /\ bill' = bill
      <4>1. step = "rates" /\ bill.got = {"cards", "tables"} /\ steady' = steady \cap Whole
        BY <2>3, <2>7, <3>3 DEF Price
      <4>2. steady' \subseteq bill.whole /\ bill.whole \subseteq Card
              /\ bill.tables \subseteq Table
        BY <4>1 DEF Watched, QuoteTyped, Bill
      <4>3. bill.rate \in steady' => q = bill.rate
        <5>1. bill.rate \in bill.whole => ResolveOrgRate(bill) = {bill.rate}
          BY DEF ResolveOrgRate
        <5>2. QED
          BY <4>2, <5>1 DEF QuoteOrg
      <4>4. steady' # {} => q \in Card \cup ({bill.rate} \cap Table)
        <5>1. bill.rate \in bill.whole \cup bill.tables => ResolveOrgRate(bill) = {bill.rate}
          BY DEF ResolveOrgRate
        <5>2. bill.rate \notin bill.whole \cup bill.tables /\ bill.whole # {}
                => ResolveOrgRate(bill) = bill.whole
          BY DEF ResolveOrgRate
        <5>3. QED
          BY <4>2, <5>1, <5>2 DEF QuoteOrg
      <4>5. QED
        BY <2>1, <3>3, <4>1, <4>2, <4>3, <4>4 DEF Watched, ChargedOwnPrice
    <3>4. QED
      BY <3>1, <3>2, <3>3
  <2>8. CASE Answer
    BY <2>8 DEF Answer, NoBill, Watched, ChargedOwnPrice
  <2>9. QED
    BY <1>3, <2>2, <2>4, <2>5, <2>6, <2>7, <2>8 DEF Quoting
<1>4. QED
  BY <1>1, <1>2, <1>3 DEF QuoteNext

(* Whatever the agency edits meanwhile, a line is charged by the rate that    *)
(* was resolved for it, or by some card while one has its prices.            *)
THEOREM ChargedOwnPriceHolds == QuoteSpec => []ChargedOwnPrice
<1>1. QuoteInit => Typed /\ QuoteTyped /\ Watched
  BY RatesTypedInitially, QuoteTypedInitially DEF QuoteInit, NoBill, Watched, ChargedOwnPrice
<1>2. Typed /\ QuoteTyped /\ Watched /\ [QuoteNext]_allVars => (Typed /\ QuoteTyped /\ Watched)'
  BY QuoteStepIsRatesStep, RatesTypedStep, QuoteTypedStep, WatchedStep
<1>3. Watched => ChargedOwnPrice
  BY DEF Watched
<1>4. QED
  BY <1>1, <1>2, <1>3, PTL DEF QuoteSpec

=============================================================================
