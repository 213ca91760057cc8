----------------------------- MODULE ClientProofs -----------------------------
(***************************************************************************)
(* Theorems about ClientDirectory for every set of requests, clients,        *)
(* invoices, names and persons.                                              *)
(***************************************************************************)
EXTENDS ClientDirectory, TLAPS

RowsOK ==
  /\ row \in [Client -> Row]
  /\ \A c \in Client : row[c].there => row[c].name \in Name /\ ~Taken(row[c].name, c)
  /\ \A c \in Client : ~row[c].there => row[c].name = None

(* What a request has read: a client whose row is there, or a name. *)
Held(r) ==
  /\ pc[r] \in {"before", "patch", "remove", "byId", "header"} =>
       loc[r].client \in Client /\ row[loc[r].client].there
  /\ pc[r] \in {"post", "list", "upsert"} => loc[r].name \in Name
  /\ pc[r] = "before" => loc[r].do \in {"patch", "remove"}

(* What it has concluded holds unless a row was written since. *)
Unmatched(r) ==
  pc[r] = "upsert" /\ ~moved[r] =>
    \A d \in Client : ~(Live(d) /\ Match[row[d].name] = Match[loc[r].name])

Invoiced(r) ==
  pc[r] = "header" /\ ~row[loc[r].client].active /\ ~moved[r] => row[loc[r].client].deleted

Concluded(r) == Held(r) /\ Unmatched(r) /\ Invoiced(r)

ClientInv == TypeOK /\ RowsOK /\ \A r \in Request : Concluded(r)

(* Rows stay, and a request that has read them knows that they were written. *)
Kept ==
  /\ RowsOK'
  /\ \A c \in Client : row[c].there => row'[c].there

Noted(r) == moved'[r] \/ (row' = row /\ moved'[r] = moved[r])

LEMMA OthersConclude ==
  ASSUME NEW s \in Request, Concluded(s), Kept, Noted(s), pc'[s] = pc[s], loc'[s] = loc[s]
  PROVE  Concluded(s)'
<1>1. Held(s)'
  BY DEF Concluded, Held, Kept
<1>2. Unmatched(s)'
  BY DEF Concluded, Unmatched, Noted, Live
<1>3. Invoiced(s)'
  BY DEF Concluded, Invoiced, Noted
<1>4. QED
  BY <1>1, <1>2, <1>3 DEF Concluded

(* A step of one request. *)
LEMMA RequestKeeps ==
  ASSUME ClientInv, NEW r \in Request, NEW call \in Pc, NEW l \in Local, Goto(r, call, l),
         Kept, \A s \in Request \ {r} : Noted(s), Concluded(r)',
         inv' \in [Invoice -> [client : {None} \cup {c \in Client : row'[c].there},
                               void : BOOLEAN]],
         asked' \in Nat, moved' \in [Request -> BOOLEAN]
  PROVE  ClientInv'
<1>1. pc' \in [Request -> Pc] /\ loc' \in [Request -> Local]
  BY DEF ClientInv, TypeOK, Goto
<1>2. TypeOK'
  BY <1>1 DEF TypeOK, Kept, RowsOK
<1>3. ASSUME NEW s \in Request, s # r PROVE Concluded(s)'
  <2>1. pc'[s] = pc[s] /\ loc'[s] = loc[s]
    BY <1>3 DEF ClientInv, TypeOK, Goto
  <2>2. QED
    BY <1>3, <2>1, OthersConclude DEF ClientInv
<1>4. QED
  BY <1>2, <1>3 DEF ClientInv, Kept

(* The rows as they were. *)
LEMMA SameRows ==
  ASSUME ClientInv, UNCHANGED row
  PROVE  Kept
BY DEF ClientInv, Kept, RowsOK, Taken

LEMMA SameInvoices ==
  ASSUME ClientInv, Kept, UNCHANGED inv
  PROVE  inv' \in [Invoice -> [client : {None} \cup {c \in Client : row'[c].there},
                               void : BOOLEAN]]
BY DEF ClientInv, TypeOK, Kept

LEMMA WriteNoted ==
  ASSUME ClientInv, NEW rows, Write(rows)
  PROVE  moved' \in [Request -> BOOLEAN] /\ \A s \in Request : Noted(s)
BY DEF Write, Noted, ClientInv, TypeOK

LEMMA BlankLocal == Blank \in Local /\ Blank.do = "idle" /\ "idle" \in Pc
BY DEF Blank, Local, Pc

(* A request that ends has nothing to conclude. *)
LEMMA FinishKeeps ==
  ASSUME ClientInv, NEW r \in Request, Finish(r), Kept, \A s \in Request : Noted(s),
         inv' \in [Invoice -> [client : {None} \cup {c \in Client : row'[c].there},
                               void : BOOLEAN]],
         UNCHANGED asked, moved' \in [Request -> BOOLEAN]
  PROVE  ClientInv'
<1>1. pc'[r] = "idle"
  BY DEF Finish, Goto, ClientInv, TypeOK
<1>2. Concluded(r)'
  BY <1>1 DEF Concluded, Held, Unmatched, Invoiced
<1>3. asked' \in Nat
  BY DEF ClientInv, TypeOK
<1>4. QED
  BY <1>2, <1>3, BlankLocal, RequestKeeps DEF Finish

(* A request that reads, and goes on with what it has read. *)
LEMMA ReadKeeps ==
  ASSUME ClientInv, NEW r \in Request, NEW call \in Pc, NEW l \in Local, Goto(r, call, l),
         UNCHANGED <<row, inv>>, asked' \in Nat, moved' = [moved EXCEPT ![r] = FALSE],
         Concluded(r)'
  PROVE  ClientInv'
<1>1. moved' \in [Request -> BOOLEAN] /\ \A s \in Request \ {r} : Noted(s)
  BY DEF ClientInv, TypeOK, Noted
<1>2. QED
  BY <1>1, SameRows, SameInvoices, RequestKeeps

LEMMA BeginKeeps ==
  ASSUME ClientInv, NEW r \in Request, NEW call \in {"post", "before", "byId", "list"},
         NEW l \in Local, Begin(r, call, l),
         call \in {"before", "byId"} => l.client \in Client /\ row[l.client].there,
         call \in {"post", "list"} => l.name \in Name,
         call = "before" => l.do \in {"patch", "remove"}
  PROVE  ClientInv'
<1>1. pc'[r] = call /\ loc'[r] = l /\ row' = row
  BY DEF Begin, Goto, ClientInv, TypeOK
<1>2. Concluded(r)'
  BY <1>1 DEF Concluded, Held, Unmatched, Invoiced
<1>3. call \in Pc /\ asked' \in Nat
  BY DEF Pc, Begin, ClientInv, TypeOK
<1>4. QED
  BY <1>2, <1>3, ReadKeeps DEF Begin

LEMMA StartKeeps ==
  ASSUME ClientInv, NEW r \in Request, Start(r)
  PROVE  ClientInv'
<1>1. ASSUME NEW n \in Name, NEW active \in BOOLEAN, CreateClient(r, n, active, {})
      PROVE  ClientInv'
  <2> DEFINE l == [Blank EXCEPT !.name = n, !.active = {active}, !.set = {}]
  <2>1. l \in Local /\ l.name = n
    BY DEF Blank, Local, Pc
  <2>2. QED
    BY <1>1, <2>1, BeginKeeps DEF CreateClient
<1>2. ASSUME NEW c \in Client, NEW n \in Name \cup {None}, NEW active \in SUBSET BOOLEAN,
             NEW set \in SUBSET Rate, NEW clear \in SUBSET Rate,
             UpdateClient(r, c, n, active, set, clear)
      PROVE  ClientInv'
  <2> DEFINE l == [do |-> "patch", client |-> c, name |-> n, active |-> active, set |-> set,
                   clear |-> clear]
  <2>1. l \in Local /\ l.client = c /\ l.do = "patch"
    BY DEF Local, Pc
  <2>2. QED
    BY <1>2, <2>1, BeginKeeps DEF UpdateClient
<1>3. ASSUME NEW c \in Client, DeleteClient(r, c)
      PROVE  ClientInv'
  <2> DEFINE l == [Blank EXCEPT !.do = "remove", !.client = c]
  <2>1. l \in Local /\ l.client = c /\ l.do = "remove"
    BY DEF Blank, Local, Pc
  <2>2. QED
    BY <1>3, <2>1, BeginKeeps DEF DeleteClient
<1>4. ASSUME NEW c \in Client, BillById(r, c)
      PROVE  ClientInv'
  <2> DEFINE l == [Blank EXCEPT !.client = c]
  <2>1. l \in Local /\ l.client = c
    BY DEF Blank, Local, Pc
  <2>2. QED
    BY <1>4, <2>1, BeginKeeps DEF BillById
<1>5. ASSUME NEW n \in Name, BillByName(r, n)
      PROVE  ClientInv'
  <2> DEFINE l == [Blank EXCEPT !.name = n]
  <2>1. l \in Local /\ l.name = n
    BY DEF Blank, Local, Pc
  <2>2. QED
    BY <1>5, <2>1, BeginKeeps DEF BillByName
<1>6. {} \in SUBSET BOOLEAN /\ {} \in SUBSET Rate
  OBVIOUS
<1>7. \A active \in BOOLEAN : {active} \in SUBSET BOOLEAN
  OBVIOUS
<1>8. \A set \in SUBSET Rate : \A clear \in SUBSET (Rate \ set) : clear \in SUBSET Rate
  OBVIOUS
<1>9. QED
  BY <1>1, <1>2, <1>3, <1>4, <1>5, <1>6, <1>7, <1>8 DEF Start

(* Rows written. *)

LEMMA SentIn ==
  ASSUME NEW S, NEW values \in SUBSET S, NEW old \in S
  PROVE  Sent(values, old) \in S
BY DEF Sent

(* A name that nobody else has goes on the row of a client. *)
LEMMA RowWritten ==
  ASSUME ClientInv, NEW c \in Client, NEW new \in Row, row' = [row EXCEPT ![c] = new],
         new.there, new.name \in Name, ~Taken(new.name, c)
  PROVE  Kept
<1>1. row' \in [Client -> Row]
  BY DEF ClientInv, RowsOK
<1>2. \A d \in Client \ {c} : row'[d] = row[d]
  BY DEF ClientInv, RowsOK
<1>3. row'[c] = new
  BY DEF ClientInv, RowsOK
<1>4. \A d \in Client : row'[d].there => row'[d].name \in Name /\ ~Taken(row[d].name, d)'
  <2> SUFFICES ASSUME NEW d \in Client, row'[d].there
               PROVE  row'[d].name \in Name
                      /\ \A e \in Client \ {d} : row'[e].there => row'[e].name # row'[d].name
    BY DEF Taken
  <2>1. CASE d = c
    BY <1>2, <1>3, <2>1 DEF Taken
  <2>2. CASE d # c
    <3>1. row[d].name \in Name /\ \A e \in Client \ {d} : row[e].there => row[e].name # row[d].name
      BY <1>2, <2>2 DEF ClientInv, RowsOK, Taken
    <3>2. row[d].name # new.name
      BY <1>2, <2>2 DEF Taken
    <3>3. QED
      BY <1>2, <1>3, <2>2, <3>1, <3>2
  <2>3. QED
    BY <2>1, <2>2
<1>5. \A d \in Client : ~row'[d].there => row'[d].name = None
  BY <1>2, <1>3 DEF ClientInv, RowsOK
<1>6. \A d \in Client : row[d].there => row'[d].there
  BY <1>2, <1>3
<1>7. QED
  BY <1>1, <1>4, <1>5, <1>6 DEF Kept, RowsOK

LEMMA PostKeeps ==
  ASSUME ClientInv, NEW r \in Request, PostClient(r)
  PROVE  ClientInv'
<1>1. loc[r].name \in Name /\ loc[r] \in Local
  BY DEF PostClient, ClientInv, Concluded, Held, TypeOK
<1>2. CASE Taken(loc[r].name, None)
  <2>1. moved' \in [Request -> BOOLEAN] /\ \A s \in Request : Noted(s)
    BY <1>2 DEF PostClient, ClientInv, TypeOK, Noted
  <2>2. QED
    BY <1>2, <2>1, SameRows, SameInvoices, FinishKeeps DEF PostClient
<1>3. CASE ~Taken(loc[r].name, None)
  <2>1. PICK c \in Client, active \in loc[r].active :
          ~row[c].there /\ Write([row EXCEPT ![c] = NewRow(loc[r].name, active, loc[r].set)])
    BY <1>3 DEF PostClient
  <2> DEFINE new == NewRow(loc[r].name, active, loc[r].set)
  <2>2. new \in Row /\ new.there /\ new.name = loc[r].name
    BY <1>1 DEF NewRow, Row, Local
  <2>3. ~Taken(new.name, c)
    BY <1>3, <2>2, DirectoryAssumption DEF Taken
  <2>4. Kept
    BY <1>1, <2>1, <2>2, <2>3, RowWritten DEF Write
  <2>5. QED
    BY <2>1, <2>4, WriteNoted, SameInvoices, FinishKeeps DEF PostClient
<1>4. QED
  BY <1>2, <1>3

LEMMA PatchKeeps ==
  ASSUME ClientInv, NEW r \in Request, PatchClient(r)
  PROVE  ClientInv'
<1> DEFINE c == loc[r].client
           n == IF loc[r].name = None THEN row[c].name ELSE loc[r].name
<1>1. c \in Client /\ row[c].there /\ loc[r] \in Local /\ row[c] \in Row
  BY DEF PatchClient, ClientInv, Concluded, Held, TypeOK
<1>2. CASE Taken(n, c)
  <2>1. moved' \in [Request -> BOOLEAN] /\ \A s \in Request : Noted(s)
    BY <1>2 DEF PatchClient, ClientInv, TypeOK, Noted
  <2>2. QED
    BY <1>2, <2>1, SameRows, SameInvoices, FinishKeeps DEF PatchClient
<1>3. CASE ~Taken(n, c)
  <2> DEFINE active == Sent(loc[r].active, row[c].active)
             rated == (row[c].rated \ loc[r].clear) \cup loc[r].set
             new == [row[c] EXCEPT !.name = n, !.active = active, !.rated = rated]
             rows == [row EXCEPT ![c].name = n, ![c].active = Sent(loc[r].active, @),
                                 ![c].rated = (@ \ loc[r].clear) \cup loc[r].set]
  <2>1. Write(rows)
    BY <1>3 DEF PatchClient
  <2>2. n \in Name
    BY <1>1 DEF ClientInv, RowsOK, Local
  <2>3. /\ row[c].active \in BOOLEAN /\ loc[r].active \in SUBSET BOOLEAN
        /\ row[c].rated \in SUBSET Rate /\ loc[r].set \in SUBSET Rate
    BY <1>1 DEF Local, Row
  <2>4. active \in BOOLEAN /\ rated \in SUBSET Rate
    <3>1. Sent(loc[r].active, row[c].active) \in BOOLEAN
      BY <2>3, SentIn, Zenon
    <3>2. QED
      BY <2>3, <3>1
  <2>5. rows = [row EXCEPT ![c] = new]
    BY <1>1 DEF ClientInv, TypeOK, Row
  <2>6. new \in Row /\ new.there /\ new.name = n
    BY <1>1, <2>2, <2>4 DEF Row
  <2>7. Kept
    <3>1. row' = [row EXCEPT ![c] = new]
      BY <2>1, <2>5 DEF Write
    <3> HIDE DEF new
    <3>2. QED
      BY <1>1, <1>3, <2>2, <2>6, <3>1, RowWritten
  <2>8. QED
    BY <2>1, <2>7, WriteNoted, SameInvoices, FinishKeeps DEF PatchClient
<1>4. QED
  BY <1>2, <1>3

LEMMA RemoveKeeps ==
  ASSUME ClientInv, NEW r \in Request, RemoveClient(r)
  PROVE  ClientInv'
<1> DEFINE c == loc[r].client
           new == [row[c] EXCEPT !.deleted = TRUE]
<1>1. c \in Client /\ row[c].there /\ row[c] \in Row
  BY DEF RemoveClient, ClientInv, Concluded, Held, TypeOK
<1>2. Write([row EXCEPT ![c] = new])
  BY DEF RemoveClient
<1>3. new \in Row /\ new.there /\ new.name = row[c].name
  BY <1>1 DEF Row
<1>4. new.name \in Name /\ ~Taken(new.name, c)
  BY <1>1, <1>3 DEF ClientInv, RowsOK
<1>5. Kept
  BY <1>1, <1>2, <1>3, <1>4, RowWritten DEF Write
<1>6. QED
  BY <1>2, <1>5, WriteNoted, SameInvoices, FinishKeeps DEF RemoveClient

(* What an invoice finds. *)

LEMMA ReadBeforeKeeps ==
  ASSUME ClientInv, NEW r \in Request, ReadBefore(r)
  PROVE  ClientInv'
<1>1. /\ loc[r] \in Local /\ loc[r].client \in Client /\ row[loc[r].client].there
      /\ loc[r].do \in {"patch", "remove"} /\ asked' \in Nat
  BY DEF ReadBefore, ClientInv, Concluded, Held, TypeOK
<1>2. CASE Goto(r, loc[r].do, loc[r])
  <2>1. pc'[r] = loc[r].do /\ loc'[r] = loc[r]
    BY <1>2 DEF Goto, ClientInv, TypeOK
  <2>2. Concluded(r)'
    BY <1>1, <2>1 DEF Concluded, Held, Unmatched, Invoiced, ReadBefore
  <2>3. loc[r].do \in Pc
    BY <1>1 DEF Pc
  <2>4. QED
    BY <1>1, <1>2, <2>2, <2>3, ReadKeeps DEF ReadBefore
<1>3. CASE Finish(r)
  <2>1. pc'[r] = "idle"
    BY <1>3 DEF Finish, Goto, ClientInv, TypeOK
  <2>2. Concluded(r)'
    BY <2>1 DEF Concluded, Held, Unmatched, Invoiced
  <2>3. QED
    BY <1>1, <1>3, <2>2, BlankLocal, ReadKeeps DEF ReadBefore, Finish
<1>4. QED
  BY <1>2, <1>3 DEF ReadBefore

LEMMA ReadClientKeeps ==
  ASSUME ClientInv, NEW r \in Request, ReadClient(r)
  PROVE  ClientInv'
<1>1. /\ loc[r] \in Local /\ loc[r].client \in Client /\ row[loc[r].client].there
      /\ asked' \in Nat
  BY DEF ReadClient, ClientInv, Concluded, Held, TypeOK
<1>2. CASE row[loc[r].client].active /\ Goto(r, "header", loc[r])
  <2>1. pc'[r] = "header" /\ loc'[r] = loc[r]
    BY <1>2 DEF Goto, ClientInv, TypeOK
  <2>2. Concluded(r)'
    BY <1>1, <1>2, <2>1 DEF Concluded, Held, Unmatched, Invoiced, ReadClient
  <2>3. "header" \in Pc
    BY DEF Pc
  <2>4. QED
    BY <1>1, <1>2, <2>2, <2>3, ReadKeeps DEF ReadClient
<1>3. CASE Finish(r)
  <2>1. pc'[r] = "idle"
    BY <1>3 DEF Finish, Goto, ClientInv, TypeOK
  <2>2. Concluded(r)'
    BY <2>1 DEF Concluded, Held, Unmatched, Invoiced
  <2>3. QED
    BY <1>1, <1>3, <2>2, BlankLocal, ReadKeeps DEF ReadClient, Finish
<1>4. QED
  BY <1>2, <1>3 DEF ReadClient

LEMMA ListKeeps ==
  ASSUME ClientInv, NEW r \in Request, ListClients(r)
  PROVE  ClientInv'
<1> DEFINE n == loc[r].name
<1>1. loc[r] \in Local /\ n \in Name /\ asked' \in Nat
  BY DEF ListClients, ClientInv, Concluded, Held, TypeOK
<1>2. CASE Matches(n) = {} /\ Goto(r, "upsert", loc[r])
  <2>1. pc'[r] = "upsert" /\ loc'[r] = loc[r] /\ row' = row
    BY <1>2 DEF Goto, ClientInv, TypeOK, ListClients
  <2>2. Concluded(r)'
    BY <1>1, <1>2, <2>1 DEF Concluded, Held, Unmatched, Invoiced, Matches, Live
  <2>3. "upsert" \in Pc
    BY DEF Pc
  <2>4. QED
    BY <1>1, <1>2, <2>2, <2>3, ReadKeeps DEF ListClients
<1>3. ASSUME NEW c \in Chosen(n), Goto(r, "header", [loc[r] EXCEPT !.client = c])
      PROVE  ClientInv'
  <2>1. c \in Client /\ row[c].there /\ row[c].active
    BY DEF Chosen, Matches, Live
  <2>2. [loc[r] EXCEPT !.client = c] \in Local
    BY <1>1, <2>1 DEF Local
  <2>3. pc'[r] = "header" /\ loc'[r].client = c /\ row' = row
    BY <1>1, <1>3 DEF Goto, ClientInv, TypeOK, ListClients, Local
  <2>4. Concluded(r)'
    BY <2>1, <2>3 DEF Concluded, Held, Unmatched, Invoiced
  <2>5. "header" \in Pc
    BY DEF Pc
  <2>6. QED
    BY <1>1, <1>3, <2>2, <2>4, <2>5, ReadKeeps DEF ListClients
<1>4. CASE Finish(r)
  <2>1. pc'[r] = "idle"
    BY <1>4 DEF Finish, Goto, ClientInv, TypeOK
  <2>2. Concluded(r)'
    BY <2>1 DEF Concluded, Held, Unmatched, Invoiced
  <2>3. QED
    BY <1>1, <1>4, <2>2, BlankLocal, ReadKeeps DEF ListClients, Finish
<1>5. QED
  BY <1>2, <1>3, <1>4 DEF ListClients

LEMMA UpsertKeeps ==
  ASSUME ClientInv, NEW r \in Request, UpsertClient(r)
  PROVE  ClientInv'
<1> DEFINE n == loc[r].name
<1>1. loc[r] \in Local /\ n \in Name /\ n # None
  BY DirectoryAssumption DEF UpsertClient, ClientInv, Concluded, Held, TypeOK
<1>2. PICK c \in Client :
        /\ IF Taken(n, None)
           THEN row[c].name = n /\ UNCHANGED <<row, moved>>
           ELSE ~row[c].there /\ Write([row EXCEPT ![c] = NewRow(n, TRUE, {})])
        /\ Goto(r, "header", [loc[r] EXCEPT !.client = c])
  BY DEF UpsertClient
<1>3. /\ [loc[r] EXCEPT !.client = c] \in Local
      /\ pc'[r] = "header" /\ loc'[r].client = c
      /\ "header" \in Pc /\ asked' \in Nat
  BY <1>1, <1>2 DEF Goto, ClientInv, TypeOK, UpsertClient, Local, Pc
<1>4. CASE Taken(n, None)
  <2>1. row[c].there
    BY <1>1, <1>2, <1>4 DEF ClientInv, RowsOK
  <2>2. ~moved[r] => row[c].deleted
    BY <1>2, <1>4, <2>1 DEF UpsertClient, ClientInv, Concluded, Unmatched, Live
  <2>3. Concluded(r)'
    BY <1>2, <1>3, <1>4, <2>1, <2>2 DEF Concluded, Held, Unmatched, Invoiced
  <2>4. moved' \in [Request -> BOOLEAN] /\ \A s \in Request : Noted(s)
    BY <1>2, <1>4 DEF Noted, ClientInv, TypeOK
  <2>5. QED
    BY <1>2, <1>3, <1>4, <2>3, <2>4, SameRows, SameInvoices, RequestKeeps DEF UpsertClient
<1>5. CASE ~Taken(n, None)
  <2> DEFINE new == NewRow(n, TRUE, {})
  <2>1. new \in Row /\ new.there /\ new.active /\ new.name = n
    BY <1>1 DEF NewRow, Row
  <2>2. ~Taken(n, c)
    BY <1>5, DirectoryAssumption DEF Taken
  <2>3. Write([row EXCEPT ![c] = new])
    BY <1>2, <1>5
  <2>4. Kept /\ row'[c] = new
    <3> HIDE DEF new
    <3>1. QED
      BY <1>1, <2>1, <2>2, <2>3, RowWritten DEF Write, ClientInv, TypeOK
  <2>5. Concluded(r)'
    BY <1>3, <2>1, <2>4 DEF Concluded, Held, Unmatched, Invoiced
  <2>6. QED
    BY <1>2, <1>3, <2>3, <2>4, <2>5, WriteNoted, SameInvoices, RequestKeeps DEF UpsertClient
<1>6. QED
  BY <1>4, <1>5

LEMMA HeaderKeeps ==
  ASSUME ClientInv, NEW r \in Request, InsertHeader(r)
  PROVE  ClientInv'
<1>1. loc[r].client \in Client /\ row[loc[r].client].there
  BY DEF InsertHeader, ClientInv, Concluded, Held
<1>2. inv' \in [Invoice -> [client : {None} \cup {c \in Client : row'[c].there}, void : BOOLEAN]]
  BY <1>1 DEF InsertHeader, ClientInv, TypeOK
<1>3. moved' \in [Request -> BOOLEAN] /\ \A s \in Request : Noted(s)
  BY DEF InsertHeader, Noted, ClientInv, TypeOK
<1>4. QED
  BY <1>2, <1>3, SameRows, FinishKeeps DEF InsertHeader

LEMMA AbandonKeeps ==
  ASSUME ClientInv, NEW r \in Request, Abandon(r)
  PROVE  ClientInv'
<1>1. moved' \in [Request -> BOOLEAN] /\ \A s \in Request : Noted(s)
  BY DEF Abandon, Noted, ClientInv, TypeOK
<1>2. QED
  BY <1>1, SameRows, SameInvoices, FinishKeeps DEF Abandon

(* Steps of nobody's request. *)
LEMMA BesideKeeps ==
  ASSUME ClientInv, UNCHANGED job, Kept, \A s \in Request : Noted(s),
         moved' \in [Request -> BOOLEAN], asked' \in Nat,
         inv' \in [Invoice -> [client : {None} \cup {c \in Client : row'[c].there},
                               void : BOOLEAN]]
  PROVE  ClientInv'
<1>1. TypeOK'
  BY DEF ClientInv, TypeOK, Kept, RowsOK, job
<1>2. \A s \in Request : Concluded(s)'
  BY OthersConclude DEF ClientInv, job
<1>3. QED
  BY <1>1, <1>2 DEF ClientInv, Kept

LEMMA MergeKeeps ==
  ASSUME ClientInv, NEW keep \in Client, NEW merge \in Client, Merge(keep, merge)
  PROVE  ClientInv'
<1> DEFINE rows == [row EXCEPT
             ![keep].rated = @ \cup (row[merge].rated \cap {"table"}),
             ![merge].active = FALSE]
<1>1. Write(rows)
  BY DEF Merge
<1>2. row' = rows /\ row \in [Client -> Row]
  BY <1>1 DEF Write, ClientInv, TypeOK
<1>3. row' \in [Client -> Row]
  <2>1. row[keep].rated \cup (row[merge].rated \cap {"table"}) \in SUBSET {"card", "table"}
    BY <1>2 DEF Row, Rate
  <2>2. \A c \in Client : rows[c] \in Row
    BY <1>2, <2>1, ZenonT(30) DEF Row
  <2>3. DOMAIN rows = Client /\ rows = [c \in Client |-> rows[c]]
    BY <1>2
  <2> HIDE DEF rows
  <2>4. QED
    BY <1>2, <2>2, <2>3
<1>4. \A c \in Client : row'[c].there = row[c].there /\ row'[c].name = row[c].name
  BY <1>2 DEF Row
<1>5. Kept
  BY <1>3, <1>4 DEF Kept, RowsOK, Taken, ClientInv
<1>6. inv' \in [Invoice -> [client : {None} \cup {c \in Client : row'[c].there}, void : BOOLEAN]]
  BY <1>4 DEF Merge, ClientInv, TypeOK
<1>7. asked' \in Nat
  BY DEF Merge, ClientInv, TypeOK
<1>8. QED
  BY <1>1, <1>5, <1>6, <1>7, WriteNoted, BesideKeeps DEF Merge

LEMMA VoidKeeps ==
  ASSUME ClientInv, NEW i \in Invoice, VoidInvoice(i)
  PROVE  ClientInv'
<1>1. inv' \in [Invoice -> [client : {None} \cup {c \in Client : row'[c].there}, void : BOOLEAN]]
  BY DEF VoidInvoice, ClientInv, TypeOK
<1>2. moved' \in [Request -> BOOLEAN] /\ asked' \in Nat /\ \A s \in Request : Noted(s)
  BY DEF VoidInvoice, Noted, ClientInv, TypeOK
<1>3. QED
  BY <1>1, <1>2, SameRows, BesideKeeps DEF VoidInvoice

THEOREM ClientStep == ClientInv /\ [Next]_vars => ClientInv'
<1> SUFFICES ASSUME ClientInv, [Next]_vars PROVE ClientInv'
  OBVIOUS
<1>1. ASSUME NEW r \in Request, Start(r) \/ Continue(r) \/ Abandon(r) PROVE ClientInv'
  BY <1>1, StartKeeps, PostKeeps, ReadBeforeKeeps, PatchKeeps, RemoveKeeps, ReadClientKeeps,
     ListKeeps, UpsertKeeps, HeaderKeeps, AbandonKeeps DEF Continue
<1>2. CASE UNCHANGED vars
  <2>1. moved' \in [Request -> BOOLEAN] /\ asked' \in Nat /\ \A s \in Request : Noted(s)
    BY <1>2 DEF vars, Noted, ClientInv, TypeOK
  <2>2. QED
    BY <1>2, <2>1, SameRows, SameInvoices, BesideKeeps DEF vars
<1>3. QED
  BY <1>1, <1>2, MergeKeeps, VoidKeeps DEF Next

THEOREM ClientInitially == Init => ClientInv
<1> SUFFICES ASSUME Init PROVE ClientInv
  OBVIOUS
<1>1. RowsOK
  <2> DEFINE Old == [there : {TRUE}, name : Name, active : BOOLEAN, deleted : BOOLEAN,
                     rated : {{}, {"table"}}]
  <2>1. /\ \A x \in Old : x \in Row /\ x.there /\ x.name \in Name
        /\ NoRow \in Row /\ ~NoRow.there /\ NoRow.name = None
    BY DEF Row, NoRow, Rate
  <2>2. row \in [Client -> {NoRow} \cup Old]
    BY DEF Init
  <2> HIDE DEF Old
  <2>3. \A c, d \in Client : row[c].there /\ row[d].there /\ c # d => row[c].name # row[d].name
    BY DEF Init
  <2>4. QED
    BY <2>1, <2>2, <2>3 DEF RowsOK, Taken
<1>2. TypeOK
  BY <1>1, DirectoryAssumption, BlankLocal DEF Init, TypeOK, RowsOK
<1>3. \A r \in Request : Concluded(r)
  BY DEF Init, Concluded, Held, Unmatched, Invoiced
<1>4. QED
  BY <1>1, <1>2, <1>3 DEF ClientInv

(* In every behaviour rows, invoices and requests have their types, no two    *)
(* clients share a name, and an invoice names a client that is there.        *)
THEOREM ClientTypeCorrect == Spec => []TypeOK
<1>1. ClientInv => TypeOK
  BY DEF ClientInv
<1>2. QED
  BY <1>1, ClientInitially, ClientStep, PTL DEF Spec

(* The requests of other actions leave a request that is at this call there.  *)
LEMMA OnlyMine ==
  ASSUME TypeOK, [Next]_vars, NEW r \in Request, NEW call \in {"upsert", "header"},
         pc[r] = call, pc'[r] # call
  PROVE  (call = "upsert" /\ UpsertClient(r)) \/ (call = "header" /\ InsertHeader(r)) \/ Abandon(r)
<1>1. PICK s \in Request : Start(s) \/ Continue(s) \/ Abandon(s)
  BY DEF Next, vars, job, Merge, VoidInvoice
<1>2. s = r
  <2>1. \E c, l : Goto(s, c, l)
    BY <1>1 DEF Start, Continue, Abandon, CreateClient, UpsertClient, UpdateClient,
         DeleteClient, BillById, BillByName, Begin, PostClient, ReadBefore, PatchClient,
         RemoveClient, ReadClient, ListClients, InsertHeader, Finish
  <2>2. QED
    BY <2>1 DEF Goto, TypeOK
<1>3. ~Start(r)
  BY DEF Start, CreateClient, UpdateClient, DeleteClient, BillById, BillByName, Begin
<1>4. QED
  BY <1>1, <1>2, <1>3 DEF Continue, PostClient, ReadBefore, PatchClient, RemoveClient,
       ReadClient, ListClients, UpsertClient, InsertHeader

SecondRow(r, c, d) ==
  /\ pc[r] = "upsert" /\ pc'[r] = "header"
  /\ ~row[c].there /\ row'[c].there
  /\ Live(d) /\ Match[row[d].name] = Match[loc[r].name]

(* A typed name makes no second client of a person who is there, unless one   *)
(* was written after the request had looked (billing-service.ts 651-655).    *)
THEOREM NoSecondRowHolds == Spec => NoSecondRow
<1>1. ASSUME ClientInv, [Next]_vars
      PROVE  \A r \in Request, c, d \in Client : SecondRow(r, c, d) => moved[r]
  BY <1>1 DEF SecondRow, ClientInv, Concluded, Unmatched
<1>2. ClientInv /\ [Next]_vars =>
        [\A r \in Request, c, d \in Client : SecondRow(r, c, d) => moved[r]]_vars
  BY <1>1
<1>3. Spec => [][\A r \in Request, c, d \in Client : SecondRow(r, c, d) => moved[r]]_vars
  BY <1>2, ClientInitially, ClientStep, PTL DEF Spec
<1>4. QED
  BY <1>3 DEF SecondRow, NoSecondRow

Given(r, i) ==
  /\ pc[r] = "header" /\ pc'[r] # "header"
  /\ inv[i].client = None /\ inv'[i].client # None
  /\ ~row[inv'[i].client].active

(* A deactivated client gets no invoice, whichever way the request has found  *)
(* it, unless a row was written since or the client is deleted.              *)
THEOREM InactiveHolds == Spec => InactiveGetsNoInvoice
<1> DEFINE Only == \A r \in Request, i \in Invoice :
                     Given(r, i) => moved[r] \/ row[inv'[i].client].deleted
<1>1. ASSUME ClientInv, [Next]_vars
      PROVE  Only
  <2> SUFFICES ASSUME NEW r \in Request, NEW i \in Invoice, Given(r, i)
               PROVE  moved[r] \/ row[inv'[i].client].deleted
    OBVIOUS
  <2>1. InsertHeader(r)
    BY <1>1, OnlyMine DEF Given, ClientInv, Abandon
  <2>2. inv'[i].client = loc[r].client
    BY <1>1, <2>1 DEF Given, InsertHeader, ClientInv, TypeOK
  <2>3. QED
    BY <1>1, <2>2 DEF Given, ClientInv, Concluded, Invoiced
<1>2. ClientInv /\ [Next]_vars => [Only]_vars
  BY <1>1
<1>3. Spec => [][Only]_vars
  <2> HIDE DEF Only
  <2>1. QED
    BY <1>2, ClientInitially, ClientStep, PTL DEF Spec
<1>4. QED
  BY <1>3 DEF Given, InactiveGetsNoInvoice
=============================================================================
