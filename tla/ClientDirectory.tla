---------------------------- MODULE ClientDirectory ----------------------------
(***************************************************************************)
(* The clients of one agency and the invoices that name them: the customer   *)
(* module (service, repo, routes), the merge of two similar clients          *)
(* (migrations/20260914160000_similar-clients-merge-rpcs.sql), and how a new *)
(* invoice finds its client (resolveInvoiceClient in billing-service.ts).    *)
(*                                                                         *)
(* A Name is a name_normalized, which is unique for ever, as no row is       *)
(* removed.  Names that differ by accents or by a HAZMAT tag are one Person  *)
(* (clientMatchKey).  Updates and deletes read the row and then patch it by  *)
(* its id; the merge is one transaction.  The packages that it moves belong  *)
(* to PackageIngest, and what an invoice does after its header to            *)
(* BillingService.                                                           *)
(***************************************************************************)
EXTENDS Naturals

CONSTANTS
  Request,  \* requests that can run at the same time
  Client,   \* ids of clients
  Invoice,  \* ids of invoices
  Name, Person,
  Match,    \* clientMatchKey
  None,     \* SQL null
  MaxAsked  \* bound: requests

ASSUME DirectoryAssumption ==
  /\ Match \in [Name -> Person]
  /\ None \notin Client \cup Name
  /\ MaxAsked \in Nat

VARIABLES
  row,      \* billing_clients
  inv,      \* invoices: the client and whether they are VOID
  pc, loc,  \* what each request does next, and what it has read
  asked,    \* requests so far
  moved     \* history: some row, of whatever client, was written since this
            \* request has last read rows

job == <<pc, loc>>
vars == <<row, inv, job, asked, moved>>

(* default_rate_card_id and default_rate_id; rated: which of them are set. *)
Rate == {"card", "table"}

Row == [there : BOOLEAN, name : Name \cup {None}, active : BOOLEAN, deleted : BOOLEAN,
        rated : SUBSET Rate]
NoRow == [there |-> FALSE, name |-> None, active |-> FALSE, deleted |-> FALSE, rated |-> {}]

NewRow(n, active, rated) ==
  [there |-> TRUE, name |-> n, active |-> active, deleted |-> FALSE, rated |-> rated]

Pc == {"idle", "post", "before", "patch", "remove", "byId", "list", "upsert", "header"}
Local == [do : Pc, client : Client \cup {None}, name : Name \cup {None},
          active : SUBSET BOOLEAN, set : SUBSET Rate, clear : SUBSET Rate]
Blank == [do |-> "idle", client |-> None, name |-> None, active |-> {}, set |-> {},
          clear |-> {}]

Live(c) == row[c].there /\ ~row[c].deleted

(* Mutant: the name of a deleted client is free. *)
BugTaken(n, but) == \E c \in Client \ {but} : Live(c) /\ row[c].name = n

(* unique (organization_id, name_normalized) *)
Taken(n, but) == \E c \in Client \ {but} : row[c].there /\ row[c].name = n

Goto(r, call, locals) ==
  /\ pc' = [pc EXCEPT ![r] = call]
  /\ loc' = [loc EXCEPT ![r] = locals]

Finish(r) == Goto(r, "idle", Blank)

(* A write of rows, seen by the requests that have read them before. *)
Write(rows) ==
  /\ row' = rows
  /\ moved' = [s \in Request |-> moved[s] \/ rows # row]

-----------------------------------------------------------------------------
(* Any clients, even two of one person, and no invoice.  There is room for   *)
(* one client more.                                                          *)
Init ==
  /\ row \in [Client -> {NoRow} \cup
       [there : {TRUE}, name : Name, active : BOOLEAN, deleted : BOOLEAN,
        rated : {{}, {"table"}}]]
  /\ \A c, d \in Client : row[c].there /\ row[d].there /\ c # d => row[c].name # row[d].name
  /\ \E c \in Client : ~row[c].there
  /\ inv = [i \in Invoice |-> [client |-> None, void |-> FALSE]]
  /\ pc = [r \in Request |-> "idle"]
  /\ loc = [r \in Request |-> Blank]
  /\ asked = 0
  /\ moved = [r \in Request |-> FALSE]

Begin(r, call, locals) ==
  /\ pc[r] = "idle"
  /\ asked < MaxAsked
  /\ asked' = asked + 1
  /\ Goto(r, call, locals)
  /\ moved' = [moved EXCEPT ![r] = FALSE]
  /\ UNCHANGED <<row, inv>>

-----------------------------------------------------------------------------
(* POST /clients: a plain insert.  The row stays if the audit then throws.    *)
CreateClient(r, n, active, rated) ==
  Begin(r, "post", [Blank EXCEPT !.name = n, !.active = {active}, !.set = rated])

PostClient(r) ==
  /\ pc[r] = "post"
  /\ IF Taken(loc[r].name, None)
     THEN UNCHANGED <<row, moved>>
     ELSE \E c \in Client :
            /\ ~row[c].there
            /\ \E active \in loc[r].active :
                 Write([row EXCEPT ![c] = NewRow(loc[r].name, active, loc[r].set)])
  /\ Finish(r)
  /\ UNCHANGED <<inv, asked>>

(* PATCH and DELETE /clients/:id.  A field is sent or not: a name None or an  *)
(* active {} is not, and each default is sent with an id, as null or not.     *)
UpdateClient(r, c, n, active, set, clear) ==
  /\ row[c].there
  /\ Begin(r, "before", [do |-> "patch", client |-> c, name |-> n, active |-> active,
                         set |-> set, clear |-> clear])

DeleteClient(r, c) ==
  row[c].there /\ Begin(r, "before", [Blank EXCEPT !.do = "remove", !.client = c])

(* A deleted client is not found; the preview that a delete takes next only  *)
(* feeds the audit.                                                          *)
ReadBefore(r) ==
  /\ pc[r] = "before"
  /\ IF Live(loc[r].client) THEN Goto(r, loc[r].do, loc[r]) ELSE Finish(r)
  /\ moved' = [moved EXCEPT ![r] = FALSE]
  /\ UNCHANGED <<row, inv, asked>>

(* The new value if one was sent. *)
Sent(values, old) == IF values = {} THEN old ELSE CHOOSE v \in values : TRUE

(* Patched by its id, deleted or not by now; a new name must be free. *)
PatchClient(r) ==
  /\ pc[r] = "patch"
  /\ LET c == loc[r].client
         n == IF loc[r].name = None THEN row[c].name ELSE loc[r].name
     IN IF Taken(n, c)
        THEN UNCHANGED <<row, moved>>
        ELSE Write([row EXCEPT ![c].name = n,
                               ![c].active = Sent(loc[r].active, @),
                               ![c].rated = (@ \ loc[r].clear) \cup loc[r].set])
  /\ Finish(r)
  /\ UNCHANGED <<inv, asked>>

RemoveClient(r) ==
  /\ pc[r] = "remove"
  /\ Write([row EXCEPT ![loc[r].client].deleted = TRUE])
  /\ Finish(r)
  /\ UNCHANGED <<inv, asked>>

(* merge_clients: the invoices that are not VOID move, keep adopts a default *)
(* table if it has none, and the other row is deactivated.  The panel offers *)
(* pairs of live, active clients; the function only looks for a name.        *)
Merge(keep, merge) ==
  /\ asked < MaxAsked
  /\ row[keep].there /\ row[merge].there /\ keep # merge
  /\ Write([row EXCEPT
       ![keep].rated = @ \cup (row[merge].rated \cap {"table"}),
       ![merge].active = FALSE])
  /\ inv' = [i \in Invoice |->
       IF inv[i].client = merge /\ ~inv[i].void THEN [inv[i] EXCEPT !.client = keep] ELSE inv[i]]
  /\ asked' = asked + 1
  /\ UNCHANGED job

-----------------------------------------------------------------------------
(* A new invoice finds its client. *)

BillById(r, c) == row[c].there /\ Begin(r, "byId", [Blank EXCEPT !.client = c])

BillByName(r, n) == Begin(r, "list", [Blank EXCEPT !.name = n])

(* A client that is picked must be live and active. *)
ReadClient(r) ==
  /\ pc[r] = "byId"
  /\ IF Live(loc[r].client) /\ row[loc[r].client].active
     THEN Goto(r, "header", loc[r])
     ELSE Finish(r)
  /\ moved' = [moved EXCEPT ![r] = FALSE]
  /\ UNCHANGED <<row, inv, asked>>

(* Mutant: matched by the normalized name, as it once was. *)
BugMatches(n) == {c \in Client : Live(c) /\ row[c].name = n}

(* The live clients of the person, active or not. *)
Matches(n) == {c \in Client : Live(c) /\ Match[row[c].name] = Match[n]}

(* Of several, those that staff have given a default. *)
Configured(M) == {c \in M : row[c].rated # {}}

(* Mutant: of several, the configured one is not asked whether it is active. *)
BugChosen(n) ==
  {c \in Matches(n) : (Matches(n) = {c} /\ row[c].active) \/ Configured(Matches(n)) = {c}}

(* The only match, or the only configured one, if it is active. *)
Chosen(n) ==
  {c \in Matches(n) : (Matches(n) = {c} \/ Configured(Matches(n)) = {c}) /\ row[c].active}

ListClients(r) ==
  /\ pc[r] = "list"
  /\ LET n == loc[r].name
     IN \/ /\ Matches(n) = {}
           /\ Goto(r, "upsert", loc[r])
        \/ \E c \in Chosen(n) : Goto(r, "header", [loc[r] EXCEPT !.client = c])
        \/ /\ Matches(n) # {} /\ Chosen(n) = {}
           /\ Finish(r)
  /\ moved' = [moved EXCEPT ![r] = FALSE]
  /\ UNCHANGED <<row, inv, asked>>

(* Nobody matches: upserted by the name, so a row that has it already is     *)
(* taken as it is, deleted or deactivated.  Its display name is written.     *)
UpsertClient(r) ==
  /\ pc[r] = "upsert"
  /\ \E c \in Client :
       /\ IF Taken(loc[r].name, None)
          THEN row[c].name = loc[r].name /\ UNCHANGED <<row, moved>>
          ELSE ~row[c].there /\ Write([row EXCEPT ![c] = NewRow(loc[r].name, TRUE, {})])
       /\ Goto(r, "header", [loc[r] EXCEPT !.client = c])
  /\ UNCHANGED <<inv, asked>>

(* createInvoiceHeader, after the packages and the prices have been read. *)
InsertHeader(r) ==
  /\ pc[r] = "header"
  /\ \E i \in Invoice :
       /\ inv[i].client = None
       /\ inv' = [inv EXCEPT ![i].client = loc[r].client]
  /\ Finish(r)
  /\ UNCHANGED <<row, asked, moved>>

VoidInvoice(i) ==
  /\ inv[i].client # None /\ ~inv[i].void
  /\ inv' = [inv EXCEPT ![i].void = TRUE]
  /\ UNCHANGED <<row, job, asked, moved>>

-----------------------------------------------------------------------------
(* A call throws, or the Worker dies: what was written stays. *)
Abandon(r) == pc[r] # "idle" /\ Finish(r) /\ UNCHANGED <<row, inv, asked, moved>>

-----------------------------------------------------------------------------
Start(r) ==
  \/ \E n \in Name, active \in BOOLEAN : CreateClient(r, n, active, {})
  \/ \E c \in Client :
       \/ \E n \in Name : UpdateClient(r, c, n, {}, {}, {})
       \/ \E active \in BOOLEAN : UpdateClient(r, c, None, {active}, {}, {})
       \/ \E set \in SUBSET Rate : \E clear \in SUBSET (Rate \ set) :
            UpdateClient(r, c, None, {}, set, clear)
  \/ \E c \in Client : DeleteClient(r, c) \/ BillById(r, c)
  \/ \E n \in Name : BillByName(r, n)

Continue(r) ==
  \/ PostClient(r) \/ ReadBefore(r) \/ PatchClient(r) \/ RemoveClient(r)
  \/ ReadClient(r) \/ ListClients(r) \/ UpsertClient(r) \/ InsertHeader(r)

Next ==
  \/ \E r \in Request : Start(r) \/ Continue(r) \/ Abandon(r)
  \/ \E c, d \in Client : Merge(c, d)
  \/ \E i \in Invoice : VoidInvoice(i)

Spec == Init /\ [][Next]_vars

-----------------------------------------------------------------------------
TypeOK ==
  /\ row \in [Client -> Row]
  /\ \A c \in Client : row[c].there => row[c].name \in Name /\ ~Taken(row[c].name, c)
  /\ inv \in [Invoice -> [client : {None} \cup {c \in Client : row[c].there}, void : BOOLEAN]]
  /\ pc \in [Request -> Pc]
  /\ loc \in [Request -> Local]
  /\ asked \in Nat
  /\ moved \in [Request -> BOOLEAN]

(* A name typed on an invoice never makes a second client of a person who is *)
(* there, "a second client with no default rate" (billing-service.ts         *)
(* 651-655), unless some client was written after this request had looked.   *)
NoSecondRow ==
  [][\A r \in Request, c, d \in Client :
       /\ pc[r] = "upsert" /\ pc'[r] = "header"
       /\ ~row[c].there /\ row'[c].there
       /\ Live(d) /\ Match[row[d].name] = Match[loc[r].name]
       => moved[r]]_vars

(* A client that is deactivated, by staff or by a merge, gets no invoice     *)
(* ("reactiva su cuenta antes de facturar"), whichever way it is found: only *)
(* if some client was written after this request had looked, or if the name  *)
(* that was typed belongs to a deleted client.                               *)
InactiveGetsNoInvoice ==
  [][\A r \in Request, i \in Invoice :
       /\ pc[r] = "header" /\ pc'[r] # "header"
       /\ inv[i].client = None /\ inv'[i].client # None
       /\ ~row[inv'[i].client].active
       => moved[r] \/ row[inv'[i].client].deleted]_vars
=============================================================================
