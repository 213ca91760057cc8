--------------------------- MODULE BillingService ---------------------------
(***************************************************************************)
(* The invoice side of the Worker (billing-service.ts, billing-repo.ts and *)
(* the invoice tables of the migrations), for one agency and fiscal year.  *)
(*                                                                         *)
(* Every service method is a chain of HTTP calls to the database: no       *)
(* transaction spans two of them, and requests of several staff members    *)
(* interleave between any two.  A request is a slot of Req; one action is  *)
(* one remote call together with the local computation that follows it.    *)
(* What a request has read and not yet used is kept in loc[r], so a stale  *)
(* snapshot is a value of loc that the tables no longer agree with.        *)
(*                                                                         *)
(* Left out: clients, pricing and package attributes (a Package here is    *)
(* one that passes those validations), event and audit rows, texts, dates. *)
(* Every line costs one unit of money; EPS is below that unit.             *)
(***************************************************************************)
EXTENDS Naturals, FiniteSets

CONSTANTS
  Invoice,    \* ids the database may hand out to invoice headers
  Package,    \* packages of one client, all of them invoiceable
  Req,        \* requests that can be in flight at the same time
  Loose,      \* freight lines that carry no package
  Other,      \* "other charge" lines
  NoInvoice,  \* no invoice (yet)
  Ops,        \* the endpoints that staff call
  Faults,     \* "call": any remote call may fail and change nothing; "crash":
              \* the Worker is cut off, or the answer of a call is lost
  Amounts,    \* USD value of one payment; 0 is a C$ payment without a rate
  MaxPaid     \* bound: no payment starts on an invoice that has this much

ASSUME BillingAssumption ==
  /\ IsFiniteSet(Package)
  /\ IsFiniteSet(Req)
  /\ IsFiniteSet(Loose)
  /\ IsFiniteSet(Other)
  /\ Package \cap (Loose \cup Other) = {} /\ Loose \cap Other = {}
  /\ NoInvoice \notin Invoice
  /\ Amounts \subseteq Nat
  /\ MaxPaid \in Nat

VARIABLES
  status,     \* invoices.status, "ABSENT" before the header is inserted
  closed,     \* invoices.closed_at is set
  archived,   \* invoices.deleted_at is set
  number,     \* invoices.invoice_number, 0 before the header is inserted
  total,      \* invoices.total
  paidUsd,    \* invoices.paid_usd
  payments,   \* sum of amount_usd over the invoice_payments rows
  lines,      \* invoice_line_items rows: <<what is billed, slot that posted it>>
  link,       \* invoice_packages row of (invoice, package)
  pc,         \* the next remote call of each request
  loc         \* what each request has been given or has read

header == <<status, closed, archived, number, total, paidUsd>>
tables == <<payments, lines, link>>
vars == <<header, tables, pc, loc>>

Status == {"DRAFT", "ISSUED", "PARTIAL", "PAID", "VOID"}
LinkState == {"none", "active", "released"}
Freight == Package \cup Loose
Item == Freight \cup Other

(* The calls of the try block of createInvoice / createBulkInvoice, of its *)
(* compensation, and of everything else.                                   *)
TryPc == {"lines", "link", "guard"}
UndoPc == {"undoLinks", "undoArchive"}
OtherPc == {"number", "header", "closeCas", "payRows", "payInsert", "payStatus",
            "payTotals", "voidStatus", "stamp", "release", "linkCheck", "linkPost",
            "unlink", "editRows", "editResolve", "editDelete", "editInsert",
            "editLinks", "editPatch"}
Pc == {"idle"} \cup TryPc \cup UndoPc \cup OtherPc

Local == [inv : Invoice \cup {NoInvoice}, st : Status \cup {"ABSENT"}, num : Nat,
          want : SUBSET Package, items : SUBSET Item, cur : SUBSET Package,
          tot : Nat, paid : Nat, amt : Nat]
Blank == [inv |-> NoInvoice, st |-> "ABSENT", num |-> 0, want |-> {}, items |-> {},
          cur |-> {}, tot |-> 0, paid |-> 0, amt |-> 0]

-----------------------------------------------------------------------------
(* The tables, as the repository's calls see and change them.              *)

Existing == {i \in Invoice : status[i] # "ABSENT"}

(* Mutant: the deleted_at filter is forgotten. *)
BugVisible(i) == status[i] # "ABSENT"

(* getInvoiceBundle: an archived header is not found. *)
Visible(i) == status[i] # "ABSENT" /\ ~archived[i]

Active(i) == {p \in Package : link[i][p] = "active"}
Billed(i) == {p \in Package : \E r \in Req : <<p, r>> \in lines[i]}
LinesTotal(i) == Cardinality(lines[i])

(* Mutant: without the partial unique index. *)
BugLinkConflict(i, P) == FALSE

(* uniq_active_package_invoice: a new row is active, and at most one active *)
(* row per package may exist, so one offender fails the whole POST.         *)
LinkConflict(i, P) ==
  \E p \in P : /\ link[i][p] = "none"
               /\ \E j \in Invoice : link[j][p] = "active"

(* The upsert on (invoice_id, package_id) sends no "active" column: a new   *)
(* row gets the default TRUE, an existing one keeps the value it has.       *)
Upserted(i, P) ==
  [link EXCEPT ![i] = [p \in Package |->
     IF p \in P /\ link[i][p] = "none" THEN "active" ELSE link[i][p]]]

Released(i, P) ==
  [link EXCEPT ![i] = [p \in Package |->
     IF p \in P /\ link[i][p] = "active" THEN "released" ELSE link[i][p]]]

(* Mutant: without the unique key. *)
BugNumberTaken(n) == FALSE

(* The unique key (organization_id, fiscal_year, invoice_number). *)
NumberTaken(n) == \E i \in Existing : number[i] = n

(* nextInvoiceNumber reads the highest number of the year, archived rows too. *)
HighestNumber ==
  {n \in {0} \cup {number[i] : i \in Existing} :
     \A i \in Existing : number[i] <= n}

(* VOID is left alone; otherwise the status follows from the money.         *)
ComputeStatus(current, tot, paid) ==
  IF current = "VOID" THEN "VOID"
  ELSE IF tot > 0 /\ paid >= tot THEN "PAID"
  ELSE IF paid > 0 THEN "PARTIAL"
  ELSE IF current = "DRAFT" THEN "DRAFT" ELSE "ISSUED"

-----------------------------------------------------------------------------
Init ==
  /\ status = [i \in Invoice |-> "ABSENT"]
  /\ closed = [i \in Invoice |-> FALSE]
  /\ archived = [i \in Invoice |-> FALSE]
  /\ number = [i \in Invoice |-> 0]
  /\ total = [i \in Invoice |-> 0]
  /\ paidUsd = [i \in Invoice |-> 0]
  /\ payments = [i \in Invoice |-> 0]
  /\ lines = [i \in Invoice |-> {}]
  /\ link = [i \in Invoice |-> [p \in Package |-> "none"]]
  /\ pc = [r \in Req |-> "idle"]
  /\ loc = [r \in Req |-> Blank]

Goto(r, call, locals) ==
  /\ pc' = [pc EXCEPT ![r] = call]
  /\ loc' = [loc EXCEPT ![r] = locals]

(* The response is sent, whether a result or an error. *)
Finish(r) == Goto(r, "idle", Blank)

(* The first call of a request of endpoint op. *)
Accept(r, op) == pc[r] = "idle" /\ op \in Ops

-----------------------------------------------------------------------------
(* createInvoice and createBulkInvoice                                     *)

(* Bound: the model hands out no more than Cardinality(Invoice) ids. *)
RoomForInvoice ==
  Cardinality(Existing) + Cardinality({r \in Req : pc[r] \in {"number", "header"}})
    < Cardinality(Invoice)

(* resolveInvoicePackages: nothing selected may be billed already. *)
Unbilled(P) == \A p \in P, i \in Invoice : link[i][p] # "active"

CreateResolve(r) ==
  /\ Accept(r, "create")
  /\ RoomForInvoice
  /\ \E items \in SUBSET Item, extra \in SUBSET Package, st \in {"DRAFT", "ISSUED"} :
       LET want == (items \cap Package) \cup extra IN
       /\ items \cap Freight # {}
       /\ Unbilled(want)
       /\ Goto(r, "number", [Blank EXCEPT !.items = items, !.want = want, !.st = st])
  /\ UNCHANGED <<header, tables>>

(* previewBulkPackages: one line per package, the invoice is a DRAFT. *)
BulkPreview(r) ==
  /\ Accept(r, "bulk")
  /\ RoomForInvoice
  /\ \E P \in (SUBSET Package) \ {{}} :
       /\ Unbilled(P)
       /\ Goto(r, "number", [Blank EXCEPT !.items = P, !.want = P, !.st = "DRAFT"])
  /\ UNCHANGED <<header, tables>>

ReadNumber(r) ==
  /\ pc[r] = "number"
  /\ \E last \in HighestNumber : Goto(r, "header", [loc[r] EXCEPT !.num = last + 1])
  /\ UNCHANGED <<header, tables>>

(* Mutant: the id that the POST returns is lost. *)
BugInsertHeaderNoId(r) ==
  /\ pc[r] = "header"
  /\ ~NumberTaken(loc[r].num)
  /\ \E i \in Invoice \ Existing :
       /\ status' = [status EXCEPT ![i] = loc[r].st]
       /\ Goto(r, "lines", loc[r])
  /\ UNCHANGED <<closed, archived, number, total, paidUsd, tables>>

(* Mutant: an ISSUED invoice is born open. *)
BugInsertHeaderOpen(r) ==
  /\ pc[r] = "header"
  /\ ~NumberTaken(loc[r].num)
  /\ \E i \in Invoice \ Existing :
       /\ status' = [status EXCEPT ![i] = loc[r].st]
       /\ number' = [number EXCEPT ![i] = loc[r].num]
       /\ total' = [total EXCEPT ![i] = Cardinality(loc[r].items)]
       /\ Goto(r, "lines", [loc[r] EXCEPT !.inv = i])
  /\ UNCHANGED <<closed, archived, paidUsd, tables>>

(* createInvoiceHeader: anything but a DRAFT is born closed. *)
InsertHeader(r) ==
  /\ pc[r] = "header"
  /\ ~NumberTaken(loc[r].num)
  /\ \E i \in Invoice \ Existing :
       /\ status' = [status EXCEPT ![i] = loc[r].st]
       /\ closed' = [closed EXCEPT ![i] = (loc[r].st # "DRAFT")]
       /\ number' = [number EXCEPT ![i] = loc[r].num]
       /\ total' = [total EXCEPT ![i] = Cardinality(loc[r].items)]
       /\ Goto(r, "lines", [loc[r] EXCEPT !.inv = i])
  /\ UNCHANGED <<archived, paidUsd, tables>>

HeaderRefused(r) ==
  /\ pc[r] = "header"
  /\ NumberTaken(loc[r].num)
  /\ Finish(r)
  /\ UNCHANGED <<header, tables>>

InsertLines(r) ==
  /\ pc[r] = "lines"
  /\ lines' = [lines EXCEPT ![loc[r].inv] = @ \cup (loc[r].items \X {r})]
  /\ Goto(r, "link", loc[r])
  /\ UNCHANGED <<header, payments, link>>

(* linkPackages: one POST for the whole batch. *)
LinkBatch(r) ==
  /\ pc[r] = "link"
  /\ IF LinkConflict(loc[r].inv, loc[r].want)
       THEN /\ Goto(r, "undoLinks", loc[r])
            /\ UNCHANGED link
       ELSE /\ link' = Upserted(loc[r].inv, loc[r].want)
            /\ Goto(r, "guard", loc[r])
  /\ UNCHANGED <<header, payments, lines>>

(* listActiveLinkedPackageIds: every package of the invoice must be linked. *)
GuardLinks(r) ==
  /\ pc[r] = "guard"
  /\ IF loc[r].want \subseteq Active(loc[r].inv)
       THEN Finish(r)
       ELSE Goto(r, "undoLinks", loc[r])
  /\ UNCHANGED <<header, tables>>

(* rollbackPartialInvoice: release the links, then archive the header. *)
UndoLinks(r) ==
  /\ pc[r] = "undoLinks"
  /\ link' = Released(loc[r].inv, Package)
  /\ Goto(r, "undoArchive", loc[r])
  /\ UNCHANGED <<header, payments, lines>>

(* Mutant: the compensation only releases the links. *)
BugUndoArchive(r) ==
  /\ pc[r] = "undoArchive"
  /\ Finish(r)
  /\ UNCHANGED <<header, tables>>

UndoArchive(r) ==
  /\ pc[r] = "undoArchive"
  /\ archived' = [archived EXCEPT ![loc[r].inv] = TRUE]
  /\ Finish(r)
  /\ UNCHANGED <<status, closed, number, total, paidUsd, tables>>

-----------------------------------------------------------------------------
(* closeInvoice                                                            *)

(* Mutant: the financial lock is not looked at. *)
BugOpen(i) == Visible(i)

(* Open: the guard that closing, editing and linking share. *)
Open(i) == Visible(i) /\ ~closed[i]

CloseRead(r) ==
  /\ Accept(r, "close")
  /\ \E i \in Invoice :
       /\ Open(i) /\ status[i] # "VOID"
       /\ Goto(r, "closeCas", [Blank EXCEPT !.inv = i, !.st = status[i]])
  /\ UNCHANGED <<header, tables>>

(* Mutant: the PATCH filters on closed_at alone. *)
BugStillAsRead(i, st) == ~closed[i]

(* closeInvoiceIfOpen: the PATCH matches only the row the caller read. *)
StillAsRead(i, st) == ~closed[i] /\ status[i] = st

CloseCas(r) ==
  LET i == loc[r].inv IN
  /\ pc[r] = "closeCas"
  /\ IF StillAsRead(i, loc[r].st)
       THEN /\ closed' = [closed EXCEPT ![i] = TRUE]
            /\ status' = [status EXCEPT ![i] = IF loc[r].st = "DRAFT" THEN "ISSUED" ELSE loc[r].st]
       ELSE UNCHANGED <<closed, status>>
  /\ Finish(r)
  /\ UNCHANGED <<archived, number, total, paidUsd, tables>>

-----------------------------------------------------------------------------
(* applyPayment                                                            *)

(* Mutant: an open invoice takes payments. *)
BugPayable(i) == Visible(i) /\ status[i] # "VOID"

Payable(i) == Visible(i) /\ status[i] # "VOID" /\ closed[i]

PayReadHeader(r) ==
  /\ Accept(r, "pay")
  /\ \E i \in Invoice, amt \in Amounts :
       /\ Payable(i)
       /\ payments[i] < MaxPaid
       /\ Goto(r, "payRows", [Blank EXCEPT !.inv = i, !.st = status[i], !.amt = amt])
  /\ UNCHANGED <<header, tables>>

(* The second half of getInvoiceBundle: the lines and the payments. *)
PayReadRows(r) ==
  LET i == loc[r].inv IN
  /\ pc[r] = "payRows"
  /\ Goto(r, "payInsert", [loc[r] EXCEPT !.tot = LinesTotal(i), !.paid = payments[i]])
  /\ UNCHANGED <<header, tables>>

(* Mutant: the new payment is not added to what was read. *)
BugPayInsert(r) ==
  /\ pc[r] = "payInsert"
  /\ payments' = [payments EXCEPT ![loc[r].inv] = @ + loc[r].amt]
  /\ Goto(r, "payStatus", loc[r])
  /\ UNCHANGED <<header, lines, link>>

PayInsert(r) ==
  /\ pc[r] = "payInsert"
  /\ payments' = [payments EXCEPT ![loc[r].inv] = @ + loc[r].amt]
  /\ Goto(r, "payStatus", [loc[r] EXCEPT !.paid = @ + loc[r].amt])
  /\ UNCHANGED <<header, lines, link>>

(* setInvoiceStatus filters on the id alone. *)
PayStatus(r) ==
  /\ pc[r] = "payStatus"
  /\ status' = [status EXCEPT ![loc[r].inv] =
                  ComputeStatus(loc[r].st, loc[r].tot, loc[r].paid)]
  /\ Goto(r, "payTotals", loc[r])
  /\ UNCHANGED <<closed, archived, number, total, paidUsd, tables>>

(* So does setInvoiceTotals. *)
PayTotals(r) ==
  /\ pc[r] = "payTotals"
  /\ total' = [total EXCEPT ![loc[r].inv] = loc[r].tot]
  /\ paidUsd' = [paidUsd EXCEPT ![loc[r].inv] = loc[r].paid]
  /\ Finish(r)
  /\ UNCHANGED <<status, closed, archived, number, tables>>

-----------------------------------------------------------------------------
(* voidInvoice and archiveInvoice                                          *)

VoidRead(r) ==
  /\ Accept(r, "void")
  /\ \E i \in Invoice :
       /\ Visible(i)
       /\ Goto(r, "voidStatus", [Blank EXCEPT !.inv = i])
  /\ UNCHANGED <<header, tables>>

(* Mutant: the links are not released. *)
BugVoidStatus(r) ==
  /\ pc[r] = "voidStatus"
  /\ status' = [status EXCEPT ![loc[r].inv] = "VOID"]
  /\ Finish(r)
  /\ UNCHANGED <<closed, archived, number, total, paidUsd, tables>>

(* No condition on the status that was read: a VOID may be voided again. *)
VoidStatus(r) ==
  /\ pc[r] = "voidStatus"
  /\ status' = [status EXCEPT ![loc[r].inv] = "VOID"]
  /\ Goto(r, "release", loc[r])
  /\ UNCHANGED <<closed, archived, number, total, paidUsd, tables>>

ArchiveRead(r) ==
  /\ Accept(r, "archive")
  /\ \E i \in Invoice :
       /\ Visible(i)
       /\ Goto(r, "stamp", [Blank EXCEPT !.inv = i])
  /\ UNCHANGED <<header, tables>>

(* setInvoiceArchived: a no-op on a row that is archived already. *)
ArchiveStamp(r) ==
  /\ pc[r] = "stamp"
  /\ archived' = [archived EXCEPT ![loc[r].inv] = TRUE]
  /\ Goto(r, "release", loc[r])
  /\ UNCHANGED <<status, closed, number, total, paidUsd, tables>>

(* releasePackageLinksByInvoice, the last write of both handlers. *)
ReleaseLinks(r) ==
  /\ pc[r] = "release"
  /\ link' = Released(loc[r].inv, Package)
  /\ Finish(r)
  /\ UNCHANGED <<header, payments, lines>>

-----------------------------------------------------------------------------
(* linkPackage and unlinkPackage                                           *)

(* Only closed_at is looked at, so a voided draft passes. *)
LinkRead(r) ==
  /\ Accept(r, "link")
  /\ \E i \in Invoice, p \in Package :
       /\ Open(i)
       /\ Goto(r, "linkCheck", [Blank EXCEPT !.inv = i, !.want = {p}])
  /\ UNCHANGED <<header, tables>>

(* The active link of another invoice refuses the request. *)
BilledElsewhere(i, P) == \E p \in P, j \in Invoice \ {i} : link[j][p] = "active"

LinkCheck(r) ==
  /\ pc[r] = "linkCheck"
  /\ IF BilledElsewhere(loc[r].inv, loc[r].want)
       THEN Finish(r)
       ELSE Goto(r, "linkPost", loc[r])
  /\ UNCHANGED <<header, tables>>

LinkPost(r) ==
  /\ pc[r] = "linkPost"
  /\ IF LinkConflict(loc[r].inv, loc[r].want)
       THEN UNCHANGED link
       ELSE link' = Upserted(loc[r].inv, loc[r].want)
  /\ Finish(r)
  /\ UNCHANGED <<header, payments, lines>>

UnlinkRead(r) ==
  /\ Accept(r, "unlink")
  /\ \E i \in Invoice, p \in Package :
       /\ Open(i)
       /\ Goto(r, "unlink", [Blank EXCEPT !.inv = i, !.want = {p}])
  /\ UNCHANGED <<header, tables>>

UnlinkPatch(r) ==
  /\ pc[r] = "unlink"
  /\ link' = Released(loc[r].inv, loc[r].want)
  /\ Finish(r)
  /\ UNCHANGED <<header, payments, lines>>

-----------------------------------------------------------------------------
(* updateInvoice, with lines, with other charges, or with both             *)

EditReadHeader(r) ==
  /\ Accept(r, "edit")
  /\ \E i \in Invoice, items \in (SUBSET Item) \ {{}} :
       /\ Open(i) /\ status[i] # "VOID"
       /\ Goto(r, "editRows", [Blank EXCEPT !.inv = i, !.items = items,
                                            !.want = items \cap Package])
  /\ UNCHANGED <<header, tables>>

EditReadRows(r) ==
  /\ pc[r] = "editRows"
  /\ Goto(r, "editResolve", [loc[r] EXCEPT !.cur = Active(loc[r].inv)])
  /\ UNCHANGED <<header, tables>>

(* resolveInvoicePackages, which tolerates links of this very invoice. *)
EditResolve(r) ==
  /\ pc[r] = "editResolve"
  /\ IF BilledElsewhere(loc[r].inv, loc[r].want)
       THEN Finish(r)
       ELSE Goto(r, "editDelete", loc[r])
  /\ UNCHANGED <<header, tables>>

(* replaceLineItems: a DELETE of every line, whoever posted it ... *)
EditDelete(r) ==
  /\ pc[r] = "editDelete"
  /\ lines' = [lines EXCEPT ![loc[r].inv] = {}]
  /\ Goto(r, "editInsert", loc[r])
  /\ UNCHANGED <<header, payments, link>>

(* ... and a POST of the new ones.  Links are synchronised only when the    *)
(* new lines name packages: want becomes what to link, cur what to unlink.  *)
EditInsert(r) ==
  LET l == loc[r] IN
  /\ pc[r] = "editInsert"
  /\ lines' = [lines EXCEPT ![l.inv] = @ \cup (l.items \X {r})]
  /\ IF l.want = {}
       THEN Goto(r, "editPatch", [l EXCEPT !.cur = {}])
       ELSE Goto(r, "editLinks", [l EXCEPT !.want = l.want \ l.cur, !.cur = l.cur \ l.want])
  /\ UNCHANGED <<header, payments, link>>

(* One POST per package to add; a refused one ends the request half way. *)
EditLink(r) ==
  /\ pc[r] = "editLinks"
  /\ \E p \in loc[r].want :
       IF LinkConflict(loc[r].inv, {p})
         THEN /\ Finish(r)
              /\ UNCHANGED link
         ELSE /\ link' = Upserted(loc[r].inv, {p})
              /\ Goto(r, "editLinks", [loc[r] EXCEPT !.want = @ \ {p}])
  /\ UNCHANGED <<header, payments, lines>>

(* Then one PATCH per package to drop. *)
EditUnlink(r) ==
  /\ pc[r] = "editLinks" /\ loc[r].want = {}
  /\ \E p \in loc[r].cur :
       /\ link' = Released(loc[r].inv, {p})
       /\ Goto(r, "editLinks", [loc[r] EXCEPT !.cur = @ \ {p}])
  /\ UNCHANGED <<header, payments, lines>>

(* Mutant: the totals are not written back. *)
BugEditPatch(r) ==
  /\ \/ pc[r] = "editPatch"
     \/ pc[r] = "editLinks" /\ loc[r].want = {} /\ loc[r].cur = {}
  /\ Finish(r)
  /\ UNCHANGED <<header, tables>>

(* patchInvoiceHeader filters on the id alone. *)
EditPatch(r) ==
  /\ \/ pc[r] = "editPatch"
     \/ pc[r] = "editLinks" /\ loc[r].want = {} /\ loc[r].cur = {}
  /\ total' = [total EXCEPT ![loc[r].inv] = Cardinality(loc[r].items)]
  /\ Finish(r)
  /\ UNCHANGED <<status, closed, archived, number, paidUsd, tables>>

-----------------------------------------------------------------------------
(* Failures                                                                *)

(* A failing call of the try block starts the compensation. *)
CreateCallFails(r) ==
  /\ "call" \in Faults
  /\ pc[r] \in TryPc
  /\ Goto(r, "undoLinks", loc[r])
  /\ UNCHANGED <<header, tables>>

(* Elsewhere it ends the request; what was written stays.  So it does in    *)
(* the compensation, which logs the error of either of its two writes and   *)
(* swallows it: a failed release skips the archiving.                       *)
CallFails(r) ==
  /\ "call" \in Faults
  /\ pc[r] \in OtherPc \cup UndoPc
  /\ Finish(r)
  /\ UNCHANGED <<header, tables>>

(* The Worker is cut off between two calls (subrequest limit, eviction).    *)
Crash(r) ==
  /\ "crash" \in Faults
  /\ pc[r] # "idle"
  /\ Finish(r)
  /\ UNCHANGED <<header, tables>>

-----------------------------------------------------------------------------
(* The next call of a request that has been accepted. *)
Continue(r) ==
  \/ ReadNumber(r) \/ InsertHeader(r) \/ HeaderRefused(r) \/ InsertLines(r)
  \/ LinkBatch(r) \/ GuardLinks(r) \/ UndoLinks(r) \/ UndoArchive(r)
  \/ CloseCas(r)
  \/ PayReadRows(r) \/ PayInsert(r) \/ PayStatus(r) \/ PayTotals(r)
  \/ VoidStatus(r) \/ ArchiveStamp(r) \/ ReleaseLinks(r)
  \/ LinkCheck(r) \/ LinkPost(r) \/ UnlinkPatch(r)
  \/ EditReadRows(r) \/ EditResolve(r) \/ EditDelete(r) \/ EditInsert(r)
  \/ EditLink(r) \/ EditUnlink(r) \/ EditPatch(r)

(* A request arrives and makes its first call. *)
Arrive(r) ==
  \/ CreateResolve(r) \/ BulkPreview(r) \/ CloseRead(r) \/ PayReadHeader(r)
  \/ VoidRead(r) \/ ArchiveRead(r) \/ LinkRead(r) \/ UnlinkRead(r)
  \/ EditReadHeader(r)

Fail(r) == CreateCallFails(r) \/ CallFails(r) \/ Crash(r)

Next == \E r \in Req : Continue(r) \/ Arrive(r) \/ Fail(r)

Spec == Init /\ [][Next]_vars

(* What every variable may hold. *)
TypeOK ==
  /\ status \in [Invoice -> Status \cup {"ABSENT"}]
  /\ closed \in [Invoice -> BOOLEAN]
  /\ archived \in [Invoice -> BOOLEAN]
  /\ number \in [Invoice -> Nat]
  /\ total \in [Invoice -> Nat]
  /\ paidUsd \in [Invoice -> Nat]
  /\ payments \in [Invoice -> Nat]
  /\ lines \in [Invoice -> SUBSET (Item \X Req)]
  /\ link \in [Invoice -> [Package -> LinkState]]
  /\ pc \in [Req -> Pc]
  /\ loc \in [Req -> Local]
  /\ \A r \in Req : pc[r] \notin {"idle", "number", "header"} => loc[r].inv \in Invoice
=============================================================================
