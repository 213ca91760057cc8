----------------------------- MODULE BooksProofs -----------------------------
(***************************************************************************)
(* The books of every invoice, for every set of invoices, packages and     *)
(* requests, all endpoints and all faults.  No hypothesis serialises the   *)
(* requests: what an overlap or a stop between two writes may spoil is     *)
(* recorded by the history of BooksRequirements, and the proofs show that  *)
(* nothing else spoils it.  Three facts need no history: an archived, a    *)
(* locked and a voided invoice are final as soon as nobody who passed the  *)
(* guard earlier has a write left.                                         *)
(***************************************************************************)
EXTENDS BooksRequirements, BillingProofs

-----------------------------------------------------------------------------
(* No table changes for invoice i, its number apart. *)
Untouched(i) ==
  /\ status'[i] = status[i] /\ closed'[i] = closed[i] /\ archived'[i] = archived[i]
  /\ total'[i] = total[i] /\ paidUsd'[i] = paidUsd[i]
  /\ payments'[i] = payments[i] /\ lines'[i] = lines[i] /\ link'[i] = link[i]

(***************************************************************************)
(* Which calls write which column.                                         *)
(***************************************************************************)
LEMMA ColumnWriters ==
  ASSUME NEW r \in Req, Continue(r) \/ Arrive(r) \/ Fail(r)
  PROVE  /\ status' = status \/ InsertHeader(r) \/ CloseCas(r) \/ PayStatus(r) \/ VoidStatus(r)
         /\ closed' = closed \/ InsertHeader(r) \/ CloseCas(r)
         /\ archived' = archived \/ UndoArchive(r) \/ ArchiveStamp(r)
         /\ total' = total \/ InsertHeader(r) \/ PayTotals(r) \/ EditPatch(r)
         /\ paidUsd' = paidUsd \/ PayTotals(r)
         /\ payments' = payments \/ PayInsert(r)
         /\ lines' = lines \/ InsertLines(r) \/ EditDelete(r) \/ EditInsert(r)
         /\ \/ link' = link \/ LinkBatch(r) \/ LinkPost(r) \/ EditLink(r)
            \/ UndoLinks(r) \/ ReleaseLinks(r) \/ UnlinkPatch(r) \/ EditUnlink(r)
<1> USE DEF header, tables
<1>1. CASE Arrive(r)
  <2>1. UNCHANGED <<header, tables>>
    BY <1>1
    DEF Arrive, CreateResolve, BulkPreview, CloseRead, PayReadHeader, VoidRead, ArchiveRead,
        LinkRead, UnlinkRead, EditReadHeader
  <2> QED
    BY <2>1
<1>2. CASE Fail(r)
  BY <1>2 DEF Fail, CreateCallFails, CallFails, Crash
<1>3. CASE Continue(r)
  BY <1>3
  DEF Continue, ReadNumber, InsertHeader, HeaderRefused, InsertLines, LinkBatch, GuardLinks,
      UndoLinks, UndoArchive, CloseCas, PayReadRows, PayInsert, PayStatus, PayTotals,
      VoidStatus, ArchiveStamp, ReleaseLinks, LinkCheck, LinkPost, UnlinkPatch, EditReadRows,
      EditResolve, EditDelete, EditInsert, EditLink, EditUnlink, EditPatch
<1> QED
  BY <1>1, <1>2, <1>3

(***************************************************************************)
(* A write of the link table of one invoice leaves the others alone, and a *)
(* release of all of an invoice's links leaves it none.                    *)
(***************************************************************************)
LEMMA LinkWritesOwn ==
  ASSUME TypeOK, NEW j \in Invoice, NEW P, NEW i \in Invoice, i # j
  PROVE  Upserted(j, P)[i] = link[i] /\ Released(j, P)[i] = link[i]
BY DEF TypeOK, Upserted, Released

LEMMA LinkWritesEmpty ==
  ASSUME TypeOK, NEW i \in Invoice, link' = Released(i, Package)
  PROVE  Active(i)' = {}
BY DEF TypeOK, Active, Released

(***************************************************************************)
(* Every step but the birth of an invoice writes, in every table, the rows *)
(* of one invoice only: the one its request works on.                      *)
(***************************************************************************)
LEMMA StepWritesOwnInvoice ==
  ASSUME TypeOK, NEW r \in Req, Continue(r) \/ Arrive(r) \/ Fail(r), ~InsertHeader(r),
         NEW i \in Invoice, i # loc[r].inv
  PROVE  Untouched(i)
<1> USE DEF Untouched, header, tables
<1>1. CASE \/ LinkBatch(r) \/ UndoLinks(r) \/ ReleaseLinks(r) \/ LinkPost(r)
           \/ UnlinkPatch(r) \/ EditLink(r) \/ EditUnlink(r)
  <2>1. loc[r].inv \in Invoice
    BY <1>1 DEF LinkBatch, UndoLinks, ReleaseLinks, LinkPost, UnlinkPatch, EditLink,
                EditUnlink, TypeOK
  <2>2. link'[i] = link[i]
    <3>1. CASE LinkBatch(r) \/ LinkPost(r)
      BY <2>1, <3>1, LinkWritesOwn DEF LinkBatch, LinkPost
    <3>2. CASE UndoLinks(r) \/ ReleaseLinks(r) \/ UnlinkPatch(r)
      BY <2>1, <3>2, LinkWritesOwn DEF UndoLinks, ReleaseLinks, UnlinkPatch
    <3>3. CASE EditLink(r)
      BY <2>1, <3>3, LinkWritesOwn DEF EditLink
    <3>4. CASE EditUnlink(r)
      BY <2>1, <3>4, LinkWritesOwn DEF EditUnlink
    <3> QED
      BY <1>1, <3>1, <3>2, <3>3, <3>4
  <2> QED
    BY <1>1, <2>2 DEF LinkBatch, UndoLinks, ReleaseLinks, LinkPost, UnlinkPatch, EditLink,
                      EditUnlink
<1>2. CASE \/ InsertLines(r) \/ PayInsert(r) \/ EditDelete(r) \/ EditInsert(r)
  BY <1>2 DEF InsertLines, PayInsert, EditDelete, EditInsert, TypeOK
<1>3. CASE \/ UndoArchive(r) \/ CloseCas(r) \/ PayStatus(r) \/ PayTotals(r)
           \/ VoidStatus(r) \/ ArchiveStamp(r) \/ EditPatch(r)
  BY <1>3 DEF UndoArchive, CloseCas, PayStatus, PayTotals, VoidStatus, ArchiveStamp,
              EditPatch, TypeOK
<1>4. CASE \/ ReadNumber(r) \/ HeaderRefused(r) \/ GuardLinks(r) \/ PayReadRows(r)
           \/ LinkCheck(r) \/ EditReadRows(r) \/ EditResolve(r)
  BY <1>4 DEF ReadNumber, HeaderRefused, GuardLinks, PayReadRows, LinkCheck, EditReadRows,
              EditResolve
<1>5. CASE Arrive(r)
  BY <1>5
  DEF Arrive, CreateResolve, BulkPreview, CloseRead, PayReadHeader, VoidRead, ArchiveRead,
      LinkRead, UnlinkRead, EditReadHeader
<1>6. CASE Fail(r)
  BY <1>6 DEF Fail, CreateCallFails, CallFails, Crash
<1> QED
  BY <1>1, <1>2, <1>3, <1>4, <1>5, <1>6 DEF Continue

(***************************************************************************)
(* No write makes an invoice that exists absent again.                     *)
(***************************************************************************)
LEMMA ExistingStay ==
  ASSUME TypeOK, LockInv, NEW r \in Req, Continue(r) \/ Arrive(r) \/ Fail(r),
         NEW i \in Invoice, status[i] # "ABSENT"
  PROVE  status'[i] # "ABSENT"
<1> USE DEF header
<1>1. CASE InsertHeader(r)
  BY <1>1 DEF InsertHeader, Existing, TypeOK
<1>2. CASE CloseCas(r)
  BY <1>2 DEF CloseCas, StillAsRead, TypeOK
<1>3. CASE VoidStatus(r)
  BY <1>3 DEF VoidStatus, TypeOK
<1>4. CASE PayStatus(r)
  <2>1. loc[r] \in Local /\ status \in [Invoice -> Status \cup {"ABSENT"}]
    BY DEF TypeOK
  <2>2. ComputeStatus(loc[r].st, loc[r].tot, loc[r].paid) \in Status
    BY <2>1, ComputeStatusType DEF Local
  <2>3. "ABSENT" \notin Status
    BY DEF Status
  <2>4. status' = [status EXCEPT ![loc[r].inv] =
                     ComputeStatus(loc[r].st, loc[r].tot, loc[r].paid)]
    BY <1>4 DEF PayStatus
  <2> HIDE DEF header
  <2> QED
    BY <2>1, <2>2, <2>3, <2>4
<1>5. CASE \/ ReadNumber(r) \/ HeaderRefused(r) \/ InsertLines(r) \/ LinkBatch(r)
           \/ GuardLinks(r) \/ UndoLinks(r) \/ UndoArchive(r) \/ PayReadRows(r)
           \/ PayInsert(r) \/ PayTotals(r) \/ ArchiveStamp(r) \/ ReleaseLinks(r)
           \/ LinkCheck(r) \/ LinkPost(r) \/ UnlinkPatch(r) \/ EditReadRows(r)
           \/ EditResolve(r) \/ EditDelete(r) \/ EditInsert(r) \/ EditLink(r)
           \/ EditUnlink(r) \/ EditPatch(r)
  BY <1>5
  DEF ReadNumber, HeaderRefused, InsertLines, LinkBatch, GuardLinks, UndoLinks, UndoArchive,
      PayReadRows, PayInsert, PayTotals, ArchiveStamp, ReleaseLinks, LinkCheck, LinkPost,
      UnlinkPatch, EditReadRows, EditResolve, EditDelete, EditInsert, EditLink, EditUnlink,
      EditPatch
<1>6. CASE Arrive(r)
  BY <1>6
  DEF Arrive, CreateResolve, BulkPreview, CloseRead, PayReadHeader, VoidRead, ArchiveRead,
      LinkRead, UnlinkRead, EditReadHeader
<1>7. CASE Fail(r)
  BY <1>7 DEF Fail, CreateCallFails, CallFails, Crash
<1> QED
  BY <1>1, <1>2, <1>3, <1>4, <1>5, <1>6, <1>7 DEF Continue

(***************************************************************************)
(* The birth of an invoice.                                                *)
(***************************************************************************)
LEMMA InsertHeaderWrites ==
  ASSUME TypeOK, LockInv, NEW r \in Req, InsertHeader(r)
  PROVE  \E i \in Invoice, n \in Local :
           /\ status[i] = "ABSENT" /\ Goto(r, "lines", n)
           /\ n.inv = i /\ n.items = loc[r].items
           /\ status'[i] \in {"DRAFT", "ISSUED"} /\ closed'[i] = (status'[i] # "DRAFT")
           /\ total'[i] = Cardinality(n.items) /\ archived'[i] = archived[i]
           /\ paidUsd'[i] = paidUsd[i] /\ payments'[i] = payments[i]
           /\ lines'[i] = lines[i] /\ link'[i] = link[i]
           /\ \A j \in Invoice \ {i} : Untouched(j)
<1>1. PICK i \in Invoice \ Existing :
        /\ status' = [status EXCEPT ![i] = loc[r].st]
        /\ closed' = [closed EXCEPT ![i] = (loc[r].st # "DRAFT")]
        /\ total' = [total EXCEPT ![i] = Cardinality(loc[r].items)]
        /\ Goto(r, "lines", [loc[r] EXCEPT !.inv = i])
  BY DEF InsertHeader
<1>2. UNCHANGED <<archived, paidUsd, payments, lines, link>>
  BY DEF InsertHeader, tables
<1>3. status[i] = "ABSENT" /\ loc[r].st \in {"DRAFT", "ISSUED"}
  BY <1>1 DEF InsertHeader, Existing, LockInv, RequestsSound, Sound, Announced
<1> DEFINE n == [loc[r] EXCEPT !.inv = i]
<1>4. n \in Local /\ n.inv = i /\ n.items = loc[r].items
  <2>1. loc[r] \in Local
    BY DEF TypeOK
  <2> QED
    BY <2>1 DEF Local
<1>5. Goto(r, "lines", n)
  BY <1>1
<1> HIDE DEF n
<1>6. /\ status'[i] = loc[r].st /\ closed'[i] = (loc[r].st # "DRAFT")
      /\ total'[i] = Cardinality(loc[r].items)
      /\ \A j \in Invoice \ {i} : Untouched(j)
  BY <1>1, <1>2 DEF Untouched, TypeOK
<1> QED
  BY <1>1, <1>2, <1>3, <1>4, <1>5, <1>6

-----------------------------------------------------------------------------
(***************************************************************************)
(* Where a request starts: with no invoice, or on a visible one that fits  *)
(* the guard of its endpoint.  Nothing is written yet.                     *)
(***************************************************************************)
FirstCall ==
  {"number", "closeCas", "payRows", "voidStatus", "stamp", "linkCheck", "unlink", "editRows"}

Admitted(call, l) ==
  /\ call = "number" => l.inv = NoInvoice
  /\ call # "number" => l.inv \in Invoice /\ Visible(l.inv)
  /\ call \in {"closeCas", "payRows", "editRows"} => status[l.inv] # "VOID"
  /\ call \in {"closeCas", "linkCheck", "unlink", "editRows"} => ~closed[l.inv]
  /\ call = "linkCheck" => "link" \in Ops
  /\ call = "closeCas" => l.st # "VOID"

LEMMA ArriveShape ==
  ASSUME TypeOK, NEW r \in Req, Arrive(r)
  PROVE  /\ pc[r] = "idle" /\ UNCHANGED <<header, tables>>
         /\ \E call \in FirstCall, l \in Local : Goto(r, call, l) /\ Admitted(call, l)
<1> USE DEF FirstCall, Admitted
<1>0. pc[r] = "idle" /\ UNCHANGED <<header, tables>>
  BY DEF Arrive, CreateResolve, BulkPreview, CloseRead, PayReadHeader, VoidRead, ArchiveRead,
         LinkRead, UnlinkRead, EditReadHeader, Accept
<1>1. CASE CreateResolve(r) \/ BulkPreview(r)
  <2>1. PICK items \in SUBSET Item, want \in SUBSET Package, st \in {"DRAFT", "ISSUED"} :
          Goto(r, "number", [Blank EXCEPT !.items = items, !.want = want, !.st = st])
    BY <1>1 DEF CreateResolve, BulkPreview, Item, Freight
  <2> DEFINE n == [Blank EXCEPT !.items = items, !.want = want, !.st = st]
  <2>2. n \in Local /\ n.inv = NoInvoice
    BY BlankType DEF Local, Status, Blank
  <2>3. Goto(r, "number", n)
    BY <2>1
  <2> HIDE DEF n
  <2> QED
    BY <1>0, <2>2, <2>3
<1>2. CASE CloseRead(r)
  <2>1. PICK i \in Invoice :
          /\ Open(i) /\ status[i] # "VOID"
          /\ Goto(r, "closeCas", [Blank EXCEPT !.inv = i, !.st = status[i]])
    BY <1>2 DEF CloseRead
  <2> DEFINE n == [Blank EXCEPT !.inv = i, !.st = status[i]]
  <2>2. n \in Local /\ n.inv = i /\ n.st = status[i]
    BY DEF Local, Blank, TypeOK
  <2>3. Goto(r, "closeCas", n)
    BY <2>1
  <2> HIDE DEF n
  <2> QED
    BY <1>0, <2>1, <2>2, <2>3 DEF Open
<1>3. CASE PayReadHeader(r)
  <2>1. PICK i \in Invoice, amt \in Amounts :
          /\ Payable(i)
          /\ Goto(r, "payRows", [Blank EXCEPT !.inv = i, !.st = status[i], !.amt = amt])
    BY <1>3 DEF PayReadHeader
  <2> DEFINE n == [Blank EXCEPT !.inv = i, !.st = status[i], !.amt = amt]
  <2>2. n \in Local /\ n.inv = i
    BY BillingAssumption DEF Local, Blank, TypeOK
  <2>3. Goto(r, "payRows", n)
    BY <2>1
  <2> HIDE DEF n
  <2> QED
    BY <1>0, <2>1, <2>2, <2>3 DEF Payable
<1>4. CASE VoidRead(r) \/ ArchiveRead(r)
  <2>1. PICK i \in Invoice, call \in {"voidStatus", "stamp"} :
          Visible(i) /\ Goto(r, call, [Blank EXCEPT !.inv = i])
    BY <1>4 DEF VoidRead, ArchiveRead
  <2> DEFINE n == [Blank EXCEPT !.inv = i]
  <2>2. n \in Local /\ n.inv = i
    BY BlankType DEF Local, Blank
  <2>3. Goto(r, call, n)
    BY <2>1
  <2> HIDE DEF n
  <2> QED
    BY <1>0, <2>1, <2>2, <2>3
<1>5. CASE LinkRead(r) \/ UnlinkRead(r)
  <2>1. PICK i \in Invoice, p \in Package, call \in {"linkCheck", "unlink"} :
          /\ Open(i) /\ (call = "linkCheck" => "link" \in Ops)
          /\ Goto(r, call, [Blank EXCEPT !.inv = i, !.want = {p}])
    BY <1>5 DEF LinkRead, UnlinkRead, Accept
  <2> DEFINE n == [Blank EXCEPT !.inv = i, !.want = {p}]
  <2>2. n \in Local /\ n.inv = i
    BY BlankType DEF Local, Blank
  <2>3. Goto(r, call, n)
    BY <2>1
  <2> HIDE DEF n
  <2> QED
    BY <1>0, <2>1, <2>2, <2>3 DEF Open
<1>6. CASE EditReadHeader(r)
  <2>1. PICK i \in Invoice, items \in (SUBSET Item) \ {{}} :
          /\ Open(i) /\ status[i] # "VOID"
          /\ Goto(r, "editRows", [Blank EXCEPT !.inv = i, !.items = items,
                                               !.want = items \cap Package])
    BY <1>6 DEF EditReadHeader
  <2> DEFINE n == [Blank EXCEPT !.inv = i, !.items = items, !.want = items \cap Package]
  <2>2. n \in Local /\ n.inv = i
    BY BlankType DEF Local, Blank
  <2>3. Goto(r, "editRows", n)
    BY <2>1
  <2> HIDE DEF n
  <2> QED
    BY <1>0, <2>1, <2>2, <2>3 DEF Open
<1> QED
  BY <1>1, <1>2, <1>3, <1>4, <1>5, <1>6 DEF Arrive

(***************************************************************************)
(* Where a request goes on: to the end, or along the calls of its endpoint *)
(* with the invoice it has.                                                *)
(***************************************************************************)
Follows ==
  { <<"number", "header">>, <<"lines", "link">>, <<"link", "guard">>,
    <<"lines", "undoLinks">>, <<"link", "undoLinks">>, <<"guard", "undoLinks">>,
    <<"undoLinks", "undoArchive">>,
    <<"payRows", "payInsert">>, <<"payInsert", "payStatus">>, <<"payStatus", "payTotals">>,
    <<"voidStatus", "release">>, <<"stamp", "release">>, <<"linkCheck", "linkPost">>,
    <<"editRows", "editResolve">>, <<"editResolve", "editDelete">>,
    <<"editDelete", "editInsert">>, <<"editInsert", "editLinks">>,
    <<"editInsert", "editPatch">>, <<"editLinks", "editLinks">> }

LEMMA ContinueShape ==
  ASSUME TypeOK, NEW r \in Req, Continue(r) \/ Fail(r), ~InsertHeader(r)
  PROVE  \/ Finish(r)
         \/ \E call \in Pc, l \in Local :
              Goto(r, call, l) /\ <<pc[r], call>> \in Follows /\ l.inv = loc[r].inv
<1> USE DEF Follows, Pc, TryPc, UndoPc, OtherPc
<1>0. loc[r] \in Local
  BY DEF TypeOK
<1>1. CASE Finish(r)
  BY <1>1
<1>2. CASE ReadNumber(r)
  <2>1. PICK last \in HighestNumber : Goto(r, "header", [loc[r] EXCEPT !.num = last + 1])
    BY <1>2 DEF ReadNumber
  <2>2. last \in Nat
    BY <2>1 DEF HighestNumber, Existing, TypeOK
  <2> DEFINE n == [loc[r] EXCEPT !.num = last + 1]
  <2>3. n \in Local /\ n.inv = loc[r].inv
    BY <1>0, <2>2 DEF Local
  <2>4. pc[r] = "number" /\ Goto(r, "header", n)
    BY <1>2, <2>1 DEF ReadNumber
  <2> HIDE DEF n
  <2> QED
    BY <2>3, <2>4
<1>3. CASE PayReadRows(r)
  <2> DEFINE n == [loc[r] EXCEPT !.tot = LinesTotal(loc[r].inv), !.paid = payments[loc[r].inv]]
  <2>1. LinesTotal(loc[r].inv) \in Nat /\ payments[loc[r].inv] \in Nat
    BY <1>3, ItemsFinite DEF PayReadRows, LinesTotal, TypeOK
  <2>2. n \in Local /\ n.inv = loc[r].inv
    BY <1>0, <2>1 DEF Local
  <2>3. pc[r] = "payRows" /\ Goto(r, "payInsert", n)
    BY <1>3 DEF PayReadRows
  <2> HIDE DEF n
  <2> QED
    BY <2>2, <2>3
<1>4. CASE PayInsert(r)
  <2> DEFINE n == [loc[r] EXCEPT !.paid = @ + loc[r].amt]
  <2>2. n \in Local /\ n.inv = loc[r].inv
    BY <1>0 DEF Local
  <2>3. pc[r] = "payInsert" /\ Goto(r, "payStatus", n)
    BY <1>4 DEF PayInsert
  <2> HIDE DEF n
  <2> QED
    BY <2>2, <2>3
<1>5. CASE EditReadRows(r)
  <2> DEFINE n == [loc[r] EXCEPT !.cur = Active(loc[r].inv)]
  <2>2. n \in Local /\ n.inv = loc[r].inv
    BY <1>0 DEF Local, Active
  <2>3. pc[r] = "editRows" /\ Goto(r, "editResolve", n)
    BY <1>5 DEF EditReadRows
  <2> HIDE DEF n
  <2> QED
    BY <2>2, <2>3
<1>6. CASE EditInsert(r)
  <2> DEFINE a == [loc[r] EXCEPT !.cur = {}]
             b == [loc[r] EXCEPT !.want = loc[r].want \ loc[r].cur,
                                 !.cur = loc[r].cur \ loc[r].want]
  <2>1. a \in Local /\ a.inv = loc[r].inv /\ b \in Local /\ b.inv = loc[r].inv
    BY <1>0 DEF Local
  <2>2. pc[r] = "editInsert" /\ (Goto(r, "editPatch", a) \/ Goto(r, "editLinks", b))
    BY <1>6 DEF EditInsert
  <2> HIDE DEF a, b
  <2> QED
    BY <2>1, <2>2
<1>7. CASE (EditLink(r) \/ EditUnlink(r)) /\ ~Finish(r)
  <2>1. PICK p \in Package :
          \/ Goto(r, "editLinks", [loc[r] EXCEPT !.want = @ \ {p}])
          \/ Goto(r, "editLinks", [loc[r] EXCEPT !.cur = @ \ {p}])
    BY <1>0, <1>7 DEF EditLink, EditUnlink, Local
  <2> DEFINE a == [loc[r] EXCEPT !.want = @ \ {p}]
             b == [loc[r] EXCEPT !.cur = @ \ {p}]
  <2>2. a \in Local /\ a.inv = loc[r].inv /\ b \in Local /\ b.inv = loc[r].inv
    BY <1>0 DEF Local
  <2>3. pc[r] = "editLinks" /\ (Goto(r, "editLinks", a) \/ Goto(r, "editLinks", b))
    BY <1>7, <2>1 DEF EditLink, EditUnlink
  <2> HIDE DEF a, b
  <2> QED
    BY <2>2, <2>3
<1>8. CASE \/ InsertLines(r) \/ LinkBatch(r) \/ GuardLinks(r) \/ UndoLinks(r) \/ PayStatus(r)
           \/ VoidStatus(r) \/ ArchiveStamp(r) \/ LinkCheck(r) \/ EditResolve(r)
           \/ EditDelete(r) \/ CreateCallFails(r)
  <2>1. \/ Finish(r)
        \/ \E call \in Pc : Goto(r, call, loc[r]) /\ <<pc[r], call>> \in Follows
    BY <1>8 DEF InsertLines, LinkBatch, GuardLinks, UndoLinks, PayStatus, VoidStatus,
                ArchiveStamp, LinkCheck, EditResolve, EditDelete, CreateCallFails
  <2> QED
    BY <1>0, <2>1
<1>9. CASE \/ HeaderRefused(r) \/ UndoArchive(r) \/ CloseCas(r) \/ PayTotals(r)
           \/ ReleaseLinks(r) \/ LinkPost(r) \/ UnlinkPatch(r) \/ EditPatch(r)
           \/ CallFails(r) \/ Crash(r)
  BY <1>9 DEF HeaderRefused, UndoArchive, CloseCas, PayTotals, ReleaseLinks, LinkPost,
              UnlinkPatch, EditPatch, CallFails, Crash
<1> QED
  BY <1>1, <1>2, <1>3, <1>4, <1>5, <1>6, <1>7, <1>8, <1>9 DEF Continue, Fail

-----------------------------------------------------------------------------
(***************************************************************************)
(* What holds of every request and every invoice, whatever overlaps: a     *)
(* request without an invoice names none, a close has read a status that   *)
(* is not VOID, a payment counts no money that is not in the table, and an *)
(* invoice that does not exist has no rows.                                *)
(***************************************************************************)
NoInvoicePc == {"idle", "number", "header"}
PaidPc == {"payInsert", "payStatus", "payTotals"}

Placed(call, l) ==
  /\ call \in NoInvoicePc => l.inv = NoInvoice
  /\ call = "closeCas" => l.st # "VOID"
  /\ call \in PaidPc => l.paid <= payments[l.inv]

BaseInv ==
  /\ \A r \in Req : Placed(pc[r], loc[r])
  /\ \A i \in Invoice : status[i] = "ABSENT" => ~closed[i] /\ ~archived[i] /\ lines[i] = {}
  /\ \A i \in Invoice : paidUsd[i] <= payments[i]

LEMMA GotoIs ==
  ASSUME TypeOK, NEW r \in Req, NEW call \in Pc, NEW l \in Local, Goto(r, call, l)
  PROVE  /\ pc'[r] = call /\ loc'[r] = l
         /\ \A q \in Req \ {r} : pc'[q] = pc[q] /\ loc'[q] = loc[q]
BY DEF Goto, TypeOK

LEMMA PaymentsGrow ==
  ASSUME TypeOK, NEW r \in Req, Continue(r) \/ Arrive(r) \/ Fail(r), NEW i \in Invoice
  PROVE  payments[i] \in Nat /\ payments'[i] \in Nat /\ payments[i] <= payments'[i]
<1>1. CASE PayInsert(r)
  <2>1. loc[r] \in Local /\ payments \in [Invoice -> Nat]
    BY DEF TypeOK
  <2>2. loc[r].amt \in Nat
    BY <2>1 DEF Local
  <2> QED
    BY <1>1, <2>1, <2>2 DEF PayInsert
<1>2. CASE payments' = payments
  BY <1>2 DEF TypeOK
<1> QED
  BY <1>1, <1>2, ColumnWriters

(***************************************************************************)
(* Only the payment's own actions continue a payment.                      *)
(***************************************************************************)
LEMMA OnlyPayments ==
  ASSUME TypeOK, NEW r \in Req, Continue(r) \/ Fail(r), ~Finish(r),
         ~(PayReadRows(r) \/ PayInsert(r) \/ PayStatus(r))
  PROVE  pc[r] \notin {"payRows", "payInsert", "payStatus"}
<1>1. ASSUME pc[r] \in {"payRows", "payInsert", "payStatus"} PROVE Fail(r)
  BY <1>1
  DEF Continue, ReadNumber, InsertHeader, HeaderRefused, InsertLines, LinkBatch, GuardLinks,
      UndoLinks, UndoArchive, CloseCas, PayTotals, VoidStatus, ArchiveStamp, ReleaseLinks,
      LinkCheck, LinkPost, UnlinkPatch, EditReadRows, EditResolve, EditDelete, EditInsert,
      EditLink, EditUnlink, EditPatch
<1> QED
  BY <1>1 DEF Fail, CreateCallFails, TryPc, CallFails, Crash

(***************************************************************************)
(* What the request that steps must leave for it.                          *)
(***************************************************************************)
LEMMA BaseKept ==
  ASSUME TypeOK, LockInv, BaseInv,
         NEW r \in Req, Continue(r) \/ Arrive(r) \/ Fail(r), ~InsertHeader(r),
         NEW call \in Pc, NEW l \in Local, Goto(r, call, l), Placed(call, l)'
  PROVE  BaseInv'
<1>1. ASSUME NEW q \in Req PROVE Placed(pc[q], loc[q])'
  <2>1. CASE q = r
    BY <2>1, GotoIs DEF Placed
  <2>2. CASE q # r
    <3>1. pc'[q] = pc[q] /\ loc'[q] = loc[q] /\ loc[q] \in Local /\ Placed(pc[q], loc[q])
      BY <2>2, GotoIs DEF TypeOK, BaseInv
    <3>2. pc[q] \in PaidPc => loc[q].inv \in Invoice
      BY DEF TypeOK, PaidPc
    <3>3. pc[q] \in PaidPc => loc[q].paid <= payments'[loc[q].inv]
      <4>1. loc[q].paid \in Nat
        BY <3>1 DEF Local
      <4> QED
        BY <3>1, <3>2, <4>1, PaymentsGrow DEF Placed
    <3> QED
      BY <3>1, <3>3 DEF Placed
  <2> QED
    BY <2>1, <2>2
<1>2. ASSUME NEW i \in Invoice, status'[i] = "ABSENT"
      PROVE  ~closed'[i] /\ ~archived'[i] /\ lines'[i] = {}
  <2>1. status[i] = "ABSENT"
    BY <1>2, ExistingStay
  <2>2. i # loc[r].inv
    BY <2>1, BillingAssumption
    DEF LockInv, RequestsSound, Sound, OnRecord, BaseInv, Placed, NoInvoicePc
  <2> QED
    BY <2>1, <2>2, StepWritesOwnInvoice DEF BaseInv, Untouched
<1>3. ASSUME NEW i \in Invoice PROVE paidUsd'[i] <= payments'[i]
  <2>1. paidUsd[i] <= payments[i] /\ paidUsd[i] \in Nat
    BY DEF BaseInv, TypeOK
  <2>2. CASE paidUsd'[i] = paidUsd[i]
    BY <2>1, <2>2, PaymentsGrow
  <2>3. CASE PayTotals(r) /\ paidUsd'[i] # paidUsd[i]
    <3>1. i = loc[r].inv /\ paidUsd'[i] = loc[r].paid /\ payments' = payments
      BY <2>3 DEF PayTotals, tables, TypeOK
    <3>2. loc[r].paid <= payments[loc[r].inv]
      BY <2>3 DEF PayTotals, BaseInv, Placed, PaidPc
    <3> QED
      BY <3>1, <3>2
  <2> QED
    BY <2>2, <2>3, ColumnWriters
<1> QED
  BY <1>1, <1>2, <1>3 DEF BaseInv

LEMMA BaseStep ==
  ASSUME TypeOK, LockInv, BaseInv, NEW r \in Req, Continue(r) \/ Arrive(r) \/ Fail(r)
  PROVE  BaseInv'
<1> USE DEF NoInvoicePc, PaidPc
<1>0. loc[r] \in Local /\ Placed(pc[r], loc[r])
  BY DEF TypeOK, BaseInv
<1>1. CASE InsertHeader(r)
  <2>1. PICK i \in Invoice, n \in Local :
          /\ status[i] = "ABSENT" /\ Goto(r, "lines", n)
          /\ status'[i] \in {"DRAFT", "ISSUED"}
          /\ \A j \in Invoice \ {i} : Untouched(j)
    BY <1>1, InsertHeaderWrites
  <2>2. UNCHANGED <<paidUsd, payments>>
    BY <1>1 DEF InsertHeader, tables
  <2>3. \A q \in Req : Placed(pc[q], loc[q])'
    BY <2>1, <2>2, GotoIs DEF BaseInv, Placed, Pc, TryPc
  <2>4. \A j \in Invoice :
          status'[j] = "ABSENT" => ~closed'[j] /\ ~archived'[j] /\ lines'[j] = {}
    BY <2>1 DEF BaseInv, Untouched
  <2> QED
    BY <2>2, <2>3, <2>4 DEF BaseInv
<1>2. CASE Finish(r) /\ ~InsertHeader(r)
  <2>1. Placed("idle", Blank)'
    BY DEF Placed, Blank
  <2> QED
    BY <1>2, <2>1, BlankType, BaseKept DEF Finish, Pc
<1>3. CASE Arrive(r)
  <2>1. PICK call \in FirstCall, l \in Local : Goto(r, call, l) /\ Admitted(call, l)
    BY <1>3, ArriveShape
  <2>2. Placed(call, l)'
    BY <2>1 DEF Placed, FirstCall, Admitted
  <2>3. call \in Pc /\ ~InsertHeader(r)
    <3>1. pc[r] = "idle"
      BY <1>3, ArriveShape
    <3> QED
      BY <3>1 DEF InsertHeader, FirstCall, Pc, OtherPc
  <2> QED
    BY <1>3, <2>1, <2>2, <2>3, BaseKept
<1>4. CASE PayReadRows(r)
  <2> DEFINE m == [loc[r] EXCEPT !.tot = LinesTotal(loc[r].inv), !.paid = payments[loc[r].inv]]
  <2>1. loc[r].inv \in Invoice /\ payments' = payments /\ Continue(r) /\ ~InsertHeader(r)
    BY <1>4 DEF PayReadRows, TypeOK, tables, Continue, InsertHeader
  <2>2. LinesTotal(loc[r].inv) \in Nat /\ payments[loc[r].inv] \in Nat
    BY <2>1, ItemsFinite DEF LinesTotal, TypeOK
  <2>3. m \in Local /\ m.inv = loc[r].inv /\ m.paid = payments[loc[r].inv]
    BY <1>0, <2>2 DEF Local
  <2>4. Goto(r, "payInsert", m)
    BY <1>4 DEF PayReadRows
  <2> HIDE DEF m
  <2>5. PICK n \in Local :
          Goto(r, "payInsert", n) /\ n.inv \in Invoice /\ n.paid = payments[n.inv]
    BY <2>1, <2>3, <2>4
  <2>6. Placed("payInsert", n)'
    BY <2>1, <2>5 DEF Placed, TypeOK
  <2> QED
    BY <2>1, <2>5, <2>6, BaseKept DEF Pc, OtherPc
<1>5. CASE PayInsert(r)
  <2> DEFINE m == [loc[r] EXCEPT !.paid = @ + loc[r].amt]
  <2>1. loc[r].inv \in Invoice /\ pc[r] = "payInsert" /\ Continue(r) /\ ~InsertHeader(r)
    BY <1>5 DEF PayInsert, TypeOK, Continue, InsertHeader
  <2>2. /\ loc[r].amt \in Nat /\ loc[r].paid \in Nat
        /\ m \in Local /\ m.inv = loc[r].inv /\ m.paid = loc[r].paid + loc[r].amt
    BY <1>0 DEF Local
  <2>3. Goto(r, "payStatus", m)
    BY <1>5 DEF PayInsert
  <2> HIDE DEF m
  <2>4. /\ payments[loc[r].inv] \in Nat
        /\ payments'[loc[r].inv] = payments[loc[r].inv] + loc[r].amt
    BY <1>5, <2>1 DEF PayInsert, TypeOK
  <2>5. loc[r].paid <= payments[loc[r].inv]
    BY <1>0, <2>1 DEF Placed
  <2>6. PICK n \in Local : Goto(r, "payStatus", n) /\ n.paid <= payments'[n.inv]
    BY <2>2, <2>3, <2>4, <2>5
  <2>7. Placed("payStatus", n)'
    BY <2>6 DEF Placed
  <2> QED
    BY <2>1, <2>6, <2>7, BaseKept DEF Pc, OtherPc
<1>6. CASE PayStatus(r)
  <2>1. PICK l \in Local : l = loc[r] /\ Goto(r, "payTotals", l)
    BY <1>0, <1>6 DEF PayStatus
  <2>2. pc[r] = "payStatus" /\ payments' = payments /\ Continue(r) /\ ~InsertHeader(r)
    BY <1>6 DEF PayStatus, tables, Continue, InsertHeader
  <2>3. Placed("payTotals", l)'
    BY <1>0, <2>1, <2>2 DEF Placed
  <2> QED
    BY <2>1, <2>2, <2>3, BaseKept DEF Pc, OtherPc
<1>7. CASE /\ Continue(r) \/ Fail(r)
           /\ ~(InsertHeader(r) \/ Finish(r) \/ PayReadRows(r) \/ PayInsert(r) \/ PayStatus(r))
  <2>1. PICK call \in Pc, l \in Local :
          Goto(r, call, l) /\ <<pc[r], call>> \in Follows /\ l.inv = loc[r].inv
    BY <1>7, ContinueShape
  <2>2. pc[r] \notin {"payRows", "payInsert", "payStatus"}
    BY <1>7, OnlyPayments
  <2>3. Placed(call, l)'
    BY <1>0, <2>1, <2>2 DEF Follows, Placed
  <2> QED
    BY <1>7, <2>1, <2>3, BaseKept
<1> QED
  BY <1>1, <1>2, <1>3, <1>4, <1>5, <1>6, <1>7

LEMMA BaseInvariant == Spec => []BaseInv
<1>1. Init => BaseInv
  BY DEF Init, BaseInv, Placed, NoInvoicePc, PaidPc, Blank
<1>2. TypeOK /\ LockInv /\ BaseInv /\ [Next]_vars => BaseInv'
  <2>1. ASSUME BaseInv, UNCHANGED vars PROVE BaseInv'
    BY <2>1 DEF BaseInv, Placed, vars, header, tables
  <2> QED
    BY <2>1, BaseStep DEF Next
<1> QED
  BY TypeCorrect, LockInvariant, <1>1, <1>2, PTL DEF Spec

-----------------------------------------------------------------------------
(***************************************************************************)
(* An archived invoice: only releases and archivings are left to whoever   *)
(* passed the guard earlier, and nobody passes it any more.                *)
(***************************************************************************)
Gains(i) == {p \in Package : link'[i][p] = "active"} \subseteq Active(i)

Frozen(i) ==
  /\ Sealed(i)'
  /\ status'[i] = status[i] /\ closed'[i] = closed[i]
  /\ lines'[i] = lines[i] /\ payments'[i] = payments[i]
  /\ Gains(i)

SealedPc == UndoPc \cup {"stamp", "release", "unlink"}

LEMMA SealedStep ==
  ASSUME TypeOK, LockInv, BaseInv, NEW r \in Req, Continue(r) \/ Arrive(r) \/ Fail(r),
         NEW i \in Invoice, Sealed(i)
  PROVE  Frozen(i)
<1>1. archived[i] /\ status[i] # "ABSENT"
  BY DEF Sealed, BaseInv
<1>2. ASSUME Untouched(i), \A q \in Req : loc'[q].inv = i => pc'[q] \in SealedPc
      PROVE  Frozen(i)
  BY <1>1, <1>2 DEF Untouched, Frozen, Sealed, SealedPc, Gains, Active
<1>3. CASE InsertHeader(r)
  <2>1. PICK j \in Invoice, n \in Local :
          /\ status[j] = "ABSENT" /\ Goto(r, "lines", n) /\ n.inv = j
          /\ \A k \in Invoice \ {j} : Untouched(k)
    BY <1>3, InsertHeaderWrites
  <2> QED
    BY <1>1, <1>2, <2>1, GotoIs DEF Sealed, SealedPc, Pc, TryPc
<1>4. CASE Arrive(r)
  <2>1. PICK call \in FirstCall, l \in Local : Goto(r, call, l) /\ Admitted(call, l)
    BY <1>4, ArriveShape
  <2>2. l.inv # i
    BY <1>1, <2>1, BillingAssumption DEF Admitted, Visible
  <2>3. call \in Pc /\ Untouched(i)
    BY <1>4, ArriveShape DEF FirstCall, Pc, OtherPc, Untouched, header, tables
  <2> QED
    BY <1>2, <2>1, <2>2, <2>3, GotoIs DEF Sealed, SealedPc
<1>5. CASE (Continue(r) \/ Fail(r)) /\ ~InsertHeader(r)
  <2>1. PICK call \in Pc, l \in Local :
          /\ Goto(r, call, l)
          /\ l.inv = i => loc[r].inv = i /\ <<pc[r], call>> \in Follows
    <3>1. CASE Finish(r)
      BY <3>1, BlankType, BillingAssumption DEF Finish, Pc, Blank
    <3> QED
      BY <1>5, <3>1, ContinueShape
  <2>2. \A q \in Req : loc'[q].inv = i => pc'[q] \in SealedPc
    BY <2>1, GotoIs DEF Sealed, SealedPc, UndoPc, Follows
  <2>3. CASE i # loc[r].inv
    BY <1>2, <1>5, <2>2, <2>3, StepWritesOwnInvoice
  <2>4. CASE i = loc[r].inv
    <3>1. pc[r] \in SealedPc
      BY <2>4 DEF Sealed, SealedPc
    <3>2. UNCHANGED <<status, closed, lines, payments>> /\ archived'[i]
      <4>1. archived' = archived \/ (i = loc[r].inv /\ archived' = [archived EXCEPT ![i] = TRUE])
        BY <1>5, <2>4, ColumnWriters DEF UndoArchive, ArchiveStamp
      <4>2. UNCHANGED <<status, closed, lines, payments>>
        BY <1>5, <3>1, ColumnWriters
        DEF SealedPc, UndoPc, InsertHeader, CloseCas, PayStatus, VoidStatus, InsertLines,
            EditDelete, EditInsert, PayInsert
      <4> QED
        BY <1>1, <4>1, <4>2 DEF TypeOK
    <3>3. Gains(i)
      <4>1. \/ link' = link
            \/ \E P \in SUBSET Package : link' = Released(i, P)
        <5>1. loc[r] \in Local
          BY DEF TypeOK
        <5> QED
          BY <1>5, <2>4, <3>1, <5>1, ColumnWriters
          DEF SealedPc, UndoPc, LinkBatch, LinkPost, EditLink, EditUnlink, UndoLinks,
              ReleaseLinks, UnlinkPatch, Local
      <4> QED
        BY <4>1 DEF Gains, Active, Released, TypeOK
    <3> QED
      BY <2>2, <3>2, <3>3 DEF Frozen, Sealed, SealedPc
  <2> QED
    BY <2>3, <2>4
<1> QED
  BY <1>3, <1>4, <1>5

(***************************************************************************)
(* "Every mutation on an archived invoice 404s": as soon as the requests   *)
(* that passed that guard earlier have only releases and archivings left,  *)
(* whatever arrives or fails, its lines, payments, status and lock stay    *)
(* and it gains no link.                                                   *)
(***************************************************************************)
THEOREM ArchivedIsFrozenHolds == Spec => ArchivedIsFrozen
<1>1. TypeOK /\ LockInv /\ BaseInv /\ [Next]_vars
      => [\A i \in Invoice : Sealed(i) => Frozen(i)]_vars
  BY SealedStep DEF Next
<1> QED
  BY TypeCorrect, LockInvariant, BaseInvariant, <1>1, PTL
  DEF Spec, ArchivedIsFrozen, Frozen, Gains

-----------------------------------------------------------------------------
(***************************************************************************)
(* A locked invoice: no edit gets in, and a payment reads the total that   *)
(* it will write.                                                          *)
(***************************************************************************)
UnlockedPc == {"lines"} \cup EditPc

StaysLocked(i) == Locked(i)' /\ total'[i] = total[i]

LEMMA LockedStep ==
  ASSUME TypeOK, LockInv, BaseInv, NEW r \in Req, Continue(r) \/ Arrive(r) \/ Fail(r),
         NEW i \in Invoice, Locked(i)
  PROVE  StaysLocked(i)
<1> USE DEF UnlockedPc, EditPc, PaidPc
<1>1. /\ closed[i] /\ total[i] = LinesTotal(i) /\ status[i] # "ABSENT"
      /\ \A q \in Req : loc[q].inv = i =>
           pc[q] \notin UnlockedPc /\ (pc[q] \in PaidPc => loc[q].tot = total[i])
  BY DEF Locked, BaseInv
<1>2. ASSUME closed'[i], total'[i] = total[i], lines'[i] = lines[i],
             \A q \in Req : loc'[q].inv = i =>
               pc'[q] \notin UnlockedPc /\ (pc'[q] \in PaidPc => loc'[q].tot = total[i])
      PROVE  StaysLocked(i)
  BY <1>1, <1>2 DEF StaysLocked, Locked, LinesTotal
<1>3. CASE InsertHeader(r)
  <2>1. PICK j \in Invoice, n \in Local :
          /\ status[j] = "ABSENT" /\ Goto(r, "lines", n) /\ n.inv = j
          /\ \A k \in Invoice \ {j} : Untouched(k)
    BY <1>3, InsertHeaderWrites
  <2> QED
    BY <1>1, <1>2, <2>1, GotoIs DEF Untouched, Pc, TryPc
<1>4. CASE Arrive(r)
  <2>1. PICK call \in FirstCall, l \in Local : Goto(r, call, l) /\ Admitted(call, l)
    BY <1>4, ArriveShape
  <2>2. l.inv = i => call \notin UnlockedPc \cup PaidPc
    BY <1>1, <2>1 DEF Admitted, FirstCall
  <2>3. call \in Pc /\ UNCHANGED <<closed, total, lines>>
    BY <1>4, ArriveShape DEF FirstCall, Pc, OtherPc, header, tables
  <2> QED
    BY <1>1, <1>2, <2>1, <2>2, <2>3, GotoIs
<1>5. CASE (Continue(r) \/ Fail(r)) /\ ~InsertHeader(r)
  <2>1. /\ closed'[i] /\ total'[i] = total[i] /\ lines'[i] = lines[i]
    <3>1. CASE i # loc[r].inv
      BY <1>1, <1>5, <3>1, StepWritesOwnInvoice DEF Untouched
    <3>2. CASE i = loc[r].inv
      <4>1. pc[r] \notin UnlockedPc /\ (pc[r] \in PaidPc => loc[r].tot = total[i])
        BY <1>1, <3>2
      <4>2. closed'[i]
        BY <1>1, <1>5, ColumnWriters DEF CloseCas, TypeOK
      <4>3. lines' = lines
        BY <1>5, <4>1, ColumnWriters DEF InsertLines, EditDelete, EditInsert
      <4>4. total'[i] = total[i]
        BY <1>5, <3>2, <4>1, ColumnWriters DEF PayTotals, EditPatch, TypeOK
      <4> QED
        BY <4>2, <4>3, <4>4
    <3> QED
      BY <3>1, <3>2
  <2>2. PICK call \in Pc, l \in Local :
          /\ Goto(r, call, l)
          /\ l.inv = i => call \notin UnlockedPc /\ (call \in PaidPc => l.tot = total[i])
    <3>1. CASE Finish(r)
      BY <3>1, BlankType, BillingAssumption DEF Finish, Pc, Blank
    <3>2. CASE PayReadRows(r)
      <4> DEFINE m == [loc[r] EXCEPT !.tot = LinesTotal(loc[r].inv), !.paid = payments[loc[r].inv]]
      <4>1. loc[r] \in Local /\ loc[r].inv \in Invoice
        BY <3>2 DEF PayReadRows, TypeOK
      <4>2. LinesTotal(loc[r].inv) \in Nat /\ payments[loc[r].inv] \in Nat
        BY <4>1, ItemsFinite DEF LinesTotal, TypeOK
      <4>3. m \in Local /\ m.inv = loc[r].inv /\ m.tot = LinesTotal(loc[r].inv)
        BY <4>1, <4>2 DEF Local
      <4>4. Goto(r, "payInsert", m)
        BY <3>2 DEF PayReadRows
      <4> HIDE DEF m
      <4> QED
        BY <1>1, <4>3, <4>4 DEF Pc, OtherPc
    <3>3. CASE PayInsert(r)
      <4> DEFINE m == [loc[r] EXCEPT !.paid = @ + loc[r].amt]
      <4>1. loc[r] \in Local /\ pc[r] = "payInsert"
        BY <3>3 DEF PayInsert, TypeOK
      <4>2. m \in Local /\ m.inv = loc[r].inv /\ m.tot = loc[r].tot
        BY <4>1 DEF Local
      <4>3. Goto(r, "payStatus", m)
        BY <3>3 DEF PayInsert
      <4> HIDE DEF m
      <4> QED
        BY <1>1, <4>1, <4>2, <4>3 DEF Pc, OtherPc
    <3>4. CASE PayStatus(r)
      <4>1. loc[r] \in Local /\ pc[r] = "payStatus" /\ Goto(r, "payTotals", loc[r])
        BY <3>4 DEF PayStatus, TypeOK
      <4> QED
        BY <1>1, <4>1 DEF Pc, OtherPc
    <3>5. CASE ~(Finish(r) \/ PayReadRows(r) \/ PayInsert(r) \/ PayStatus(r))
      <4>1. PICK call \in Pc, l \in Local :
              Goto(r, call, l) /\ <<pc[r], call>> \in Follows /\ l.inv = loc[r].inv
        BY <1>5, <3>5, ContinueShape
      <4>2. pc[r] \notin {"payRows", "payInsert", "payStatus"}
        BY <1>5, <3>5, <4>1, OnlyPayments
      <4>3. l.inv = i => call \notin UnlockedPc \cup PaidPc
        BY <1>1, <4>1, <4>2 DEF Follows
      <4> QED
        BY <4>1, <4>3
    <3> QED
      BY <3>1, <3>2, <3>3, <3>4, <3>5
  <2> QED
    BY <1>1, <1>2, <2>1, <2>2, GotoIs
<1> QED
  BY <1>3, <1>4, <1>5

(***************************************************************************)
(* Financial lock: once nobody is replacing lines and no payment under way *)
(* has read others, the total of a closed invoice stays, although every    *)
(* payment writes it again and whatever fails.                             *)
(***************************************************************************)
THEOREM ClosedTotalFrozenHolds == Spec => ClosedTotalFrozen
<1>1. TypeOK /\ LockInv /\ BaseInv /\ [Next]_vars
      => [\A i \in Invoice : Locked(i) => StaysLocked(i)]_vars
  BY LockedStep DEF Next
<1> QED
  BY TypeCorrect, LockInvariant, BaseInvariant, <1>1, PTL
  DEF Spec, ClosedTotalFrozen, StaysLocked

-----------------------------------------------------------------------------
(***************************************************************************)
(* computeStatus and POST /void take VOID for terminal.  It is, under      *)
(* every interleaving and fault, once no payment that found the invoice    *)
(* alive has its status still to write: no such payment gets in again.     *)
(***************************************************************************)
UnwrittenStatusPc == {"payRows", "payInsert", "payStatus"}

Voided(i) ==
  /\ status[i] = "VOID"
  /\ \A r \in Req : loc[r].inv = i => pc[r] \notin UnwrittenStatusPc

LEMMA VoidedStep ==
  ASSUME TypeOK, LockInv, BaseInv, NEW r \in Req, Continue(r) \/ Arrive(r) \/ Fail(r),
         NEW i \in Invoice, Voided(i)
  PROVE  Voided(i)'
<1> USE DEF UnwrittenStatusPc
<1>1. status'[i] = "VOID"
  BY VoidStep DEF VoidKept, LatePayment, Voided
<1>2. PICK call \in Pc, l \in Local :
        Goto(r, call, l) /\ (l.inv = i => call \notin UnwrittenStatusPc)
  <2>1. CASE InsertHeader(r)
    BY <2>1, InsertHeaderWrites DEF Pc, TryPc
  <2>2. CASE Arrive(r)
    BY <2>2, ArriveShape DEF Admitted, Voided, FirstCall, Pc, OtherPc
  <2>3. CASE Finish(r)
    BY <2>3, BlankType DEF Finish, Pc
  <2>4. CASE (Continue(r) \/ Fail(r)) /\ ~InsertHeader(r) /\ ~Finish(r)
    BY <2>4, ContinueShape DEF Voided, Follows
  <2> QED
    BY <2>1, <2>2, <2>3, <2>4
<1> QED
  BY <1>1, <1>2, GotoIs DEF Voided

(* VOID is terminal from the moment that no payment under way has read the *)
(* invoice as anything else.                                               *)
THEOREM VoidIsTerminal == Spec => [][\A i \in Invoice : Voided(i) => Voided(i)']_vars
<1>1. TypeOK /\ LockInv /\ BaseInv /\ [Next]_vars
      => [\A i \in Invoice : Voided(i) => Voided(i)']_vars
  BY VoidedStep DEF Next
<1> QED
  BY TypeCorrect, LockInvariant, BaseInvariant, <1>1, PTL DEF Spec

-----------------------------------------------------------------------------
(***************************************************************************)
(* The history variables: every step is one of BillingService, and an      *)
(* invoice on which two requests meet has been recorded.                   *)
(***************************************************************************)
LEMMA BooksIsService == BooksSpec => Spec
<1>1. [BooksNext]_booksVars => [Next]_vars
  BY DEF BooksNext, Proceeds, Stops, Next, booksVars
<1> QED
  BY <1>1, PTL DEF BooksSpec, BooksInit, Spec

AloneInv == Overlapped(AmountPc) \subseteq mixed /\ Overlapped(LinkPc) \subseteq leaky

(***************************************************************************)
(* A failing call or the end of the Worker writes nothing; the request     *)
(* ends, or starts the compensation of a creation.                         *)
(***************************************************************************)
LEMMA FailShape ==
  ASSUME TypeOK, NEW r \in Req, Fail(r)
  PROVE  /\ UNCHANGED <<header, tables>>
         /\ \/ Goto(r, "idle", Blank)
            \/ pc[r] \in TryPc /\ Goto(r, "undoLinks", loc[r])
BY DEF Fail, CreateCallFails, CallFails, Crash, Finish

LEMMA StopsOverlapNobody ==
  ASSUME TypeOK, NEW r \in Req, Fail(r), NEW P, "idle" \notin P,
         "undoLinks" \in P => TryPc \subseteq P
  PROVE  Overlapped(P)' \subseteq Overlapped(P)
<1>1. ASSUME NEW q \in Req, NEW i \in Invoice, loc'[q].inv = i, pc'[q] \in P
      PROVE  loc[q].inv = i /\ pc[q] \in P
  <2>1. CASE Goto(r, "idle", Blank)
    BY <1>1, <2>1 DEF Goto, TypeOK
  <2>2. CASE pc[r] \in TryPc /\ Goto(r, "undoLinks", loc[r])
    BY <1>1, <2>2 DEF Goto, TypeOK
  <2> QED
    BY <2>1, <2>2, FailShape
<1> QED
  BY <1>1 DEF Overlapped

LEMMA AloneStep ==
  ASSUME TypeOK, AloneInv, NEW r \in Req, Proceeds(r) \/ Stops(r)
  PROVE  AloneInv'
<1>1. CASE Proceeds(r)
  BY <1>1 DEF AloneInv, Proceeds
<1>2. CASE Stops(r)
  <2>1. Overlapped(AmountPc)' \subseteq Overlapped(AmountPc)
    <3>1. "idle" \notin AmountPc /\ "undoLinks" \notin AmountPc
      BY DEF AmountPc, EditPc
    <3>2. Fail(r)
      BY <1>2 DEF Stops
    <3> HIDE DEF AmountPc
    <3> QED
      BY <3>1, <3>2, StopsOverlapNobody
  <2>2. Overlapped(LinkPc)' \subseteq Overlapped(LinkPc)
    <3>1. "idle" \notin LinkPc /\ TryPc \subseteq LinkPc
      BY DEF LinkPc, TryPc, UndoPc, EditPc
    <3>2. Fail(r)
      BY <1>2 DEF Stops
    <3> QED
      BY <3>1, <3>2, StopsOverlapNobody
  <2>3. mixed \subseteq mixed' /\ leaky \subseteq leaky'
    BY <1>2 DEF Stops
  <2> QED
    BY <2>1, <2>2, <2>3 DEF AloneInv
<1> QED
  BY <1>1, <1>2

LEMMA AloneInvariant == BooksSpec => []AloneInv
<1>1. BooksInit => AloneInv
  BY DEF BooksInit, Init, AloneInv, Overlapped, AmountPc, LinkPc, TryPc, UndoPc, EditPc
<1>2. TypeOK /\ AloneInv /\ [BooksNext]_booksVars => AloneInv'
  <2>1. ASSUME AloneInv, UNCHANGED booksVars PROVE AloneInv'
    BY <2>1 DEF AloneInv, Overlapped, booksVars, vars
  <2> QED
    BY <2>1, AloneStep DEF BooksNext
<1> QED
  BY TypeCorrect, BooksIsService, <1>1, <1>2, PTL DEF BooksSpec

-----------------------------------------------------------------------------
(***************************************************************************)
(* Money.  Settled: total, paid_usd and status say what the lines and the  *)
(* payment rows say.  Each call of a request leaves a definite part of     *)
(* that to the calls that follow, and only a request that has written some *)
(* of its figures and not yet the others leaves an invoice unsettled.      *)
(***************************************************************************)
Settled(i) ==
  /\ total[i] = LinesTotal(i)
  /\ paidUsd[i] = payments[i]
  /\ status[i] = ComputeStatus(status[i], LinesTotal(i), payments[i])

Unpaid(i) == status[i] \in {"DRAFT", "ISSUED", "VOID"} /\ payments[i] = 0 /\ paidUsd[i] = 0

Accounts(call, l) ==
  /\ call = "lines" => lines[l.inv] = {} /\ total[l.inv] = Cardinality(l.items)
  /\ call \in {"lines"} \cup EditPc => Unpaid(l.inv)
  /\ call \in PaidPc =>
       /\ total[l.inv] = LinesTotal(l.inv)
       /\ l.tot = LinesTotal(l.inv) /\ l.paid = payments[l.inv]
  /\ call = "payTotals" => status[l.inv] = ComputeStatus(status[l.inv], l.tot, l.paid)
  /\ call = "editInsert" => lines[l.inv] = {}
  /\ call \in {"editLinks", "editPatch"} => LinesTotal(l.inv) = Cardinality(l.items)

Unhalved(i) == \A r \in Req : loc[r].inv = i => pc[r] \notin HalfWrittenPc

MoneyOf(i) ==
  /\ \A r \in Req : loc[r].inv = i => Accounts(pc[r], loc[r])
  /\ Unhalved(i) => Settled(i)

MoneyInv == \A i \in Existing \ mixed : MoneyOf(i)

(***************************************************************************)
(* computeStatus: what it returns it returns again, without money a status *)
(* stays, and issuing a settled draft keeps it settled.                    *)
(***************************************************************************)
LEMMA ComputeStatusStable ==
  ASSUME NEW st \in Status \cup {"ABSENT"}, NEW tot \in Nat, NEW paid \in Nat
  PROVE  LET new == ComputeStatus(st, tot, paid) IN ComputeStatus(new, tot, paid) = new
BY DEF ComputeStatus

LEMMA ComputeStatusUnpaid ==
  ASSUME NEW st \in {"DRAFT", "ISSUED", "VOID"}, NEW tot \in Nat
  PROVE  ComputeStatus(st, tot, 0) = st
BY DEF ComputeStatus

LEMMA ComputeStatusIssued ==
  ASSUME NEW tot \in Nat, NEW paid \in Nat, ComputeStatus("DRAFT", tot, paid) = "DRAFT"
  PROVE  ComputeStatus("ISSUED", tot, paid) = "ISSUED"
BY DEF ComputeStatus

(***************************************************************************)
(* One request posts as many lines as it has items.                        *)
(***************************************************************************)
LEMMA PostedLines ==
  ASSUME NEW S \in SUBSET Item, NEW r \in Req
  PROVE  Cardinality(S \X {r}) = Cardinality(S)
<1>1. IsFiniteSet(S) /\ Cardinality(S) \in Nat
  BY ItemsFinite, FS_Subset
<1>2. IsFiniteSet({r}) /\ Cardinality({r}) = 1
  BY FS_Singleton
<1>3. Cardinality(S \X {r}) = Cardinality(S) * Cardinality({r})
  BY <1>1, <1>2, FS_Product
<1> QED
  BY <1>1, <1>2, <1>3

(***************************************************************************)
(* Beside: the step writes no figure of the invoice, and its request does  *)
(* not leave it half written.                                              *)
(***************************************************************************)
SameMoney(i) ==
  /\ status'[i] = status[i] /\ total'[i] = total[i] /\ paidUsd'[i] = paidUsd[i]
  /\ payments'[i] = payments[i] /\ lines'[i] = lines[i]

LEMMA SettledSame ==
  ASSUME NEW i \in Invoice, Settled(i), SameMoney(i)
  PROVE  Settled(i)'
BY DEF Settled, SameMoney, LinesTotal

LEMMA MoneyBeside ==
  ASSUME TypeOK, NEW i \in Invoice, MoneyOf(i), SameMoney(i),
         NEW r \in Req, NEW call \in Pc, NEW l \in Local, Goto(r, call, l),
         l.inv = i => Accounts(call, l)',
         loc[r].inv = i /\ pc[r] \in HalfWrittenPc => l.inv = i /\ call \in HalfWrittenPc
  PROVE  MoneyOf(i)'
<1>1. ASSUME NEW q \in Req, loc'[q].inv = i PROVE Accounts(pc[q], loc[q])'
  <2>1. CASE q = r
    BY <1>1, <2>1, GotoIs
  <2>2. CASE q # r
    <3>1. pc'[q] = pc[q] /\ loc'[q] = loc[q] /\ Accounts(pc[q], loc[q]) /\ loc[q].inv = i
      BY <1>1, <2>2, GotoIs DEF MoneyOf
    <3> QED
      BY <3>1 DEF Accounts, Unpaid, SameMoney, LinesTotal
  <2> QED
    BY <2>1, <2>2
<1>2. Unhalved(i)' => Unhalved(i)
  BY GotoIs DEF Unhalved
<1> QED
  BY <1>1, <1>2, SettledSame DEF MoneyOf

(***************************************************************************)
(* Alone: no other request on the invoice writes amounts, so the one that  *)
(* steps answers for all of its figures.                                   *)
(***************************************************************************)
LEMMA MoneyAlone ==
  ASSUME TypeOK, AloneInv, NEW i \in Invoice \ mixed,
         NEW r \in Req, loc[r].inv = i, pc[r] \in AmountPc,
         NEW call \in Pc, NEW l \in Local, Goto(r, call, l),
         l.inv = i => Accounts(call, l)',
         ~(l.inv = i /\ call \in HalfWrittenPc) => Settled(i)'
  PROVE  MoneyOf(i)'
<1>1. \A q \in Req \ {r} : loc[q].inv = i => pc[q] \notin AmountPc
  BY DEF AloneInv, Overlapped
<1>2. ASSUME NEW q \in Req, loc'[q].inv = i PROVE Accounts(pc[q], loc[q])'
  <2>1. CASE q = r
    BY <1>2, <2>1, GotoIs
  <2>2. CASE q # r
    BY <1>1, <1>2, <2>2, GotoIs DEF Accounts, AmountPc, PaidPc, EditPc
  <2> QED
    BY <2>1, <2>2
<1>3. Unhalved(i)' => ~(l.inv = i /\ call \in HalfWrittenPc)
  BY GotoIs DEF Unhalved
<1> QED
  BY <1>2, <1>3 DEF MoneyOf

LEMMA AloneIsSettled ==
  ASSUME TypeOK, AloneInv, NEW i \in Invoice \ mixed, MoneyOf(i),
         NEW r \in Req, loc[r].inv = i, pc[r] \in AmountPc \ HalfWrittenPc
  PROVE  Settled(i)
<1>1. \A q \in Req \ {r} : loc[q].inv = i => pc[q] \notin AmountPc
  BY DEF AloneInv, Overlapped
<1>2. HalfWrittenPc \subseteq AmountPc
  BY DEF HalfWrittenPc, AmountPc, EditPc
<1> QED
  BY <1>1, <1>2 DEF MoneyOf, Unhalved

(***************************************************************************)
(* A creation: the header announces the total of the lines it will post.   *)
(***************************************************************************)
LEMMA InsertHeaderKeepsMoney ==
  ASSUME TypeOK, LockInv, BaseInv, MoneyInv, NEW r \in Req, InsertHeader(r),
         NEW i \in Invoice \ mixed, status'[i] # "ABSENT"
  PROVE  MoneyOf(i)'
<1>1. PICK j \in Invoice, n \in Local :
        /\ status[j] = "ABSENT" /\ Goto(r, "lines", n) /\ n.inv = j
        /\ status'[j] \in {"DRAFT", "ISSUED"}
        /\ total'[j] = Cardinality(n.items)
        /\ paidUsd'[j] = paidUsd[j] /\ payments'[j] = payments[j] /\ lines'[j] = lines[j]
        /\ \A k \in Invoice \ {j} : Untouched(k)
  BY InsertHeaderWrites
<1>2. "lines" \in Pc /\ "lines" \in HalfWrittenPc
  BY DEF Pc, TryPc, HalfWrittenPc
<1>3. CASE i # j
  <2>1. Untouched(i) /\ MoneyOf(i)
    BY <1>1, <1>3 DEF MoneyInv, Existing, Untouched
  <2>2. loc[r].inv # i
    BY BillingAssumption DEF InsertHeader, BaseInv, Placed, NoInvoicePc
  <2> QED
    BY <1>1, <1>2, <1>3, <2>1, <2>2, MoneyBeside DEF Untouched, SameMoney
<1>4. CASE i = j
  <2>1. lines[i] = {} /\ payments[i] = 0 /\ paidUsd[i] = 0
    BY <1>1, <1>4 DEF BaseInv, LockInv, AbsentUntouched
  <2>2. Accounts("lines", n)'
    BY <1>1, <1>4, <2>1 DEF Accounts, Unpaid, EditPc, PaidPc
  <2>3. \A q \in Req \ {r} : loc[q].inv # i
    BY <1>1, <1>4, BillingAssumption
    DEF LockInv, RequestsSound, Sound, OnRecord, BaseInv, Placed, NoInvoicePc
  <2>4. \A q \in Req : loc'[q].inv = i => q = r
    BY <1>1, <1>2, <2>3, GotoIs
  <2>5. pc'[r] = "lines" /\ loc'[r] = n
    BY <1>1, <1>2, GotoIs
  <2> QED
    BY <1>1, <1>2, <1>4, <2>2, <2>4, <2>5 DEF MoneyOf, Unhalved
<1> QED
  BY <1>3, <1>4

LEMMA InsertLinesKeepsMoney ==
  ASSUME TypeOK, AloneInv, NEW r \in Req, InsertLines(r),
         NEW i \in Invoice \ mixed, i = loc[r].inv, MoneyOf(i)
  PROVE  MoneyOf(i)'
<1>0. PICK l \in Local : l = loc[r]
  BY DEF TypeOK
<1>1. /\ pc[r] = "lines" /\ Goto(r, "link", l)
      /\ UNCHANGED <<status, total, paidUsd, payments>>
      /\ lines'[i] = lines[i] \cup (l.items \X {r})
  BY <1>0 DEF InsertLines, header, TypeOK
<1>2. Accounts("lines", l)
  BY <1>0, <1>1 DEF MoneyOf
<1>3. LinesTotal(i)' = Cardinality(l.items) /\ Cardinality(l.items) \in Nat
  <2>1. lines'[i] = l.items \X {r}
    BY <1>0, <1>1, <1>2 DEF Accounts
  <2> QED
    BY <2>1, PostedLines, ItemsFinite DEF LinesTotal, Local
<1>4. Settled(i)'
  <2>1. /\ status'[i] \in {"DRAFT", "ISSUED", "VOID"} /\ total'[i] = LinesTotal(i)'
        /\ payments'[i] = 0 /\ paidUsd'[i] = 0
    BY <1>0, <1>1, <1>2, <1>3 DEF Accounts, Unpaid
  <2>2. ComputeStatus(status'[i], LinesTotal(i)', 0) = status'[i]
    BY <1>3, <2>1, ComputeStatusUnpaid
  <2> QED
    BY <2>1, <2>2 DEF Settled
<1>5. Accounts("link", l)'
  BY DEF Accounts, PaidPc, EditPc
<1>6. "lines" \in AmountPc /\ "link" \in Pc
  BY DEF AmountPc, Pc, TryPc
<1> QED
  BY <1>0, <1>1, <1>4, <1>5, <1>6, MoneyAlone

(***************************************************************************)
(* Voiding and closing write a status that the money calls for, whatever   *)
(* payment or edit is under way on the invoice.                            *)
(***************************************************************************)
LEMMA StatusKeepsMoney ==
  ASSUME TypeOK, NEW i \in Invoice, MoneyOf(i), NEW r \in Req, loc[r].inv = i,
         pc[r] \notin HalfWrittenPc,
         UNCHANGED <<total, paidUsd, payments, lines>>,
         status'[i] = "VOID" \/ (status[i] = "DRAFT" /\ status'[i] = "ISSUED"),
         NEW call \in Pc, NEW l \in Local, Goto(r, call, l), call \notin AmountPc
  PROVE  MoneyOf(i)'
<1>1. LinesTotal(i)' = LinesTotal(i) /\ LinesTotal(i) \in Nat /\ payments[i] \in Nat
  BY ItemsFinite DEF LinesTotal, TypeOK
<1>2. ASSUME NEW tot \in Nat, NEW paid \in Nat,
             status[i] = ComputeStatus(status[i], tot, paid)
      PROVE  status'[i] = ComputeStatus(status'[i], tot, paid)
  BY <1>2, ComputeStatusIssued DEF ComputeStatus
<1>3. ASSUME NEW q \in Req, loc'[q].inv = i PROVE Accounts(pc[q], loc[q])'
  <2>1. CASE q = r
    BY <2>1, GotoIs DEF Accounts, AmountPc, PaidPc, EditPc
  <2>2. CASE q # r
    <3>1. /\ pc'[q] = pc[q] /\ loc'[q] = loc[q] /\ loc[q].inv = i
          /\ Accounts(pc[q], loc[q]) /\ loc[q] \in Local
      BY <1>3, <2>2, GotoIs DEF MoneyOf, TypeOK
    <3>2. loc[q].tot \in Nat /\ loc[q].paid \in Nat
      BY <3>1 DEF Local
    <3>3. pc[q] = "payTotals" =>
            status'[i] = ComputeStatus(status'[i], loc[q].tot, loc[q].paid)
      BY <1>2, <3>1, <3>2 DEF Accounts
    <3> QED
      BY <1>1, <3>1, <3>3 DEF Accounts, Unpaid
  <2> QED
    BY <2>1, <2>2
<1>4. Unhalved(i)' => Unhalved(i)
  BY GotoIs DEF Unhalved
<1>5. Settled(i) => Settled(i)'
  BY <1>1, <1>2 DEF Settled
<1> QED
  BY <1>3, <1>4, <1>5 DEF MoneyOf

LEMMA VoidAndCloseKeepMoney ==
  ASSUME TypeOK, BaseInv, NEW r \in Req, VoidStatus(r) \/ CloseCas(r),
         NEW i \in Invoice, i = loc[r].inv, MoneyOf(i)
  PROVE  MoneyOf(i)'
<1> USE DEF HalfWrittenPc, AmountPc, EditPc
<1>1. CASE VoidStatus(r)
  <2>1. PICK l \in Local : l = loc[r] /\ Goto(r, "release", l)
    BY <1>1 DEF VoidStatus, TypeOK
  <2>2. /\ pc[r] = "voidStatus" /\ status'[i] = "VOID"
        /\ UNCHANGED <<total, paidUsd, payments, lines>>
    BY <1>1 DEF VoidStatus, tables, TypeOK
  <2> QED
    BY <2>1, <2>2, StatusKeepsMoney DEF Pc, OtherPc
<1>2. CASE CloseCas(r)
  <2>1. /\ pc[r] = "closeCas" /\ Goto(r, "idle", Blank)
        /\ UNCHANGED <<total, paidUsd, payments, lines>>
        /\ \/ status'[i] = status[i]
           \/ status[i] = "DRAFT" /\ status'[i] = "ISSUED"
    BY <1>2 DEF CloseCas, StillAsRead, tables, TypeOK, Finish
  <2>2. CASE status'[i] = status[i]
    <3>1. Accounts("idle", Blank)'
      BY DEF Accounts, PaidPc
    <3> QED
      BY <2>1, <2>2, <3>1, BlankType, MoneyBeside DEF Pc, SameMoney
  <2>3. CASE status[i] = "DRAFT" /\ status'[i] = "ISSUED"
    BY <2>1, <2>3, BlankType, StatusKeepsMoney DEF Pc
  <2> QED
    BY <2>1, <2>2, <2>3
<1> QED
  BY <1>1, <1>2

(***************************************************************************)
(* A payment alone: what it read is what the tables still say.             *)
(***************************************************************************)
LEMMA PayKeepsMoney ==
  ASSUME TypeOK, AloneInv, NEW r \in Req,
         PayReadRows(r) \/ PayInsert(r) \/ PayStatus(r) \/ PayTotals(r),
         NEW i \in Invoice \ mixed, i = loc[r].inv, MoneyOf(i)
  PROVE  MoneyOf(i)'
<1> USE DEF PaidPc, EditPc, HalfWrittenPc, AmountPc
<1>0. PICK l \in Local : l = loc[r]
  BY DEF TypeOK
<1>1. pc[r] \in AmountPc /\ lines' = lines /\ Accounts(pc[r], l) /\ l.inv = i
  BY <1>0 DEF PayReadRows, PayInsert, PayStatus, PayTotals, tables, MoneyOf
<1>2. LinesTotal(i)' = LinesTotal(i) /\ LinesTotal(i) \in Nat /\ payments[i] \in Nat
  BY <1>1, ItemsFinite DEF LinesTotal, TypeOK
<1>3. CASE PayReadRows(r)
  <2> DEFINE m == [l EXCEPT !.tot = LinesTotal(i), !.paid = payments[i]]
  <2>1. PICK n \in Local : n = m /\ n.inv = i /\ n.tot = LinesTotal(i) /\ n.paid = payments[i]
    <3>1. m \in Local /\ m.inv = i /\ m.tot = LinesTotal(i) /\ m.paid = payments[i]
      BY <1>1, <1>2 DEF Local
    <3> HIDE DEF m
    <3> QED
      BY <3>1
  <2>2. Goto(r, "payInsert", n)
    BY <1>0, <1>3, <2>1 DEF PayReadRows
  <2>3. pc[r] = "payRows" /\ UNCHANGED <<status, total, paidUsd, payments>>
    BY <1>3 DEF PayReadRows, header, tables
  <2> HIDE DEF m
  <2>4. Settled(i)
    BY <2>3, AloneIsSettled
  <2>5. Settled(i)'
    BY <1>1, <2>3, <2>4, SettledSame DEF SameMoney
  <2>6. Accounts("payInsert", n)'
    BY <1>2, <2>1, <2>3, <2>4 DEF Accounts, Settled
  <2> QED
    BY <1>1, <2>2, <2>5, <2>6, MoneyAlone DEF Pc, OtherPc
<1>4. CASE PayInsert(r)
  <2> DEFINE m == [l EXCEPT !.paid = @ + l.amt]
  <2>1. PICK n \in Local : n = m /\ n.inv = i /\ n.tot = l.tot /\ n.paid = l.paid + l.amt
    <3>1. m \in Local /\ m.inv = i /\ m.tot = l.tot /\ m.paid = l.paid + l.amt
      BY <1>1 DEF Local
    <3> HIDE DEF m
    <3> QED
      BY <3>1
  <2>2. Goto(r, "payStatus", n)
    BY <1>0, <1>4, <2>1 DEF PayInsert
  <2>3. /\ pc[r] = "payInsert" /\ UNCHANGED <<status, total, paidUsd>>
        /\ payments'[i] = payments[i] + l.amt
    BY <1>0, <1>4 DEF PayInsert, header, TypeOK
  <2> HIDE DEF m
  <2>4. total[i] = LinesTotal(i) /\ l.tot = LinesTotal(i) /\ l.paid = payments[i]
    BY <1>1, <1>2, <2>3 DEF Accounts
  <2>5. Accounts("payStatus", n)'
    BY <1>2, <2>1, <2>3, <2>4 DEF Accounts
  <2> QED
    BY <1>1, <2>1, <2>2, <2>5, MoneyAlone DEF Pc, OtherPc
<1>5. CASE PayStatus(r)
  <2>1. /\ pc[r] = "payStatus" /\ Goto(r, "payTotals", l)
        /\ UNCHANGED <<total, paidUsd, payments>>
        /\ status'[i] = ComputeStatus(l.st, l.tot, l.paid)
    BY <1>0, <1>5 DEF PayStatus, tables, TypeOK
  <2>2. total[i] = LinesTotal(i) /\ l.tot = LinesTotal(i) /\ l.paid = payments[i]
    BY <1>1, <1>2, <2>1 DEF Accounts
  <2>3. status'[i] = ComputeStatus(status'[i], l.tot, l.paid)
    BY <2>1, ComputeStatusStable DEF Local
  <2>4. Accounts("payTotals", l)'
    BY <1>1, <1>2, <2>1, <2>2, <2>3 DEF Accounts
  <2> QED
    BY <1>1, <2>1, <2>4, MoneyAlone DEF Pc, OtherPc
<1>6. CASE PayTotals(r)
  <2>1. /\ pc[r] = "payTotals" /\ Goto(r, "idle", Blank) /\ UNCHANGED <<status, payments>>
        /\ total'[i] = l.tot /\ paidUsd'[i] = l.paid
    BY <1>0, <1>6 DEF PayTotals, tables, TypeOK, Finish
  <2>2. /\ l.tot = LinesTotal(i) /\ l.paid = payments[i]
        /\ status[i] = ComputeStatus(status[i], l.tot, l.paid)
    BY <1>1, <1>2, <2>1 DEF Accounts
  <2>3. Settled(i)' /\ Accounts("idle", Blank)'
    BY <1>2, <2>1, <2>2 DEF Settled, Accounts
  <2> QED
    BY <1>1, <2>1, <2>3, BlankType, MoneyAlone DEF Pc
<1> QED
  BY <1>3, <1>4, <1>5, <1>6

(***************************************************************************)
(* An edit alone: the invoice it works on is unpaid throughout, although   *)
(* it may be closed or voided under it, and unless a link is refused it    *)
(* reaches the write of the total.                                         *)
(***************************************************************************)
LEMMA EditKeepsMoney ==
  ASSUME TypeOK, AloneInv, NEW r \in Req, ~LinkRefused(r),
         \/ EditReadRows(r) \/ EditResolve(r) \/ EditDelete(r) \/ EditInsert(r)
         \/ EditLink(r) \/ EditUnlink(r) \/ EditPatch(r),
         NEW i \in Invoice \ mixed, i = loc[r].inv, MoneyOf(i)
  PROVE  MoneyOf(i)'
<1> USE DEF PaidPc, EditPc, HalfWrittenPc, AmountPc
<1>0. PICK l \in Local : l = loc[r]
  BY DEF TypeOK
<1>1. /\ pc[r] \in EditPc
      /\ UNCHANGED <<status, closed, paidUsd, payments>>
  BY DEF EditReadRows, EditResolve, EditDelete, EditInsert, EditLink, EditUnlink, EditPatch,
         header, tables
<1>2. Accounts(pc[r], l) /\ l.inv = i
  BY <1>0 DEF MoneyOf
<1>3. Unpaid(i) /\ Unpaid(i)'
  BY <1>1, <1>2 DEF Accounts, Unpaid
<1>4. CASE EditReadRows(r)
  <2> DEFINE m == [l EXCEPT !.cur = Active(i)]
  <2>1. PICK n \in Local : n = m /\ n.inv = i
    <3>1. m \in Local /\ m.inv = i
      BY <1>2 DEF Local, Active
    <3> HIDE DEF m
    <3> QED
      BY <3>1
  <2>2. Goto(r, "editResolve", n)
    BY <1>0, <1>4, <2>1 DEF EditReadRows
  <2>3. pc[r] = "editRows" /\ lines' = lines /\ total' = total
    BY <1>4 DEF EditReadRows, header, tables
  <2> HIDE DEF m
  <2>4. Settled(i)
    BY <2>3, AloneIsSettled
  <2>5. Settled(i)'
    BY <1>1, <2>3, <2>4, SettledSame DEF SameMoney
  <2>6. Accounts("editResolve", n)'
    BY <1>3, <2>1 DEF Accounts
  <2> QED
    BY <1>1, <2>2, <2>5, <2>6, MoneyAlone DEF Pc, OtherPc
<1>5. CASE EditResolve(r)
  <2>1. /\ pc[r] = "editResolve" /\ lines' = lines /\ total' = total
        /\ Goto(r, "idle", Blank) \/ Goto(r, "editDelete", l)
    BY <1>0, <1>5 DEF EditResolve, header, tables, Finish
  <2>2. Settled(i)
    BY <2>1, AloneIsSettled
  <2>3. Settled(i)'
    BY <1>1, <2>1, <2>2, SettledSame DEF SameMoney
  <2>4. Accounts("editDelete", l)' /\ Accounts("idle", Blank)'
    BY <1>2, <1>3 DEF Accounts
  <2> QED
    BY <1>1, <2>1, <2>3, <2>4, BlankType, MoneyAlone DEF Pc, OtherPc
<1>6. CASE EditDelete(r)
  <2>1. pc[r] = "editDelete" /\ Goto(r, "editInsert", l) /\ lines'[i] = {}
    BY <1>0, <1>6 DEF EditDelete, TypeOK
  <2>2. Accounts("editInsert", l)'
    BY <1>2, <1>3, <2>1 DEF Accounts
  <2> QED
    BY <1>1, <1>2, <2>1, <2>2, MoneyAlone DEF Pc, OtherPc
<1>7. CASE EditInsert(r)
  <2>1. /\ pc[r] = "editInsert"
        /\ lines'[i] = lines[i] \cup (l.items \X {r})
    BY <1>0, <1>7 DEF EditInsert, TypeOK
  <2>2. LinesTotal(i)' = Cardinality(l.items)
    <3>1. lines'[i] = l.items \X {r}
      BY <1>2, <2>1 DEF Accounts
    <3> QED
      BY <3>1, PostedLines DEF LinesTotal, Local
  <2> DEFINE a == [l EXCEPT !.cur = {}]
             b == [l EXCEPT !.want = l.want \ l.cur, !.cur = l.cur \ l.want]
  <2>3. /\ a \in Local /\ a.inv = i /\ a.items = l.items
        /\ b \in Local /\ b.inv = i /\ b.items = l.items
    BY <1>2 DEF Local
  <2>4. Goto(r, "editPatch", a) \/ Goto(r, "editLinks", b)
    BY <1>0, <1>7 DEF EditInsert
  <2> HIDE DEF a, b
  <2>5. PICK n \in Local, call \in {"editPatch", "editLinks"} :
          Goto(r, call, n) /\ n.inv = i /\ n.items = l.items
    BY <2>3, <2>4
  <2>6. Accounts(call, n)'
    BY <1>3, <2>2, <2>5 DEF Accounts
  <2> QED
    BY <1>1, <2>5, <2>6, MoneyAlone DEF Pc, OtherPc
<1>8. CASE (EditLink(r) \/ EditUnlink(r)) /\ ~EditPatch(r)
  <2>1. pc[r] = "editLinks" /\ lines' = lines
    BY <1>8 DEF EditLink, EditUnlink
  <2>2. LinesTotal(i) = Cardinality(l.items)
    BY <1>2, <2>1 DEF Accounts
  <2>3. PICK p \in Package :
          \/ Goto(r, "editLinks", [l EXCEPT !.want = @ \ {p}])
          \/ Goto(r, "editLinks", [l EXCEPT !.cur = @ \ {p}])
    <3>1. CASE EditLink(r) /\ Finish(r)
      <4>1. loc[r].want # {} /\ pc'[r] = "idle"
        BY <3>1 DEF EditLink, Finish, Goto, TypeOK
      <4> QED
        BY <2>1, <4>1 DEF LinkRefused
    <3>2. CASE EditUnlink(r) \/ ~Finish(r)
      BY <1>0, <1>8, <3>2 DEF EditLink, EditUnlink, Local
    <3> QED
      BY <1>8, <3>1, <3>2
  <2> DEFINE a == [l EXCEPT !.want = @ \ {p}]
             b == [l EXCEPT !.cur = @ \ {p}]
  <2>5. /\ a \in Local /\ a.inv = i /\ a.items = l.items
        /\ b \in Local /\ b.inv = i /\ b.items = l.items
    BY <1>2 DEF Local
  <2>6. Goto(r, "editLinks", a) \/ Goto(r, "editLinks", b)
    BY <2>3
  <2> HIDE DEF a, b
  <2>7. PICK n \in Local : Goto(r, "editLinks", n) /\ n.inv = i /\ n.items = l.items
    BY <2>5, <2>6
  <2>8. Accounts("editLinks", n)'
    BY <1>3, <2>1, <2>2, <2>7 DEF Accounts, LinesTotal
  <2> QED
    BY <1>1, <2>7, <2>8, MoneyAlone DEF Pc, OtherPc
<1>9. CASE EditPatch(r)
  <2>1. /\ pc[r] \in {"editLinks", "editPatch"} /\ Goto(r, "idle", Blank)
        /\ lines' = lines /\ total'[i] = Cardinality(l.items)
    BY <1>0, <1>9 DEF EditPatch, tables, TypeOK, Finish
  <2>2. LinesTotal(i)' = Cardinality(l.items) /\ LinesTotal(i)' \in Nat
    BY <1>2, <2>1, ItemsFinite DEF Accounts, LinesTotal, Local
  <2>3. ComputeStatus(status'[i], LinesTotal(i)', 0) = status'[i]
    BY <1>3, <2>2, ComputeStatusUnpaid DEF Unpaid
  <2>4. Settled(i)' /\ Accounts("idle", Blank)'
    BY <1>3, <2>1, <2>2, <2>3 DEF Settled, Unpaid, Accounts
  <2> QED
    BY <1>1, <2>1, <2>4, BlankType, MoneyAlone DEF Pc
<1> QED
  BY <1>4, <1>5, <1>6, <1>7, <1>8, <1>9

(***************************************************************************)
(* The steps that write no figure of the invoice: those of other invoices, *)
(* those of the links, arrivals, and stops between two requests' writes.   *)
(***************************************************************************)
LEMMA OthersKeepMoney ==
  ASSUME TypeOK, NEW r \in Req, Continue(r) \/ Fail(r), ~InsertHeader(r),
         NEW i \in Invoice, i # loc[r].inv, MoneyOf(i)
  PROVE  MoneyOf(i)'
<1>1. SameMoney(i)
  BY StepWritesOwnInvoice DEF Untouched, SameMoney
<1>2. PICK call \in Pc, l \in Local : Goto(r, call, l) /\ l.inv # i
  <2>1. CASE Finish(r)
    BY <2>1, BlankType, BillingAssumption DEF Finish, Pc, Blank
  <2> QED
    BY <2>1, ContinueShape
<1> QED
  BY <1>1, <1>2, MoneyBeside

LEMMA LinkStepsKeepMoney ==
  ASSUME TypeOK, NEW r \in Req,
         \/ LinkBatch(r) \/ GuardLinks(r) \/ UndoLinks(r) \/ UndoArchive(r)
         \/ ArchiveStamp(r) \/ ReleaseLinks(r) \/ LinkCheck(r) \/ LinkPost(r)
         \/ UnlinkPatch(r),
         NEW i \in Invoice, MoneyOf(i)
  PROVE  MoneyOf(i)'
<1>1. /\ SameMoney(i) /\ Continue(r) /\ ~InsertHeader(r)
      /\ pc[r] \in {"link", "guard", "undoLinks", "undoArchive", "stamp", "release",
                    "linkCheck", "linkPost", "unlink"}
  BY DEF LinkBatch, GuardLinks, UndoLinks, UndoArchive, ArchiveStamp, ReleaseLinks, LinkCheck,
         LinkPost, UnlinkPatch, SameMoney, header, tables, Continue, InsertHeader
<1>2. PICK call \in Pc, l \in Local : Goto(r, call, l) /\ call \notin AmountPc
  <2>1. CASE Finish(r)
    BY <2>1, BlankType DEF Finish, Pc, AmountPc, EditPc
  <2> QED
    BY <1>1, <2>1, ContinueShape DEF Follows, AmountPc, EditPc
<1>3. Accounts(call, l)' /\ pc[r] \notin HalfWrittenPc
  BY <1>1, <1>2 DEF Accounts, AmountPc, EditPc, PaidPc, HalfWrittenPc
<1> QED
  BY <1>1, <1>2, <1>3, MoneyBeside

LEMMA ArriveKeepsMoney ==
  ASSUME TypeOK, LockInv, BaseInv, NEW r \in Req, Arrive(r),
         NEW i \in Invoice, MoneyOf(i)
  PROVE  MoneyOf(i)'
<1>1. PICK call \in FirstCall, l \in Local : Goto(r, call, l) /\ Admitted(call, l)
  BY ArriveShape
<1>2. pc[r] = "idle" /\ UNCHANGED <<header, tables>>
  BY ArriveShape
<1>3. ASSUME call = "editRows" PROVE Unpaid(l.inv)
  <2>1. l.inv \in Invoice /\ ~closed[l.inv] /\ status[l.inv] \in Status \ {"VOID"}
    BY <1>1, <1>3 DEF Admitted, Visible, TypeOK
  <2>2. status[l.inv] = "DRAFT"
    BY <2>1 DEF LockInv, ClosedIffIssued, Status
  <2>3. payments[l.inv] = 0 /\ paidUsd[l.inv] = 0
    BY <2>1 DEF LockInv, MoneyOnlyAfterLock, TypeOK
  <2> QED
    BY <2>2, <2>3 DEF Unpaid
<1>4. Accounts(call, l)'
  BY <1>2, <1>3 DEF Accounts, FirstCall, EditPc, PaidPc, Unpaid, header, tables
<1>5. call \in Pc /\ SameMoney(i) /\ pc[r] \notin HalfWrittenPc
  BY <1>2 DEF FirstCall, Pc, OtherPc, SameMoney, header, tables, HalfWrittenPc
<1> QED
  BY <1>1, <1>4, <1>5, MoneyBeside

LEMMA FailKeepsMoney ==
  ASSUME TypeOK, NEW r \in Req, Fail(r), NEW i \in Invoice, MoneyOf(i),
         ~(loc[r].inv = i /\ pc[r] \in HalfWrittenPc)
  PROVE  MoneyOf(i)'
<1>1. PICK call \in {"idle", "undoLinks"}, l \in Local : Goto(r, call, l)
  BY FailShape, BlankType DEF TypeOK
<1>2. call \in Pc /\ Accounts(call, l)' /\ SameMoney(i)
  BY FailShape DEF Pc, UndoPc, Accounts, EditPc, PaidPc, SameMoney, header, tables
<1> QED
  BY <1>1, <1>2, MoneyBeside

LEMMA MoneyStep ==
  ASSUME TypeOK, LockInv, BaseInv, AloneInv, MoneyInv, NEW r \in Req, Proceeds(r) \/ Stops(r)
  PROVE  MoneyInv'
<1> SUFFICES ASSUME NEW i \in Invoice, i \notin mixed', status'[i] # "ABSENT"
             PROVE  MoneyOf(i)'
  BY DEF MoneyInv, Existing
<1>1. i \notin mixed
  BY DEF Proceeds, Stops
<1>2. CASE InsertHeader(r)
  BY <1>1, <1>2, InsertHeaderKeepsMoney
<1>3. CASE ~InsertHeader(r)
  <2>1. Continue(r) \/ Arrive(r) \/ Fail(r)
    BY DEF Proceeds, Stops
  <2>2. status[i] # "ABSENT"
    <3>1. CASE i # loc[r].inv
      BY <1>3, <2>1, <3>1, StepWritesOwnInvoice DEF Untouched
    <3>2. CASE i = loc[r].inv
      BY <3>2, BillingAssumption
      DEF LockInv, RequestsSound, Sound, OnRecord, BaseInv, Placed, NoInvoicePc
    <3> QED
      BY <3>1, <3>2
  <2>3. MoneyOf(i)
    BY <1>1, <2>2 DEF MoneyInv, Existing
  <2>4. CASE Stops(r)
    <3>1. Fail(r) /\ ~(loc[r].inv = i /\ pc[r] \in HalfWrittenPc)
      BY <2>4 DEF Stops
    <3> QED
      BY <2>3, <3>1, FailKeepsMoney
  <2>5. CASE Proceeds(r) /\ Arrive(r)
    BY <2>3, <2>5, ArriveKeepsMoney
  <2>6. CASE Proceeds(r) /\ Continue(r) /\ i # loc[r].inv
    BY <1>3, <2>3, <2>6, OthersKeepMoney
  <2>7. CASE Proceeds(r) /\ Continue(r) /\ i = loc[r].inv
    <3>1. ~LinkRefused(r)
      BY <2>7 DEF Proceeds
    <3>2. ~(ReadNumber(r) \/ HeaderRefused(r))
      BY <2>7, BillingAssumption DEF ReadNumber, HeaderRefused, BaseInv, Placed, NoInvoicePc
    <3> QED
      BY <1>1, <1>3, <2>3, <2>7, <3>1, <3>2, InsertLinesKeepsMoney, LinkStepsKeepMoney,
         VoidAndCloseKeepMoney, PayKeepsMoney, EditKeepsMoney DEF Continue
  <2> QED
    BY <2>4, <2>5, <2>6, <2>7 DEF Proceeds
<1> QED
  BY <1>2, <1>3

LEMMA MoneyInvariant == BooksSpec => []MoneyInv
<1>1. BooksInit => MoneyInv
  BY DEF BooksInit, Init, MoneyInv, Existing
<1>2. TypeOK /\ LockInv /\ BaseInv /\ AloneInv /\ MoneyInv /\ [BooksNext]_booksVars
      => MoneyInv'
  <2>1. ASSUME MoneyInv, UNCHANGED booksVars PROVE MoneyInv'
    BY <2>1 DEF MoneyInv, MoneyOf, Unhalved, Accounts, Unpaid, Settled, LinesTotal, Existing,
                booksVars, vars, header, tables
  <2> QED
    BY <2>1, MoneyStep DEF BooksNext
<1> QED
  BY TypeCorrect, LockInvariant, BaseInvariant, AloneInvariant, BooksIsService, <1>1, <1>2, PTL
  DEF BooksSpec

(***************************************************************************)
(* total = sum(line_items.total), "maintained on every write": whenever no *)
(* request is working on the invoice, whatever closes, voids, links and    *)
(* archivings ran beside the one that wrote it and whichever calls failed  *)
(* before or after its writes.                                             *)
(***************************************************************************)
THEOREM TotalIsSumOfLinesHolds == BooksSpec => []TotalIsSumOfLines
<1>1. MoneyInv => TotalIsSumOfLines
  BY DEF MoneyInv, MoneyOf, Unhalved, Settled, TotalIsSumOfLines, AtRest
<1> QED
  BY MoneyInvariant, <1>1, PTL

(***************************************************************************)
(* paid_usd = sum(payments.amount_usd), likewise; and paid_usd is at no    *)
(* time more than was paid, also while payments overlap or after one died. *)
(***************************************************************************)
THEOREM PaidIsSumOfPaymentsHolds == BooksSpec => []PaidIsSumOfPayments
<1>1. LockInv /\ BaseInv /\ MoneyInv => PaidIsSumOfPayments
  BY DEF MoneyInv, MoneyOf, Unhalved, Settled, PaidIsSumOfPayments, AtRest, Existing, LockInv,
         AbsentUntouched, BaseInv
<1> QED
  BY LockInvariant, BaseInvariant, BooksIsService, MoneyInvariant, <1>1, PTL

(***************************************************************************)
(* The workflow status of an invoice at rest is the one that its lines and *)
(* payments call for, also when it was voided or closed between the calls  *)
(* of a payment or of an edit.                                             *)
(***************************************************************************)
THEOREM StatusMatchesMoneyHolds == BooksSpec => []StatusMatchesMoney
<1>1. MoneyInv => StatusMatchesMoney
  BY DEF MoneyInv, MoneyOf, Unhalved, Settled, StatusMatchesMoney, AtRest
<1> QED
  BY MoneyInvariant, <1>1, PTL

-----------------------------------------------------------------------------
(***************************************************************************)
(* Links.  An invoice that ended has none left, or the request that ended  *)
(* it has its release still to make; a request that goes on to link works  *)
(* on an invoice that has not ended.                                       *)
(***************************************************************************)
LinkingPc == {"lines", "link", "linkCheck", "linkPost"} \cup EditPc

HeldBy(i) ==
  /\ Ended(i) => Active(i) = {} \/ \E r \in Req : loc[r].inv = i /\ pc[r] = "release"
  /\ \A r \in Req : loc[r].inv = i =>
       /\ pc[r] \in LinkingPc => ~Ended(i)
       /\ pc[r] = "undoArchive" => Active(i) = {}

HoldInv == \A i \in Invoice \ leaky : HeldBy(i)

(***************************************************************************)
(* Beside: the step neither ends the invoice nor links a package to it.    *)
(***************************************************************************)
LEMMA HoldBeside ==
  ASSUME TypeOK, NEW i \in Invoice, HeldBy(i),
         Ended(i)' => Ended(i), Active(i)' \subseteq Active(i),
         NEW r \in Req, NEW call \in Pc, NEW l \in Local, Goto(r, call, l),
         l.inv = i /\ call \in LinkingPc => ~Ended(i)',
         l.inv = i /\ call = "undoArchive" => Active(i)' = {},
         loc[r].inv = i /\ pc[r] = "release" => Active(i)' = {}
  PROVE  HeldBy(i)'
<1>1. ASSUME Ended(i)'
      PROVE  Active(i)' = {} \/ \E q \in Req : loc'[q].inv = i /\ pc'[q] = "release"
  <2>1. Active(i) = {} \/ \E q \in Req : loc[q].inv = i /\ pc[q] = "release"
    BY <1>1 DEF HeldBy
  <2>2. CASE Active(i) = {}
    BY <2>2
  <2>3. CASE \E q \in Req : loc[q].inv = i /\ pc[q] = "release"
    <3>1. PICK q \in Req : loc[q].inv = i /\ pc[q] = "release"
      BY <2>3
    <3> QED
      BY <3>1, GotoIs
  <2> QED
    BY <2>1, <2>2, <2>3
<1>2. ASSUME NEW q \in Req, loc'[q].inv = i
      PROVE  /\ pc'[q] \in LinkingPc => ~Ended(i)'
             /\ pc'[q] = "undoArchive" => Active(i)' = {}
  <2>1. CASE q = r
    BY <1>2, <2>1, GotoIs
  <2>2. CASE q # r
    BY <1>2, <2>2, GotoIs DEF HeldBy
  <2> QED
    BY <2>1, <2>2
<1> QED
  BY <1>1, <1>2 DEF HeldBy

(***************************************************************************)
(* Alone: no other request on the invoice links or ends it.                *)
(***************************************************************************)
LEMMA HoldAlone ==
  ASSUME TypeOK, AloneInv, NEW i \in Invoice \ leaky,
         NEW r \in Req, loc[r].inv = i, pc[r] \in LinkPc,
         NEW call \in Pc, NEW l \in Local, Goto(r, call, l),
         Ended(i)' => Active(i)' = {} \/ (l.inv = i /\ call = "release"),
         l.inv = i /\ call \in LinkingPc => ~Ended(i)',
         l.inv = i /\ call = "undoArchive" => Active(i)' = {}
  PROVE  HeldBy(i)'
<1>1. \A q \in Req \ {r} : loc[q].inv = i => pc[q] \notin LinkPc
  BY DEF AloneInv, Overlapped
<1>2. LinkingPc \cup {"undoArchive"} \subseteq LinkPc
  BY DEF LinkingPc, LinkPc, TryPc, UndoPc
<1>3. \A q \in Req \ {r} : pc'[q] = pc[q] /\ loc'[q] = loc[q]
  BY GotoIs
<1>4. pc'[r] = call /\ loc'[r] = l
  BY GotoIs
<1> QED
  BY <1>1, <1>2, <1>3, <1>4 DEF HeldBy

(***************************************************************************)
(* A request that goes on to link ends nothing.                            *)
(***************************************************************************)
LEMMA LinkingKeepsHold ==
  ASSUME TypeOK, AloneInv, NEW r \in Req, Continue(r), pc[r] \in LinkingPc,
         NEW i \in Invoice \ leaky, i = loc[r].inv, HeldBy(i)
  PROVE  HeldBy(i)'
<1>1. ~Ended(i)
  BY DEF HeldBy
<1>2. UNCHANGED <<status, closed, archived>> /\ ~InsertHeader(r)
  BY ColumnWriters
  DEF LinkingPc, EditPc, InsertHeader, CloseCas, PayStatus, VoidStatus, UndoArchive,
      ArchiveStamp
<1>3. ~Ended(i)'
  BY <1>1, <1>2 DEF Ended
<1>4. PICK call \in Pc, l \in Local : Goto(r, call, l) /\ call # "undoArchive"
  <2>1. CASE Finish(r)
    BY <2>1, BlankType DEF Finish, Pc
  <2> QED
    BY <1>2, <2>1, ContinueShape DEF Follows, LinkingPc, EditPc
<1>5. pc[r] \in LinkPc
  BY DEF LinkingPc, LinkPc, TryPc
<1> QED
  BY <1>3, <1>4, <1>5, HoldAlone

(***************************************************************************)
(* Voiding and archiving, which release afterwards, and the compensation,  *)
(* which has released before.                                              *)
(***************************************************************************)
LEMMA EndingKeepsHold ==
  ASSUME TypeOK, AloneInv, NEW r \in Req,
         VoidStatus(r) \/ ArchiveStamp(r) \/ UndoArchive(r),
         NEW i \in Invoice \ leaky, i = loc[r].inv, HeldBy(i)
  PROVE  HeldBy(i)'
<1>1. pc[r] \in LinkPc
  BY DEF VoidStatus, ArchiveStamp, UndoArchive, LinkPc, UndoPc
<1>2. CASE VoidStatus(r) \/ ArchiveStamp(r)
  <2>1. PICK l \in Local : l = loc[r] /\ Goto(r, "release", l)
    BY <1>2 DEF VoidStatus, ArchiveStamp, TypeOK
  <2> QED
    BY <1>1, <2>1, HoldAlone DEF Pc, OtherPc, LinkingPc, EditPc
<1>3. CASE UndoArchive(r)
  <2>1. Goto(r, "idle", Blank) /\ Active(i)' = {}
    BY <1>3 DEF UndoArchive, HeldBy, Active, tables, Finish
  <2> QED
    BY <1>1, <2>1, BlankType, HoldAlone DEF Pc, LinkingPc, EditPc
<1> QED
  BY <1>2, <1>3

(***************************************************************************)
(* The other calls neither link nor end: a close needs a status other than *)
(* VOID, a payment writes one, and releases only take links away.          *)
(***************************************************************************)
LEMMA QuietKeepsHold ==
  ASSUME TypeOK, LockInv, BaseInv, NEW r \in Req, Continue(r), ~InsertHeader(r),
         ~(VoidStatus(r) \/ ArchiveStamp(r) \/ UndoArchive(r)), pc[r] \notin LinkingPc,
         NEW i \in Invoice, i = loc[r].inv, HeldBy(i)
  PROVE  HeldBy(i)'
<1>1. Ended(i)' => Ended(i)
  <2>1. archived' = archived
    BY ColumnWriters
  <2>2. CASE PayStatus(r)
    <3>1. loc[r].st \in Money
      BY <2>2 DEF PayStatus, LockInv, RequestsSound, Sound, PaysLocked, PayPc
    <3>2. status'[i] # "VOID"
      BY <2>2, <3>1 DEF PayStatus, ComputeStatus, Money, TypeOK
    <3> QED
      BY <2>1, <3>2 DEF Ended
  <2>3. CASE CloseCas(r)
    <3>1. loc[r].st # "VOID"
      BY <2>3 DEF CloseCas, BaseInv, Placed
    <3>2. UNCHANGED <<closed, status>> \/ status'[i] # "VOID"
      BY <2>3, <3>1 DEF CloseCas, StillAsRead, TypeOK
    <3> QED
      BY <2>1, <3>2 DEF Ended
  <2>4. CASE ~(PayStatus(r) \/ CloseCas(r))
    BY <2>1, <2>4, ColumnWriters DEF Ended
  <2> QED
    BY <2>2, <2>3, <2>4
<1>2. /\ Active(i)' \subseteq Active(i)
      /\ pc[r] \in {"release", "undoLinks"} => Active(i)' = {}
  <2>1. ~(LinkBatch(r) \/ LinkPost(r) \/ EditLink(r) \/ EditUnlink(r))
    BY DEF LinkBatch, LinkPost, EditLink, EditUnlink, LinkingPc, EditPc
  <2>2. CASE UndoLinks(r) \/ ReleaseLinks(r)
    BY <2>2, LinkWritesEmpty DEF UndoLinks, ReleaseLinks
  <2>3. CASE UnlinkPatch(r)
    <3>1. pc[r] = "unlink" /\ link' = Released(i, loc[r].want)
      BY <2>3 DEF UnlinkPatch
    <3> QED
      BY <3>1 DEF Released, Active, TypeOK
  <2>4. CASE ~(UndoLinks(r) \/ ReleaseLinks(r) \/ UnlinkPatch(r))
    <3>1. pc[r] \notin {"release", "undoLinks"}
      BY <2>4
      DEF Continue, ReadNumber, InsertHeader, HeaderRefused, InsertLines, LinkBatch,
          GuardLinks, UndoArchive, CloseCas, PayReadRows, PayInsert, PayStatus, PayTotals,
          VoidStatus, ArchiveStamp, LinkCheck, LinkPost, EditReadRows, EditResolve,
          EditDelete, EditInsert, EditLink, EditUnlink, EditPatch
    <3> QED
      BY <2>1, <2>4, <3>1, ColumnWriters DEF Active
  <2> QED
    BY <2>2, <2>3, <2>4
<1>3. PICK call \in Pc, l \in Local :
        /\ Goto(r, call, l) /\ call \notin LinkingPc
        /\ call = "undoArchive" => pc[r] = "undoLinks"
  <2>1. CASE Finish(r)
    BY <2>1, BlankType DEF Finish, Pc, LinkingPc, EditPc
  <2>2. CASE ~Finish(r)
    <3>1. PICK call \in Pc, l \in Local : Goto(r, call, l) /\ <<pc[r], call>> \in Follows
      BY <2>2, ContinueShape
    <3> QED
      BY <3>1 DEF Follows, LinkingPc, EditPc
  <2> QED
    BY <2>1, <2>2
<1> QED
  BY <1>1, <1>2, <1>3, HoldBeside

LEMMA OthersKeepHold ==
  ASSUME TypeOK, NEW r \in Req, Continue(r) \/ Fail(r), ~InsertHeader(r),
         NEW i \in Invoice, i # loc[r].inv, HeldBy(i)
  PROVE  HeldBy(i)'
<1>1. Untouched(i)
  BY StepWritesOwnInvoice
<1>2. (Ended(i)' => Ended(i)) /\ Active(i)' \subseteq Active(i)
  BY <1>1 DEF Untouched, Ended, Active
<1>3. PICK call \in Pc, l \in Local : Goto(r, call, l) /\ l.inv # i
  <2>1. CASE Finish(r)
    BY <2>1, BlankType, BillingAssumption DEF Finish, Pc, Blank
  <2> QED
    BY <2>1, ContinueShape
<1> QED
  BY <1>2, <1>3, HoldBeside

LEMMA ArriveKeepsHold ==
  ASSUME TypeOK, NEW r \in Req, Arrive(r), NEW i \in Invoice, HeldBy(i)
  PROVE  HeldBy(i)'
<1>1. PICK call \in FirstCall, l \in Local : Goto(r, call, l) /\ Admitted(call, l)
  BY ArriveShape
<1>2. pc[r] = "idle" /\ UNCHANGED <<header, tables>>
  BY ArriveShape
<1>3. (Ended(i)' => Ended(i)) /\ Active(i)' \subseteq Active(i)
  BY <1>2 DEF header, tables, Ended, Active
<1>4. call \in Pc /\ call # "undoArchive"
  BY DEF FirstCall, Pc, OtherPc
<1>5. l.inv = i /\ call \in LinkingPc => ~Ended(i)
  BY <1>1 DEF LinkingPc, EditPc, FirstCall, Admitted, Visible, Ended
<1> QED
  BY <1>1, <1>2, <1>3, <1>4, <1>5, HoldBeside

LEMMA InsertHeaderKeepsHold ==
  ASSUME TypeOK, LockInv, BaseInv, NEW r \in Req, InsertHeader(r),
         NEW i \in Invoice, HeldBy(i)
  PROVE  HeldBy(i)'
<1>1. PICK j \in Invoice, n \in Local :
        /\ status[j] = "ABSENT" /\ Goto(r, "lines", n) /\ n.inv = j
        /\ status'[j] \in {"DRAFT", "ISSUED"} /\ archived'[j] = archived[j]
        /\ link'[j] = link[j]
        /\ \A k \in Invoice \ {j} : Untouched(k)
  BY InsertHeaderWrites
<1>2. ~Ended(j)'
  BY <1>1 DEF BaseInv, Ended
<1>3. (Ended(i)' => Ended(i)) /\ Active(i)' \subseteq Active(i)
  BY <1>1, <1>2 DEF Untouched, Ended, Active
<1>4. pc[r] # "release" /\ "lines" \in Pc
  BY DEF InsertHeader, Pc, TryPc
<1> QED
  BY <1>1, <1>2, <1>3, <1>4, HoldBeside

LEMMA FailKeepsHold ==
  ASSUME TypeOK, NEW r \in Req, Fail(r), NEW i \in Invoice, HeldBy(i),
         ~(loc[r].inv = i /\ pc[r] = "release")
  PROVE  HeldBy(i)'
<1>1. PICK call \in {"idle", "undoLinks"}, l \in Local : Goto(r, call, l)
  BY FailShape, BlankType DEF TypeOK
<1>2. (Ended(i)' => Ended(i)) /\ Active(i)' \subseteq Active(i)
  BY FailShape DEF header, tables, Ended, Active
<1> QED
  BY <1>1, <1>2, HoldBeside DEF Pc, UndoPc, LinkingPc, EditPc

LEMMA HoldStep ==
  ASSUME TypeOK, LockInv, BaseInv, AloneInv, HoldInv, NEW r \in Req, Proceeds(r) \/ Stops(r)
  PROVE  HoldInv'
<1> SUFFICES ASSUME NEW i \in Invoice, i \notin leaky' PROVE HeldBy(i)'
  BY DEF HoldInv
<1>1. i \notin leaky /\ HeldBy(i)
  BY DEF Proceeds, Stops, HoldInv
<1>2. CASE Stops(r)
  BY <1>1, <1>2, FailKeepsHold DEF Stops
<1>3. CASE Arrive(r)
  BY <1>1, <1>3, ArriveKeepsHold
<1>4. CASE InsertHeader(r)
  BY <1>1, <1>4, InsertHeaderKeepsHold
<1>5. CASE Continue(r) /\ ~InsertHeader(r)
  BY <1>1, <1>5, OthersKeepHold, LinkingKeepsHold, EndingKeepsHold, QuietKeepsHold
<1> QED
  BY <1>2, <1>3, <1>4, <1>5 DEF Proceeds

LEMMA HoldInvariant == BooksSpec => []HoldInv
<1>1. BooksInit => HoldInv
  BY DEF BooksInit, Init, HoldInv, HeldBy, Active, LinkingPc, EditPc
<1>2. TypeOK /\ LockInv /\ BaseInv /\ AloneInv /\ HoldInv /\ [BooksNext]_booksVars => HoldInv'
  <2>1. ASSUME HoldInv, UNCHANGED booksVars PROVE HoldInv'
    BY <2>1 DEF HoldInv, HeldBy, Ended, Active, booksVars, vars, header, tables
  <2> QED
    BY <2>1, HoldStep DEF BooksNext
<1> QED
  BY TypeCorrect, LockInvariant, BaseInvariant, AloneInvariant, BooksIsService, <1>1, <1>2, PTL
  DEF BooksSpec

(***************************************************************************)
(* A voided or archived invoice holds no package once its requests have    *)
(* ended, so that everything on it can be invoiced again: under every      *)
(* interleaving, manual link and fault, unless two requests that link or   *)
(* release overlapped on it or its release did not get through.            *)
(***************************************************************************)
THEOREM DeadHoldsNothingHolds == BooksSpec => []DeadHoldsNothing
<1>1. HoldInv => DeadHoldsNothing
  BY DEF HoldInv, HeldBy, DeadHoldsNothing, AtRest
<1> QED
  BY HoldInvariant, <1>1, PTL
=============================================================================
