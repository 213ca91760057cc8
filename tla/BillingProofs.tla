---------------------------- MODULE BillingProofs ----------------------------
(***************************************************************************)
(* Theorems about BillingService for every set of invoices, packages and   *)
(* requests, every choice of endpoints and every failure.                  *)
(***************************************************************************)
EXTENDS BillingRequirements, FiniteSetTheorems, TLAPS

(***************************************************************************)
(* Finite tables: counting lines gives a natural number.                   *)
(***************************************************************************)
LEMMA ItemsFinite ==
  /\ IsFiniteSet(Item)
  /\ \A S \in SUBSET Item : Cardinality(S) \in Nat
  /\ \A S \in SUBSET (Item \X Req) : Cardinality(S) \in Nat
<1>1. IsFiniteSet(Item)
  BY BillingAssumption, FS_Union DEF Item, Freight
<1>2. IsFiniteSet(Item \X Req)
  BY <1>1, BillingAssumption, FS_Product
<1>3. QED
  BY <1>1, <1>2, FS_Subset, FS_CardinalityType

LEMMA ComputeStatusType ==
  ASSUME NEW st \in Status \cup {"ABSENT"}, NEW tot \in Nat, NEW paid \in Nat
  PROVE  ComputeStatus(st, tot, paid) \in Status
BY DEF ComputeStatus, Status

(***************************************************************************)
(* The upsert and the release keep the link table a table.                 *)
(***************************************************************************)
LEMMA LinkWrites ==
  ASSUME link \in [Invoice -> [Package -> LinkState]],
         NEW i \in Invoice, NEW P
  PROVE  /\ Upserted(i, P) \in [Invoice -> [Package -> LinkState]]
         /\ Released(i, P) \in [Invoice -> [Package -> LinkState]]
BY DEF Upserted, Released, LinkState

LEMMA BlankType == Blank \in Local
BY DEF Blank, Local, Status

LEMMA TypeInit == Init => TypeOK
BY BlankType DEF Init, TypeOK, Status, LinkState, Pc

(***************************************************************************)
(* A request moves on with well-typed locals; the others keep theirs.      *)
(***************************************************************************)
LEMMA GotoType ==
  ASSUME TypeOK, NEW r \in Req, NEW call \in Pc, NEW l \in Local, Goto(r, call, l),
         call \notin {"idle", "number", "header"} => l.inv \in Invoice
  PROVE  /\ pc' \in [Req -> Pc]
         /\ loc' \in [Req -> Local]
         /\ \A q \in Req :
              pc'[q] \notin {"idle", "number", "header"} => loc'[q].inv \in Invoice
BY DEF TypeOK, Goto

LEMMA FinishType ==
  ASSUME TypeOK, NEW r \in Req, Finish(r)
  PROVE  /\ pc' \in [Req -> Pc]
         /\ loc' \in [Req -> Local]
         /\ \A q \in Req :
              pc'[q] \notin {"idle", "number", "header"} => loc'[q].inv \in Invoice
BY BlankType, GotoType DEF Finish, Pc

LEMMA TypeStep ==
  ASSUME TypeOK, NEW r \in Req, Continue(r) \/ Arrive(r) \/ Fail(r)
  PROVE  TypeOK'
<1> USE DEF header, tables
<1> DEFINE l == loc[r]
<1>0. l \in Local
  BY DEF TypeOK
<1>1. CASE CreateResolve(r)
  <2>1. PICK items \in SUBSET Item, extra \in SUBSET Package, st \in {"DRAFT", "ISSUED"} :
          Goto(r, "number", [Blank EXCEPT !.items = items,
                                          !.want = (items \cap Package) \cup extra, !.st = st])
    BY <1>1 DEF CreateResolve
  <2> QED
    BY <1>1, <2>1, GotoType, BlankType DEF CreateResolve, TypeOK, Local, Status, Pc, OtherPc
<1>2. CASE BulkPreview(r)
  <2>1. PICK P \in (SUBSET Package) \ {{}} :
          Goto(r, "number", [Blank EXCEPT !.items = P, !.want = P, !.st = "DRAFT"])
    BY <1>2 DEF BulkPreview
  <2> QED
    BY <1>2, <2>1, GotoType, BlankType
    DEF BulkPreview, TypeOK, Local, Status, Pc, OtherPc, Item, Freight
<1>3. CASE ReadNumber(r)
  <2>1. PICK last \in HighestNumber : Goto(r, "header", [loc[r] EXCEPT !.num = last + 1])
    BY <1>3 DEF ReadNumber
  <2>2. last \in Nat
    BY <2>1 DEF HighestNumber, Existing, TypeOK
  <2>3. [loc[r] EXCEPT !.num = last + 1] \in Local
    BY <1>0, <2>2 DEF Local
  <2> QED
    BY <1>3, <2>1, <2>3, GotoType DEF ReadNumber, TypeOK, Pc, OtherPc
<1>4. CASE InsertHeader(r)
  <2>1. PICK i \in Invoice :
          /\ status' = [status EXCEPT ![i] = loc[r].st]
          /\ closed' = [closed EXCEPT ![i] = (loc[r].st # "DRAFT")]
          /\ number' = [number EXCEPT ![i] = loc[r].num]
          /\ total' = [total EXCEPT ![i] = Cardinality(loc[r].items)]
          /\ Goto(r, "lines", [loc[r] EXCEPT !.inv = i])
    BY <1>4 DEF InsertHeader
  <2>2. /\ [loc[r] EXCEPT !.inv = i] \in Local
        /\ [loc[r] EXCEPT !.inv = i].inv = i
    BY <1>0 DEF Local
  <2>3. Cardinality(loc[r].items) \in Nat
    BY <1>0, ItemsFinite DEF Local
  <2>4. loc[r].st \in Status \cup {"ABSENT"} /\ loc[r].num \in Nat
    BY <1>0 DEF Local
  <2>5. /\ pc' \in [Req -> Pc]
        /\ loc' \in [Req -> Local]
        /\ \A q \in Req :
             pc'[q] \notin {"idle", "number", "header"} => loc'[q].inv \in Invoice
    BY <2>1, <2>2, GotoType DEF Pc, TryPc
  <2> QED
    BY <1>4, <2>1, <2>3, <2>4, <2>5 DEF InsertHeader, TypeOK
<1>5. CASE HeaderRefused(r)
  BY <1>5, FinishType DEF HeaderRefused, TypeOK
<1>6. CASE InsertLines(r)
  BY <1>0, <1>6, GotoType DEF InsertLines, TypeOK, Local, Pc, TryPc
<1>7. CASE LinkBatch(r)
  BY <1>0, <1>7, GotoType, LinkWrites DEF LinkBatch, TypeOK, Local, Pc, TryPc, UndoPc
<1>8. CASE GuardLinks(r)
  BY <1>0, <1>8, GotoType, FinishType DEF GuardLinks, TypeOK, Local, Pc, TryPc, UndoPc
<1>9. CASE UndoLinks(r)
  BY <1>0, <1>9, GotoType, LinkWrites DEF UndoLinks, TypeOK, Local, Pc, UndoPc
<1>10. CASE UndoArchive(r)
  BY <1>10, FinishType DEF UndoArchive, TypeOK
<1>11. CASE CloseRead(r)
  BY <1>11, GotoType, BlankType DEF CloseRead, TypeOK, Local, Pc, OtherPc
<1>12. CASE CloseCas(r)
  BY <1>0, <1>12, FinishType DEF CloseCas, StillAsRead, TypeOK, Local, Status
<1>13. CASE PayReadHeader(r)
  BY <1>13, GotoType, BlankType, BillingAssumption
  DEF PayReadHeader, TypeOK, Local, Pc, OtherPc
<1>14. CASE PayReadRows(r)
  <2>1. loc[r].inv \in Invoice /\ LinesTotal(loc[r].inv) \in Nat
    BY <1>14, ItemsFinite DEF PayReadRows, LinesTotal, TypeOK
  <2> QED
    BY <1>0, <1>14, <2>1, GotoType DEF PayReadRows, TypeOK, Local, Pc, OtherPc
<1>15. CASE PayInsert(r)
  <2>1. loc[r].inv \in Invoice /\ loc[r].amt \in Nat /\ loc[r].paid \in Nat
    BY <1>0, <1>15 DEF PayInsert, TypeOK, Local
  <2>2. /\ [loc[r] EXCEPT !.paid = @ + loc[r].amt] \in Local
        /\ [loc[r] EXCEPT !.paid = @ + loc[r].amt].inv = loc[r].inv
    BY <1>0, <2>1 DEF Local
  <2>3. payments' \in [Invoice -> Nat]
    BY <1>15, <2>1 DEF PayInsert, TypeOK
  <2> QED
    BY <1>15, <2>1, <2>2, <2>3, GotoType DEF PayInsert, TypeOK, Pc, OtherPc
<1>16. CASE PayStatus(r)
  BY <1>0, <1>16, GotoType, ComputeStatusType DEF PayStatus, TypeOK, Local, Pc, OtherPc
<1>17. CASE PayTotals(r)
  BY <1>0, <1>17, FinishType DEF PayTotals, TypeOK, Local
<1>18. CASE VoidRead(r)
  BY <1>18, GotoType, BlankType DEF VoidRead, TypeOK, Local, Pc, OtherPc
<1>19. CASE VoidStatus(r)
  BY <1>0, <1>19, GotoType DEF VoidStatus, TypeOK, Status, Pc, OtherPc
<1>20. CASE ArchiveRead(r)
  BY <1>20, GotoType, BlankType DEF ArchiveRead, TypeOK, Local, Pc, OtherPc
<1>21. CASE ArchiveStamp(r)
  BY <1>0, <1>21, GotoType DEF ArchiveStamp, TypeOK, Pc, OtherPc
<1>22. CASE ReleaseLinks(r)
  BY <1>22, FinishType, LinkWrites DEF ReleaseLinks, TypeOK
<1>23. CASE LinkRead(r)
  BY <1>23, GotoType, BlankType DEF LinkRead, TypeOK, Local, Pc, OtherPc
<1>24. CASE LinkCheck(r)
  BY <1>0, <1>24, GotoType, FinishType DEF LinkCheck, TypeOK, Pc, OtherPc
<1>25. CASE LinkPost(r)
  BY <1>25, FinishType, LinkWrites DEF LinkPost, TypeOK
<1>26. CASE UnlinkRead(r)
  BY <1>26, GotoType, BlankType DEF UnlinkRead, TypeOK, Local, Pc, OtherPc
<1>27. CASE UnlinkPatch(r)
  BY <1>27, FinishType, LinkWrites DEF UnlinkPatch, TypeOK
<1>28. CASE EditReadHeader(r)
  BY <1>28, GotoType, BlankType DEF EditReadHeader, TypeOK, Local, Pc, OtherPc
<1>29. CASE EditReadRows(r)
  BY <1>0, <1>29, GotoType DEF EditReadRows, Active, TypeOK, Local, Pc, OtherPc
<1>30. CASE EditResolve(r)
  BY <1>0, <1>30, GotoType, FinishType DEF EditResolve, TypeOK, Pc, OtherPc
<1>31. CASE EditDelete(r)
  BY <1>0, <1>31, GotoType DEF EditDelete, TypeOK, Pc, OtherPc
<1>32. CASE EditInsert(r)
  BY <1>0, <1>32, GotoType DEF EditInsert, TypeOK, Local, Pc, OtherPc
<1>33. CASE EditLink(r)
  <2>1. CASE UNCHANGED link /\ Finish(r)
    BY <1>33, <2>1, FinishType DEF EditLink, TypeOK
  <2>2. CASE ~(UNCHANGED link /\ Finish(r))
    <3>1. PICK p \in loc[r].want :
            /\ link' = Upserted(loc[r].inv, {p})
            /\ Goto(r, "editLinks", [loc[r] EXCEPT !.want = @ \ {p}])
      BY <1>33, <2>2 DEF EditLink
    <3>2. /\ [loc[r] EXCEPT !.want = @ \ {p}] \in Local
          /\ [loc[r] EXCEPT !.want = @ \ {p}].inv = loc[r].inv
      BY <1>0 DEF Local
    <3>3. loc[r].inv \in Invoice
      BY <1>33 DEF EditLink, TypeOK
    <3>4. link' \in [Invoice -> [Package -> LinkState]]
      BY <3>1, <3>3, LinkWrites DEF TypeOK
    <3> QED
      BY <1>33, <3>1, <3>2, <3>3, <3>4, GotoType DEF EditLink, TypeOK, Pc, OtherPc
  <2> QED
    BY <2>1, <2>2
<1>34. CASE EditUnlink(r)
  <2>1. PICK p \in loc[r].cur :
          /\ link' = Released(loc[r].inv, {p})
          /\ Goto(r, "editLinks", [loc[r] EXCEPT !.cur = @ \ {p}])
    BY <1>34 DEF EditUnlink
  <2>2. /\ [loc[r] EXCEPT !.cur = @ \ {p}] \in Local
        /\ [loc[r] EXCEPT !.cur = @ \ {p}].inv = loc[r].inv
    BY <1>0 DEF Local
  <2>3. loc[r].inv \in Invoice
    BY <1>34 DEF EditUnlink, TypeOK
  <2>4. link' \in [Invoice -> [Package -> LinkState]]
    BY <2>1, <2>3, LinkWrites DEF TypeOK
  <2> QED
    BY <1>34, <2>1, <2>2, <2>3, <2>4, GotoType DEF EditUnlink, TypeOK, Pc, OtherPc
<1>35. CASE EditPatch(r)
  BY <1>0, <1>35, FinishType, ItemsFinite DEF EditPatch, TypeOK, Local
<1>36. CASE Fail(r)
  BY <1>0, <1>36, GotoType, FinishType
  DEF Fail, CreateCallFails, CallFails, Crash, TypeOK, Pc, TryPc, UndoPc, OtherPc
<1> QED
  BY <1>1, <1>2, <1>3, <1>4, <1>5, <1>6, <1>7, <1>8, <1>9, <1>10, <1>11, <1>12, <1>13,
     <1>14, <1>15, <1>16, <1>17, <1>18, <1>19, <1>20, <1>21, <1>22, <1>23, <1>24, <1>25,
     <1>26, <1>27, <1>28, <1>29, <1>30, <1>31, <1>32, <1>33, <1>34, <1>35, <1>36
  DEF Continue, Arrive

(***************************************************************************)
(* Every variable of the tables and of the requests keeps its type.        *)
(***************************************************************************)
THEOREM TypeCorrect == Spec => []TypeOK
<1>1. TypeOK /\ [Next]_vars => TypeOK'
  <2>1. ASSUME TypeOK, Next PROVE TypeOK'
    BY <2>1, TypeStep DEF Next
  <2>2. ASSUME TypeOK, UNCHANGED vars PROVE TypeOK'
    BY <2>2 DEF TypeOK, vars, header, tables
  <2> QED
    BY <2>1, <2>2
<1> QED
  BY TypeInit, <1>1, PTL DEF Spec

-----------------------------------------------------------------------------
(***************************************************************************)
(* The link table is only ever written by an upsert that the partial       *)
(* unique index lets pass and by a release.                                *)
(***************************************************************************)
LinkWritten ==
  \/ link' = link
  \/ \E i \in Invoice, P \in SUBSET Package :
       \/ ~LinkConflict(i, P) /\ link' = Upserted(i, P)
       \/ link' = Released(i, P)

LEMMA LinkStep ==
  ASSUME TypeOK, NEW r \in Req, Continue(r) \/ Arrive(r) \/ Fail(r)
  PROVE  LinkWritten
<1> USE DEF header, tables, LinkWritten
<1> DEFINE i == loc[r].inv
<1>0. loc[r] \in Local /\ loc[r].want \in SUBSET Package /\ loc[r].cur \in SUBSET Package
  BY DEF TypeOK, Local
<1>1. CASE LinkBatch(r)
  <2>1. i \in Invoice
    BY <1>1 DEF LinkBatch, TypeOK
  <2> QED
    BY <1>0, <1>1, <2>1 DEF LinkBatch
<1>2. CASE UndoLinks(r) \/ ReleaseLinks(r)
  <2>1. i \in Invoice
    BY <1>2 DEF UndoLinks, ReleaseLinks, TypeOK
  <2> QED
    BY <1>2, <2>1 DEF UndoLinks, ReleaseLinks
<1>3. CASE LinkPost(r)
  <2>1. i \in Invoice
    BY <1>3 DEF LinkPost, TypeOK
  <2> QED
    BY <1>0, <1>3, <2>1 DEF LinkPost
<1>4. CASE UnlinkPatch(r)
  <2>1. i \in Invoice
    BY <1>4 DEF UnlinkPatch, TypeOK
  <2> QED
    BY <1>0, <1>4, <2>1 DEF UnlinkPatch
<1>5. CASE EditLink(r)
  <2>1. i \in Invoice
    BY <1>5 DEF EditLink, TypeOK
  <2>2. PICK p \in loc[r].want :
          \/ link' = link
          \/ ~LinkConflict(i, {p}) /\ link' = Upserted(i, {p})
    BY <1>5 DEF EditLink
  <2>3. {p} \in SUBSET Package
    BY <1>0
  <2> QED
    BY <2>1, <2>2, <2>3
<1>6. CASE EditUnlink(r)
  <2>1. i \in Invoice
    BY <1>6 DEF EditUnlink, TypeOK
  <2>2. PICK p \in loc[r].cur : link' = Released(i, {p})
    BY <1>6 DEF EditUnlink
  <2>3. {p} \in SUBSET Package
    BY <1>0
  <2> QED
    BY <2>1, <2>2, <2>3
<1>7. CASE \/ ReadNumber(r) \/ InsertHeader(r) \/ HeaderRefused(r) \/ InsertLines(r)
           \/ GuardLinks(r) \/ UndoArchive(r) \/ CloseCas(r) \/ PayReadRows(r)
           \/ PayInsert(r) \/ PayStatus(r) \/ PayTotals(r) \/ VoidStatus(r)
           \/ ArchiveStamp(r) \/ LinkCheck(r) \/ EditReadRows(r) \/ EditResolve(r)
           \/ EditDelete(r) \/ EditInsert(r) \/ EditPatch(r)
  BY <1>7
  DEF ReadNumber, InsertHeader, HeaderRefused, InsertLines, GuardLinks, UndoArchive,
      CloseCas, PayReadRows, PayInsert, PayStatus, PayTotals, VoidStatus, ArchiveStamp,
      LinkCheck, EditReadRows, EditResolve, EditDelete, EditInsert, EditPatch
<1>8. CASE Arrive(r)
  BY <1>8
  DEF Arrive, CreateResolve, BulkPreview, CloseRead, PayReadHeader, VoidRead, ArchiveRead,
      LinkRead, UnlinkRead, EditReadHeader
<1>9. CASE Fail(r)
  BY <1>9 DEF Fail, CreateCallFails, CallFails, Crash
<1> QED
  BY <1>1, <1>2, <1>3, <1>4, <1>5, <1>6, <1>7, <1>8, <1>9 DEF Continue

(***************************************************************************)
(* An upsert past the index and a release leave one active link a package. *)
(***************************************************************************)
LEMMA LinkWriteKeepsOne ==
  ASSUME TypeOK, OneActiveInvoice, LinkWritten
  PROVE  OneActiveInvoice'
<1>1. CASE link' = link
  BY <1>1 DEF OneActiveInvoice
<1>2. ASSUME NEW i \in Invoice, NEW P \in SUBSET Package,
             ~LinkConflict(i, P), link' = Upserted(i, P)
      PROVE  OneActiveInvoice'
  <2> SUFFICES ASSUME NEW p \in Package, NEW j \in Invoice, NEW k \in Invoice,
                      link'[j][p] = "active", link'[k][p] = "active"
               PROVE  j = k
    BY DEF OneActiveInvoice
  <2>1. CASE p \in P /\ link[i][p] = "none"
    <3>1. \A m \in Invoice : link[m][p] # "active"
      BY <1>2, <2>1 DEF LinkConflict
    <3>2. \A m \in Invoice : link'[m][p] = "active" => m = i
      BY <1>2, <3>1 DEF Upserted, TypeOK
    <3> QED
      BY <3>2
  <2>2. CASE ~(p \in P /\ link[i][p] = "none")
    <3>1. \A m \in Invoice : link'[m][p] = link[m][p]
      BY <1>2, <2>2 DEF Upserted, TypeOK
    <3> QED
      BY <3>1 DEF OneActiveInvoice
  <2> QED
    BY <2>1, <2>2
<1>3. ASSUME NEW i \in Invoice, NEW P \in SUBSET Package, link' = Released(i, P)
      PROVE  OneActiveInvoice'
  <2>1. \A p \in Package, j \in Invoice : link'[j][p] = "active" => link[j][p] = "active"
    BY <1>3 DEF Released, TypeOK
  <2> QED
    BY <2>1 DEF OneActiveInvoice
<1> QED
  BY <1>1, <1>2, <1>3 DEF LinkWritten

(***************************************************************************)
(* A package never has active links of two invoices: every POST of a link, *)
(* from creation, edit or linkPackage, goes through the same index.        *)
(***************************************************************************)
THEOREM OneActiveInvoiceHolds == Spec => []OneActiveInvoice
<1>1. Init => OneActiveInvoice
  BY DEF Init, OneActiveInvoice
<1>2. TypeOK /\ OneActiveInvoice /\ [Next]_vars => OneActiveInvoice'
  <2>1. ASSUME TypeOK, OneActiveInvoice, Next PROVE OneActiveInvoice'
    BY <2>1, LinkStep, LinkWriteKeepsOne DEF Next
  <2>2. ASSUME OneActiveInvoice, UNCHANGED vars PROVE OneActiveInvoice'
    BY <2>2 DEF OneActiveInvoice, vars, tables
  <2> QED
    BY <2>1, <2>2
<1> QED
  BY TypeCorrect, <1>1, <1>2, PTL DEF Spec

(***************************************************************************)
(* With one active link a package, its invoice is the holder.              *)
(***************************************************************************)
HolderSound ==
  \A p \in Package :
    /\ \A i \in Invoice : link[i][p] = "active" => Holder[p] = i
    /\ (\A i \in Invoice : link[i][p] # "active") => Holder[p] = NoInvoice

LEMMA HolderIs == OneActiveInvoice => HolderSound
<1> SUFFICES ASSUME OneActiveInvoice, NEW p \in Package
             PROVE  /\ \A i \in Invoice : link[i][p] = "active" => Holder[p] = i
                    /\ (\A i \in Invoice : link[i][p] # "active") => Holder[p] = NoInvoice
  BY DEF HolderSound
<1>1. ASSUME NEW i \in Invoice, link[i][p] = "active" PROVE Holder[p] = i
  <2>1. \A j \in Invoice : link[j][p] = "active" => j = i
    BY <1>1 DEF OneActiveInvoice
  <2>2. (CHOOSE j \in Invoice : link[j][p] = "active") = i
    BY <1>1, <2>1
  <2> QED
    BY <1>1, <2>2 DEF Holder
<1> QED
  BY <1>1 DEF Holder

(***************************************************************************)
(* Every write of the link table is a step of the ledger, or none.         *)
(***************************************************************************)
LEMMA LinkWriteIsLedgerStep ==
  ASSUME TypeOK, OneActiveInvoice, OneActiveInvoice', LinkWritten
  PROVE  Ledger!Next \/ Holder' = Holder
<1>h. HolderSound /\ HolderSound'
  BY HolderIs, PTL
<1>1. CASE link' = link
  BY <1>1 DEF Holder
<1>2. ASSUME NEW i \in Invoice, NEW P \in SUBSET Package,
             ~LinkConflict(i, P), link' = Upserted(i, P)
      PROVE  Ledger!Next
  <2> DEFINE New == {p \in P : link[i][p] = "none"}
  <2>1. \A p \in New : Holder[p] = NoInvoice
    BY <1>2, <1>h DEF LinkConflict, HolderSound
  <2>2. \A p \in New : Holder'[p] = i
    BY <1>2, <1>h DEF Upserted, TypeOK, HolderSound
  <2>3. ASSUME NEW p \in Package \ New PROVE Holder'[p] = Holder[p]
    <3>1. \A j \in Invoice : link'[j][p] = link[j][p]
      BY <1>2, <2>3 DEF Upserted, TypeOK
    <3> QED
      BY <3>1, <1>h DEF HolderSound
  <2>4. Holder' = [p \in Package |-> IF p \in New THEN i ELSE Holder[p]]
    BY <2>2, <2>3 DEF Holder
  <2> QED
    BY <2>1, <2>4 DEF Ledger!Next, Ledger!Claim
<1>3. ASSUME NEW i \in Invoice, NEW P \in SUBSET Package, link' = Released(i, P)
      PROVE  Ledger!Next
  <2> DEFINE Old == {p \in P : link[i][p] = "active"}
  <2>1. \A p \in Old : Holder[p] = i
    BY <1>h DEF HolderSound
  <2>2. ASSUME NEW p \in Old PROVE Holder'[p] = NoInvoice
    <3>1. \A j \in Invoice : link'[j][p] # "active"
      BY <1>3, <2>2 DEF Released, TypeOK, OneActiveInvoice
    <3> QED
      BY <3>1, <1>h DEF HolderSound
  <2>3. ASSUME NEW p \in Package \ Old PROVE Holder'[p] = Holder[p]
    <3>1. \A j \in Invoice : link'[j][p] = link[j][p]
      BY <1>3, <2>3 DEF Released, TypeOK
    <3> QED
      BY <3>1, <1>h DEF HolderSound
  <2>4. Holder' = [p \in Package |-> IF p \in Old THEN NoInvoice ELSE Holder[p]]
    BY <2>2, <2>3 DEF Holder
  <2> QED
    BY <2>1, <2>4 DEF Ledger!Next, Ledger!Release
<1> QED
  BY <1>1, <1>2, <1>3 DEF LinkWritten

(***************************************************************************)
(* The service implements the ledger: whatever requests race or fail, a    *)
(* batch of links is claimed at once and a package changes invoice only by *)
(* being released in between.                                              *)
(***************************************************************************)
THEOREM ServiceImplementsLedger == Spec => ImplementsLedger
<1>1. Init => Ledger!Init
  BY DEF Init, Ledger!Init, Holder
<1>2. TypeOK /\ OneActiveInvoice /\ OneActiveInvoice' /\ [Next]_vars
        => [Ledger!Next]_Holder
  <2>1. ASSUME TypeOK, OneActiveInvoice, OneActiveInvoice', Next
        PROVE  [Ledger!Next]_Holder
    BY <2>1, LinkStep, LinkWriteIsLedgerStep DEF Next
  <2>2. ASSUME UNCHANGED vars PROVE Holder' = Holder
    BY <2>2 DEF Holder, vars, tables
  <2> QED
    BY <2>1, <2>2
<1> QED
  BY TypeCorrect, OneActiveInvoiceHolds, <1>1, <1>2, PTL DEF Spec, ImplementsLedger, Ledger!Spec

-----------------------------------------------------------------------------
(***************************************************************************)
(* The inductive invariant behind the lock and the numbers.  A PATCH by id *)
(* writes a snapshot, so it says what every snapshot is good for: a status *)
(* announced for a new header is DRAFT or ISSUED, the invoice a request    *)
(* works on exists, and a payment under way has read a money status of an  *)
(* invoice that is locked.                                                 *)
(***************************************************************************)
PayPc == {"payRows", "payInsert", "payStatus", "payTotals"}
Money == {"ISSUED", "PARTIAL", "PAID"}

Announced(call, l) == call \in {"number", "header"} => l.st \in {"DRAFT", "ISSUED"}
OnRecord(call, l) == call \notin {"idle", "number", "header"} => status[l.inv] # "ABSENT"
PaysLocked(call, l) == call \in PayPc => closed[l.inv] /\ l.st \in Money

Sound(call, l) == Announced(call, l) /\ OnRecord(call, l) /\ PaysLocked(call, l)

RequestsSound == \A r \in Req : Sound(pc[r], loc[r])

AbsentUntouched ==
  \A i \in Invoice : status[i] = "ABSENT" => payments[i] = 0 /\ paidUsd[i] = 0

LockInv == RequestsSound /\ AbsentUntouched /\ ClosedIffIssued /\ MoneyOnlyAfterLock

(* What a step leaves to the other requests: nothing is deleted or reopened. *)
RecordsStay ==
  \A i \in Invoice : status[i] # "ABSENT" =>
    /\ status'[i] # "ABSENT"
    /\ closed[i] => closed'[i]

(***************************************************************************)
(* A request that moves on soundly leaves every request sound.             *)
(***************************************************************************)
LEMMA GotoSound ==
  ASSUME TypeOK, RequestsSound, RecordsStay,
         NEW r \in Req, NEW call \in Pc, NEW l \in Local, Goto(r, call, l),
         call \in {"number", "header"} => l.st \in {"DRAFT", "ISSUED"},
         call \notin {"idle", "number", "header"} => status'[l.inv] # "ABSENT",
         call \in PayPc => closed'[l.inv] /\ l.st \in Money
  PROVE  RequestsSound'
<1> SUFFICES ASSUME NEW q \in Req PROVE Sound(pc[q], loc[q])'
  BY DEF RequestsSound
<1>1. CASE q = r
  <2>1. pc'[q] = call /\ loc'[q] = l
    BY <1>1 DEF Goto, TypeOK
  <2> QED
    BY <2>1 DEF Sound, Announced, OnRecord, PaysLocked
<1>2. CASE q # r
  <2>1. pc'[q] = pc[q] /\ loc'[q] = loc[q]
    BY <1>2 DEF Goto, TypeOK
  <2>2. pc[q] \notin {"idle", "number", "header"} => loc[q].inv \in Invoice
    BY DEF TypeOK
  <2>3. Sound(pc[q], loc[q])
    BY DEF RequestsSound
  <2> QED
    BY <2>1, <2>2, <2>3 DEF Sound, Announced, OnRecord, PaysLocked, RecordsStay, PayPc
<1> QED
  BY <1>1, <1>2

LEMMA FinishSound ==
  ASSUME TypeOK, RequestsSound, RecordsStay, NEW r \in Req, Finish(r)
  PROVE  RequestsSound'
BY BlankType, GotoSound DEF Finish, Pc, PayPc

(***************************************************************************)
(* Steps that write neither the header nor the payments.                   *)
(***************************************************************************)
LEMMA QuietStep ==
  ASSUME TypeOK, LockInv, UNCHANGED header, UNCHANGED payments,
         NEW r \in Req, NEW call \in Pc, NEW l \in Local, Goto(r, call, l),
         call \in {"number", "header"} => l.st \in {"DRAFT", "ISSUED"},
         call \notin {"idle", "number", "header"} => status[l.inv] # "ABSENT",
         call \in PayPc => closed[l.inv] /\ l.st \in Money
  PROVE  LockInv'
<1>1. RecordsStay
  BY DEF RecordsStay, header
<1>2. RequestsSound'
  BY <1>1, GotoSound DEF LockInv, header
<1> QED
  BY <1>2 DEF LockInv, AbsentUntouched, ClosedIffIssued, MoneyOnlyAfterLock, header

LEMMA QuietFinish ==
  ASSUME TypeOK, LockInv, UNCHANGED header, UNCHANGED payments, NEW r \in Req, Finish(r)
  PROVE  LockInv'
BY BlankType, QuietStep DEF Finish, Pc, PayPc

LEMMA ArriveKeepsLock ==
  ASSUME TypeOK, LockInv, NEW r \in Req, Arrive(r)
  PROVE  LockInv'
<1> USE DEF tables
<1>1. CASE CreateResolve(r)
  <2>1. PICK items \in SUBSET Item, extra \in SUBSET Package, st \in {"DRAFT", "ISSUED"} :
          Goto(r, "number", [Blank EXCEPT !.items = items,
                                          !.want = (items \cap Package) \cup extra, !.st = st])
    BY <1>1 DEF CreateResolve
  <2> DEFINE n == [Blank EXCEPT !.items = items,
                                !.want = (items \cap Package) \cup extra, !.st = st]
  <2>2. n \in Local /\ n.st = st
    BY BlankType DEF Local, Status, Blank
  <2> HIDE DEF n
  <2> QED
    BY <1>1, <2>1, <2>2, QuietStep DEF n, CreateResolve, Pc, OtherPc, PayPc
<1>2. CASE BulkPreview(r)
  <2>1. PICK P \in (SUBSET Package) \ {{}} :
          Goto(r, "number", [Blank EXCEPT !.items = P, !.want = P, !.st = "DRAFT"])
    BY <1>2 DEF BulkPreview
  <2> DEFINE n == [Blank EXCEPT !.items = P, !.want = P, !.st = "DRAFT"]
  <2>2. n \in Local /\ n.st = "DRAFT"
    BY BlankType DEF Local, Status, Blank, Item, Freight
  <2> HIDE DEF n
  <2> QED
    BY <1>2, <2>1, <2>2, QuietStep DEF n, BulkPreview, Pc, OtherPc, PayPc
<1>3. CASE CloseRead(r)
  <2>1. PICK i \in Invoice :
          Open(i) /\ Goto(r, "closeCas", [Blank EXCEPT !.inv = i, !.st = status[i]])
    BY <1>3 DEF CloseRead
  <2> DEFINE n == [Blank EXCEPT !.inv = i, !.st = status[i]]
  <2>2. n \in Local /\ n.inv = i
    BY BlankType DEF Local, Blank, TypeOK
  <2> HIDE DEF n
  <2> QED
    BY <1>3, <2>1, <2>2, QuietStep DEF n, CloseRead, Open, Visible, Pc, OtherPc, PayPc
<1>4. CASE PayReadHeader(r)
  <2>1. PICK i \in Invoice, amt \in Amounts :
          /\ Payable(i)
          /\ Goto(r, "payRows", [Blank EXCEPT !.inv = i, !.st = status[i], !.amt = amt])
    BY <1>4 DEF PayReadHeader
  <2> DEFINE n == [Blank EXCEPT !.inv = i, !.st = status[i], !.amt = amt]
  <2>2. n \in Local /\ n.inv = i /\ n.st = status[i]
    BY BlankType, BillingAssumption DEF Local, Blank, TypeOK
  <2>3. status[i] \in Money /\ closed[i]
    BY <2>1 DEF Payable, Visible, LockInv, ClosedIffIssued, TypeOK, Status, Money
  <2> HIDE DEF n
  <2> QED
    BY <1>4, <2>1, <2>2, <2>3, QuietStep DEF n, PayReadHeader, Pc, OtherPc, PayPc, Money
<1>5. CASE VoidRead(r) \/ ArchiveRead(r)
  <2>1. PICK i \in Invoice, call \in {"voidStatus", "stamp"} :
          Visible(i) /\ Goto(r, call, [Blank EXCEPT !.inv = i])
    BY <1>5 DEF VoidRead, ArchiveRead
  <2> DEFINE n == [Blank EXCEPT !.inv = i]
  <2>2. n \in Local /\ n.inv = i
    BY BlankType DEF Local, Blank
  <2> HIDE DEF n
  <2> QED
    BY <1>5, <2>1, <2>2, QuietStep
    DEF n, VoidRead, ArchiveRead, Visible, Pc, OtherPc, PayPc
<1>6. CASE LinkRead(r) \/ UnlinkRead(r)
  <2>1. PICK i \in Invoice, p \in Package, call \in {"linkCheck", "unlink"} :
          Open(i) /\ Goto(r, call, [Blank EXCEPT !.inv = i, !.want = {p}])
    BY <1>6 DEF LinkRead, UnlinkRead
  <2> DEFINE n == [Blank EXCEPT !.inv = i, !.want = {p}]
  <2>2. n \in Local /\ n.inv = i
    BY BlankType DEF Local, Blank
  <2> HIDE DEF n
  <2> QED
    BY <1>6, <2>1, <2>2, QuietStep
    DEF n, LinkRead, UnlinkRead, Open, Visible, Pc, OtherPc, PayPc
<1>7. CASE EditReadHeader(r)
  <2>1. PICK i \in Invoice, items \in (SUBSET Item) \ {{}} :
          Open(i) /\ Goto(r, "editRows", [Blank EXCEPT !.inv = i, !.items = items,
                                                       !.want = items \cap Package])
    BY <1>7 DEF EditReadHeader
  <2> DEFINE n == [Blank EXCEPT !.inv = i, !.items = items, !.want = items \cap Package]
  <2>2. n \in Local /\ n.inv = i
    BY BlankType DEF Local, Blank
  <2> HIDE DEF n
  <2> QED
    BY <1>7, <2>1, <2>2, QuietStep DEF n, EditReadHeader, Open, Visible, Pc, OtherPc, PayPc
<1> QED
  BY <1>1, <1>2, <1>3, <1>4, <1>5, <1>6, <1>7 DEF Arrive

LEMMA QuietContinueKeepsLock ==
  ASSUME TypeOK, LockInv, NEW r \in Req,
         \/ ReadNumber(r) \/ HeaderRefused(r) \/ InsertLines(r) \/ LinkBatch(r)
         \/ GuardLinks(r) \/ UndoLinks(r) \/ PayReadRows(r) \/ ReleaseLinks(r)
         \/ LinkCheck(r) \/ LinkPost(r) \/ UnlinkPatch(r) \/ EditReadRows(r)
         \/ EditResolve(r) \/ EditDelete(r) \/ EditInsert(r) \/ EditLink(r)
         \/ EditUnlink(r) \/ Fail(r)
  PROVE  LockInv'
<1> USE DEF tables
<1>0. /\ loc[r] \in Local
      /\ Sound(pc[r], loc[r])
  BY DEF TypeOK, LockInv, RequestsSound
<1>1. CASE ReadNumber(r)
  <2>1. PICK last \in HighestNumber : Goto(r, "header", [loc[r] EXCEPT !.num = last + 1])
    BY <1>1 DEF ReadNumber
  <2>2. last \in Nat
    BY <2>1 DEF HighestNumber, Existing, TypeOK
  <2> DEFINE n == [loc[r] EXCEPT !.num = last + 1]
  <2>3. n \in Local /\ n.st = loc[r].st
    BY <1>0, <2>2 DEF Local
  <2>4. loc[r].st \in {"DRAFT", "ISSUED"}
    BY <1>0, <1>1 DEF ReadNumber, Sound, Announced
  <2> HIDE DEF n
  <2> QED
    BY <1>1, <2>1, <2>3, <2>4, QuietStep DEF n, ReadNumber, Pc, OtherPc, PayPc
<1>2. CASE InsertLines(r) \/ LinkBatch(r) \/ GuardLinks(r) \/ UndoLinks(r) \/ CreateCallFails(r)
  <2>1. status[loc[r].inv] # "ABSENT"
    BY <1>0, <1>2
    DEF InsertLines, LinkBatch, GuardLinks, UndoLinks, CreateCallFails, TryPc, Sound, OnRecord
  <2>2. PICK call \in {"idle", "link", "guard", "undoLinks", "undoArchive"} :
          \/ Finish(r)
          \/ call # "idle" /\ Goto(r, call, loc[r])
    BY <1>2 DEF InsertLines, LinkBatch, GuardLinks, UndoLinks, CreateCallFails
  <2>3. UNCHANGED header /\ UNCHANGED payments
    BY <1>2 DEF InsertLines, LinkBatch, GuardLinks, UndoLinks, CreateCallFails
  <2> QED
    BY <1>0, <2>1, <2>2, <2>3, QuietStep, QuietFinish DEF Pc, TryPc, UndoPc, PayPc
<1>3. CASE PayReadRows(r)
  <2> DEFINE n == [loc[r] EXCEPT !.tot = LinesTotal(loc[r].inv), !.paid = payments[loc[r].inv]]
  <2>1. loc[r].inv \in Invoice /\ LinesTotal(loc[r].inv) \in Nat
    BY <1>3, ItemsFinite DEF PayReadRows, LinesTotal, TypeOK
  <2>2. n \in Local /\ n.inv = loc[r].inv /\ n.st = loc[r].st
    BY <1>0, <2>1 DEF Local, TypeOK
  <2>3. status[loc[r].inv] # "ABSENT" /\ closed[loc[r].inv] /\ loc[r].st \in Money
    BY <1>0, <1>3 DEF PayReadRows, Sound, OnRecord, PaysLocked, PayPc
  <2>4. Goto(r, "payInsert", n) /\ UNCHANGED header /\ UNCHANGED payments
    BY <1>3 DEF PayReadRows
  <2> HIDE DEF n
  <2> QED
    BY <2>2, <2>3, <2>4, QuietStep DEF Pc, OtherPc
<1>4. CASE \/ HeaderRefused(r) \/ ReleaseLinks(r) \/ LinkPost(r) \/ UnlinkPatch(r)
           \/ CallFails(r) \/ Crash(r)
  <2>1. Finish(r) /\ UNCHANGED header /\ UNCHANGED payments
    BY <1>4 DEF HeaderRefused, ReleaseLinks, LinkPost, UnlinkPatch, CallFails, Crash
  <2> QED
    BY <2>1, QuietFinish
<1>5. CASE LinkCheck(r) \/ EditResolve(r) \/ EditDelete(r)
  <2>1. status[loc[r].inv] # "ABSENT"
    BY <1>0, <1>5 DEF LinkCheck, EditResolve, EditDelete, Sound, OnRecord
  <2>2. PICK call \in {"idle", "linkPost", "editDelete", "editInsert"} :
          \/ Finish(r)
          \/ call # "idle" /\ Goto(r, call, loc[r])
    BY <1>5 DEF LinkCheck, EditResolve, EditDelete
  <2>3. UNCHANGED header /\ UNCHANGED payments
    BY <1>5 DEF LinkCheck, EditResolve, EditDelete
  <2> QED
    BY <1>0, <2>1, <2>2, <2>3, QuietStep, QuietFinish DEF Pc, OtherPc, PayPc
<1>6. CASE EditReadRows(r)
  <2> DEFINE n == [loc[r] EXCEPT !.cur = Active(loc[r].inv)]
  <2>1. n \in Local /\ n.inv = loc[r].inv
    BY <1>0 DEF Local, Active
  <2>2. status[loc[r].inv] # "ABSENT"
    BY <1>0, <1>6 DEF EditReadRows, Sound, OnRecord
  <2>3. Goto(r, "editResolve", n) /\ UNCHANGED header /\ UNCHANGED payments
    BY <1>6 DEF EditReadRows
  <2> HIDE DEF n
  <2> QED
    BY <2>1, <2>2, <2>3, QuietStep DEF Pc, OtherPc, PayPc
<1>7. CASE EditInsert(r)
  <2>1. status[loc[r].inv] # "ABSENT"
    BY <1>0, <1>7 DEF EditInsert, Sound, OnRecord
  <2>2. UNCHANGED header /\ UNCHANGED payments
    BY <1>7 DEF EditInsert
  <2>3. PICK call \in {"editPatch", "editLinks"}, n \in Local :
          Goto(r, call, n) /\ n.inv = loc[r].inv
    <3> DEFINE a == [loc[r] EXCEPT !.cur = {}]
               b == [loc[r] EXCEPT !.want = loc[r].want \ loc[r].cur,
                                   !.cur = loc[r].cur \ loc[r].want]
    <3>1. a \in Local /\ a.inv = loc[r].inv /\ b \in Local /\ b.inv = loc[r].inv
      BY <1>0 DEF Local
    <3>2. Goto(r, "editPatch", a) \/ Goto(r, "editLinks", b)
      BY <1>7 DEF EditInsert
    <3> HIDE DEF a, b
    <3> QED
      BY <3>1, <3>2
  <2> QED
    BY <2>1, <2>2, <2>3, QuietStep DEF Pc, OtherPc, PayPc
<1>8. CASE EditLink(r) \/ EditUnlink(r)
  <2>1. status[loc[r].inv] # "ABSENT"
    BY <1>0, <1>8 DEF EditLink, EditUnlink, Sound, OnRecord
  <2>2. UNCHANGED header /\ UNCHANGED payments
    BY <1>8 DEF EditLink, EditUnlink
  <2>3. Finish(r) \/ \E n \in Local : Goto(r, "editLinks", n) /\ n.inv = loc[r].inv
    <3>1. PICK p \in Package :
            \/ Finish(r)
            \/ Goto(r, "editLinks", [loc[r] EXCEPT !.want = @ \ {p}])
            \/ Goto(r, "editLinks", [loc[r] EXCEPT !.cur = @ \ {p}])
      BY <1>0, <1>8 DEF EditLink, EditUnlink, Local
    <3> DEFINE a == [loc[r] EXCEPT !.want = @ \ {p}]
               b == [loc[r] EXCEPT !.cur = @ \ {p}]
    <3>2. a \in Local /\ a.inv = loc[r].inv /\ b \in Local /\ b.inv = loc[r].inv
      BY <1>0 DEF Local
    <3> HIDE DEF a, b
    <3> QED
      BY <3>1, <3>2 DEF a, b
  <2> QED
    BY <2>1, <2>2, <2>3, QuietStep, QuietFinish DEF Pc, OtherPc, PayPc
<1> QED
  BY <1>1, <1>2, <1>3, <1>4, <1>5, <1>6, <1>7, <1>8 DEF Fail

(***************************************************************************)
(* The steps that write a header or a payment.                             *)
(***************************************************************************)
LEMMA InsertHeaderKeepsLock ==
  ASSUME TypeOK, LockInv, NEW r \in Req, InsertHeader(r)
  PROVE  LockInv'
<1>1. PICK i \in Invoice \ Existing :
        /\ status' = [status EXCEPT ![i] = loc[r].st]
        /\ closed' = [closed EXCEPT ![i] = (loc[r].st # "DRAFT")]
        /\ Goto(r, "lines", [loc[r] EXCEPT !.inv = i])
  BY DEF InsertHeader
<1>2. status[i] = "ABSENT" /\ loc[r].st \in {"DRAFT", "ISSUED"}
  BY <1>1 DEF InsertHeader, Existing, LockInv, RequestsSound, Sound, Announced
<1>3. RecordsStay
  BY <1>1, <1>2 DEF RecordsStay, TypeOK
<1>4. RequestsSound'
  <2> DEFINE n == [loc[r] EXCEPT !.inv = i]
  <2>1. n \in Local /\ n.inv = i
    BY <1>1 DEF TypeOK, Local
  <2>2. status'[i] # "ABSENT"
    BY <1>1, <1>2 DEF TypeOK
  <2> HIDE DEF n
  <2> QED
    BY <1>1, <1>3, <2>1, <2>2, GotoSound DEF n, LockInv, Pc, TryPc, PayPc
<1>5. payments' = payments /\ paidUsd' = paidUsd
  BY DEF InsertHeader, tables
<1>6. AbsentUntouched' /\ MoneyOnlyAfterLock'
  <2>1. payments[i] = 0 /\ paidUsd[i] = 0
    BY <1>1, <1>2 DEF LockInv, AbsentUntouched
  <2> QED
    BY <1>1, <1>2, <1>5, <2>1 DEF LockInv, AbsentUntouched, MoneyOnlyAfterLock, TypeOK
<1>7. ClosedIffIssued'
  BY <1>1, <1>2 DEF LockInv, ClosedIffIssued, TypeOK
<1> QED
  BY <1>4, <1>6, <1>7 DEF LockInv

LEMMA CloseKeepsLock ==
  ASSUME TypeOK, LockInv, NEW r \in Req, CloseCas(r)
  PROVE  LockInv'
<1> DEFINE i == loc[r].inv
<1>1. i \in Invoice /\ status[i] # "ABSENT" /\ loc[r].st \in Status \cup {"ABSENT"}
  BY DEF CloseCas, TypeOK, LockInv, RequestsSound, Sound, OnRecord, Local
<1>2. Finish(r) /\ payments' = payments /\ paidUsd' = paidUsd
  BY DEF CloseCas, tables
<1>3. \/ closed' = closed /\ status' = status
      \/ /\ ~closed[i] /\ status[i] = loc[r].st
         /\ closed' = [closed EXCEPT ![i] = TRUE]
         /\ status' = [status EXCEPT ![i] = IF loc[r].st = "DRAFT" THEN "ISSUED" ELSE loc[r].st]
  BY DEF CloseCas, StillAsRead
<1>4. RecordsStay
  BY <1>1, <1>3 DEF RecordsStay, TypeOK
<1>5. RequestsSound'
  BY <1>2, <1>4, FinishSound DEF LockInv
<1>6. AbsentUntouched' /\ MoneyOnlyAfterLock'
  BY <1>1, <1>2, <1>3 DEF LockInv, AbsentUntouched, MoneyOnlyAfterLock, TypeOK
<1>7. ClosedIffIssued'
  BY <1>1, <1>3 DEF LockInv, ClosedIffIssued, TypeOK
<1> QED
  BY <1>5, <1>6, <1>7 DEF LockInv

LEMMA PayKeepsLock ==
  ASSUME TypeOK, LockInv, NEW r \in Req, PayInsert(r) \/ PayStatus(r) \/ PayTotals(r)
  PROVE  LockInv'
<1> DEFINE i == loc[r].inv
<1>0. loc[r] \in Local
  BY DEF TypeOK
<1>1. i \in Invoice /\ status[i] # "ABSENT" /\ closed[i] /\ loc[r].st \in Money
  BY DEF PayInsert, PayStatus, PayTotals, TypeOK, LockInv, RequestsSound, Sound, OnRecord,
         PaysLocked, PayPc
<1>2. CASE PayInsert(r)
  <2> DEFINE n == [loc[r] EXCEPT !.paid = @ + loc[r].amt]
  <2>1. n \in Local /\ n.inv = i /\ n.st = loc[r].st
    BY <1>0 DEF Local
  <2>2. /\ UNCHANGED <<status, closed, paidUsd>> /\ Goto(r, "payStatus", n)
        /\ \A j \in Invoice \ {i} : payments'[j] = payments[j]
    BY <1>2 DEF PayInsert, header, TypeOK
  <2> HIDE DEF n
  <2>3. RequestsSound'
    BY <1>1, <2>1, <2>2, GotoSound DEF LockInv, RecordsStay, Pc, OtherPc, PayPc
  <2> QED
    BY <1>1, <2>2, <2>3
    DEF LockInv, AbsentUntouched, MoneyOnlyAfterLock, ClosedIffIssued
<1>3. CASE PayStatus(r)
  <2>1. ComputeStatus(loc[r].st, loc[r].tot, loc[r].paid) \in Money
    BY <1>1 DEF ComputeStatus, Money
  <2>2. /\ UNCHANGED <<closed, paidUsd, payments>> /\ Goto(r, "payTotals", loc[r])
        /\ \A j \in Invoice \ {i} : status'[j] = status[j]
        /\ status'[i] \in Money
    BY <1>1, <1>3, <2>1 DEF PayStatus, tables, TypeOK
  <2>3. RecordsStay
    BY <2>2 DEF RecordsStay, Money
  <2>4. RequestsSound'
    BY <1>0, <1>1, <2>2, <2>3, GotoSound DEF LockInv, Pc, OtherPc, PayPc, Money
  <2> QED
    BY <1>1, <2>2, <2>4
    DEF LockInv, AbsentUntouched, MoneyOnlyAfterLock, ClosedIffIssued, Money
<1>4. CASE PayTotals(r)
  <2>1. /\ UNCHANGED <<status, closed, payments>> /\ Finish(r)
        /\ \A j \in Invoice \ {i} : paidUsd'[j] = paidUsd[j]
    BY <1>4 DEF PayTotals, tables, TypeOK
  <2>2. RequestsSound'
    BY <2>1, FinishSound DEF LockInv, RecordsStay
  <2> QED
    BY <1>1, <2>1, <2>2
    DEF LockInv, AbsentUntouched, MoneyOnlyAfterLock, ClosedIffIssued
<1> QED
  BY <1>2, <1>3, <1>4

LEMMA VoidArchiveEditKeepLock ==
  ASSUME TypeOK, LockInv, NEW r \in Req,
         VoidStatus(r) \/ ArchiveStamp(r) \/ UndoArchive(r) \/ EditPatch(r)
  PROVE  LockInv'
<1> DEFINE i == loc[r].inv
<1>1. loc[r] \in Local /\ i \in Invoice /\ status[i] # "ABSENT"
  BY DEF VoidStatus, ArchiveStamp, UndoArchive, EditPatch, TypeOK, LockInv, RequestsSound,
         Sound, OnRecord
<1>2. /\ UNCHANGED <<closed, paidUsd, payments>>
      /\ status' = status \/ status' = [status EXCEPT ![i] = "VOID"]
      /\ Finish(r) \/ Goto(r, "release", loc[r])
  BY DEF VoidStatus, ArchiveStamp, UndoArchive, EditPatch, tables
<1>3. RecordsStay /\ status'[i] # "ABSENT"
  BY <1>1, <1>2 DEF RecordsStay, TypeOK
<1>4. RequestsSound'
  BY <1>1, <1>2, <1>3, GotoSound, FinishSound DEF LockInv, Pc, OtherPc, PayPc
<1> QED
  BY <1>1, <1>2, <1>4
  DEF LockInv, AbsentUntouched, MoneyOnlyAfterLock, ClosedIffIssued, TypeOK

LEMMA LockInit == Init => LockInv
BY DEF Init, LockInv, RequestsSound, Sound, Announced, OnRecord, PaysLocked, PayPc,
       AbsentUntouched, ClosedIffIssued, MoneyOnlyAfterLock

LEMMA LockInvariant == Spec => []LockInv
<1>1. TypeOK /\ LockInv /\ [Next]_vars => LockInv'
  <2>1. ASSUME TypeOK, LockInv, NEW r \in Req, Continue(r) \/ Arrive(r) \/ Fail(r)
        PROVE  LockInv'
    BY <2>1, ArriveKeepsLock, QuietContinueKeepsLock, InsertHeaderKeepsLock, CloseKeepsLock,
       PayKeepsLock, VoidArchiveEditKeepLock DEF Continue
  <2>2. ASSUME LockInv, UNCHANGED vars PROVE LockInv'
    BY <2>2 DEF vars, header, tables, LockInv, RequestsSound, Sound, Announced, OnRecord,
       PaysLocked, AbsentUntouched, ClosedIffIssued, MoneyOnlyAfterLock
  <2> QED
    BY <2>1, <2>2 DEF Next
<1> QED
  BY TypeCorrect, LockInit, <1>1, PTL DEF Spec

(***************************************************************************)
(* A DRAFT is open and an invoice in a money state is locked, although     *)
(* close, void and payment write what they computed from older reads.      *)
(***************************************************************************)
THEOREM ClosedIffIssuedHolds == Spec => []ClosedIffIssued
BY LockInvariant, PTL DEF LockInv

(***************************************************************************)
(* No payment is recorded on, or counted for, an invoice that is not       *)
(* locked.                                                                 *)
(***************************************************************************)
THEOREM MoneyOnlyAfterLockHolds == Spec => []MoneyOnlyAfterLock
BY LockInvariant, PTL DEF LockInv

-----------------------------------------------------------------------------
(***************************************************************************)
(* Numbers are given once, to a header that is being inserted, past the    *)
(* unique key; no later write brings an invoice into existence.            *)
(***************************************************************************)
NumberWritten ==
  \/ number' = number /\ Existing' \subseteq Existing
  \/ \E i \in Invoice \ Existing, n \in Nat :
       /\ ~NumberTaken(n)
       /\ number' = [number EXCEPT ![i] = n]
       /\ Existing' \subseteq Existing \cup {i}

LEMMA NumberStep ==
  ASSUME TypeOK, LockInv, NEW r \in Req, Continue(r) \/ Arrive(r) \/ Fail(r)
  PROVE  NumberWritten
<1> USE DEF NumberWritten, header
<1>0. loc[r] \in Local
  BY DEF TypeOK
<1>1. CASE InsertHeader(r)
  <2>1. PICK i \in Invoice \ Existing :
          /\ status' = [status EXCEPT ![i] = loc[r].st]
          /\ number' = [number EXCEPT ![i] = loc[r].num]
    BY <1>1 DEF InsertHeader
  <2>2. ~NumberTaken(loc[r].num) /\ loc[r].num \in Nat
    BY <1>0, <1>1 DEF InsertHeader, Local
  <2>3. Existing' \subseteq Existing \cup {i}
    BY <2>1 DEF Existing, TypeOK
  <2> QED
    BY <2>1, <2>2, <2>3
<1>2. CASE CloseCas(r) \/ PayStatus(r) \/ VoidStatus(r)
  <2>1. loc[r].inv \in Invoice /\ status[loc[r].inv] # "ABSENT"
    BY <1>2 DEF CloseCas, PayStatus, VoidStatus, TypeOK, LockInv, RequestsSound, Sound, OnRecord
  <2>2. number' = number /\ \A j \in Invoice \ {loc[r].inv} : status'[j] = status[j]
    BY <1>2 DEF CloseCas, PayStatus, VoidStatus, TypeOK
  <2> QED
    BY <2>1, <2>2 DEF Existing
<1>3. CASE \/ ReadNumber(r) \/ HeaderRefused(r) \/ InsertLines(r) \/ LinkBatch(r)
           \/ GuardLinks(r) \/ UndoLinks(r) \/ UndoArchive(r) \/ PayReadRows(r)
           \/ PayInsert(r) \/ PayTotals(r) \/ ArchiveStamp(r) \/ ReleaseLinks(r)
           \/ LinkCheck(r) \/ LinkPost(r) \/ UnlinkPatch(r) \/ EditReadRows(r)
           \/ EditResolve(r) \/ EditDelete(r) \/ EditInsert(r) \/ EditLink(r)
           \/ EditUnlink(r) \/ EditPatch(r)
  BY <1>3
  DEF ReadNumber, HeaderRefused, InsertLines, LinkBatch, GuardLinks, UndoLinks, UndoArchive,
      PayReadRows, PayInsert, PayTotals, ArchiveStamp, ReleaseLinks, LinkCheck, LinkPost,
      UnlinkPatch, EditReadRows, EditResolve, EditDelete, EditInsert, EditLink, EditUnlink,
      EditPatch, Existing
<1>4. CASE Arrive(r)
  BY <1>4
  DEF Arrive, CreateResolve, BulkPreview, CloseRead, PayReadHeader, VoidRead, ArchiveRead,
      LinkRead, UnlinkRead, EditReadHeader, Existing
<1>5. CASE Fail(r)
  BY <1>5 DEF Fail, CreateCallFails, CallFails, Crash, Existing
<1> QED
  BY <1>1, <1>2, <1>3, <1>4, <1>5 DEF Continue

LEMMA NumberWriteKeepsUnique ==
  ASSUME TypeOK, NumbersUnique, NumberWritten
  PROVE  NumbersUnique'
<1>1. CASE number' = number /\ Existing' \subseteq Existing
  BY <1>1 DEF NumbersUnique
<1>2. ASSUME NEW i \in Invoice \ Existing, NEW n \in Nat, ~NumberTaken(n),
             number' = [number EXCEPT ![i] = n], Existing' \subseteq Existing \cup {i}
      PROVE  NumbersUnique'
  <2> SUFFICES ASSUME NEW j \in Existing', NEW k \in Existing', number'[j] = number'[k]
               PROVE  j = k
    BY DEF NumbersUnique
  <2>1. j \in Invoice /\ k \in Invoice
    BY DEF Existing
  <2>2. \A m \in Existing : number'[m] = number[m] /\ number[m] # n
    BY <1>2 DEF Existing, NumberTaken, TypeOK
  <2>3. number'[i] = n
    BY <1>2 DEF TypeOK
  <2> QED
    BY <1>2, <2>1, <2>2, <2>3 DEF NumbersUnique
<1> QED
  BY <1>1, <1>2 DEF NumberWritten

(***************************************************************************)
(* Two invoices of a year never share a number, whoever read the highest   *)
(* number when, and whatever was reverted, voided or archived since.       *)
(***************************************************************************)
THEOREM NumbersUniqueHolds == Spec => []NumbersUnique
<1>1. Init => NumbersUnique
  BY DEF Init, NumbersUnique, Existing
<1>2. TypeOK /\ LockInv /\ NumbersUnique /\ [Next]_vars => NumbersUnique'
  <2>1. ASSUME TypeOK, LockInv, NumbersUnique, Next PROVE NumbersUnique'
    BY <2>1, NumberStep, NumberWriteKeepsUnique DEF Next
  <2>2. ASSUME NumbersUnique, UNCHANGED vars PROVE NumbersUnique'
    BY <2>2 DEF NumbersUnique, Existing, vars, header
  <2> QED
    BY <2>1, <2>2
<1> QED
  BY TypeCorrect, LockInvariant, <1>1, <1>2, PTL DEF Spec

-----------------------------------------------------------------------------
(***************************************************************************)
(* A step takes an invoice out of VOID only by writing a payment's status. *)
(***************************************************************************)
VoidKept(i) == status[i] = "VOID" => status'[i] = "VOID" \/ LatePayment(i)

LEMMA VoidStep ==
  ASSUME TypeOK, NEW r \in Req, Continue(r) \/ Arrive(r) \/ Fail(r), NEW i \in Invoice
  PROVE  VoidKept(i)
<1> USE DEF VoidKept, header
<1>1. CASE InsertHeader(r)
  BY <1>1 DEF InsertHeader, Existing, TypeOK
<1>2. CASE CloseCas(r)
  BY <1>2 DEF CloseCas, StillAsRead, TypeOK
<1>3. CASE VoidStatus(r)
  BY <1>3 DEF VoidStatus, TypeOK
<1>4. CASE PayStatus(r)
  <2>1. CASE loc[r].inv = i
    <3>1. pc[r] = "payStatus" /\ pc'[r] = "payTotals"
      BY <1>4 DEF PayStatus, Goto, TypeOK
    <3> QED
      BY <2>1, <3>1 DEF LatePayment
  <2>2. CASE loc[r].inv # i
    BY <1>4, <2>2 DEF PayStatus, TypeOK
  <2> QED
    BY <2>1, <2>2
<1>5. CASE \/ ReadNumber(r) \/ HeaderRefused(r) \/ InsertLines(r) \/ LinkBatch(r)
           \/ GuardLinks(r) \/ UndoLinks(r) \/ UndoArchive(r) \/ PayReadRows(r)
           \/ PayInsert(r) \/ PayTotals(r) \/ ArchiveStamp(r) \/ ReleaseLinks(r)
           \/ LinkCheck(r) \/ LinkPost(r) \/ UnlinkPatch(r) \/ EditReadRows(r)
           \/ EditResolve(r) \/ EditDelete(r) \/ EditInsert(r) \/ EditLink(r)
           \/ EditUnlink(r) \/ EditPatch(r)
  BY <1>5
  DEF ReadNumber, HeaderRefused, InsertLines, LinkBatch, GuardLinks, UndoLinks, UndoArchive,
      PayReadRows, PayInsert, PayTotals, ArchiveStamp, ReleaseLinks, LinkCheck, LinkPost,
      UnlinkPatch, EditReadRows, EditResolve, EditDelete, EditInsert, EditLink, EditUnlink,
      EditPatch
<1>6. CASE Arrive(r)
  BY <1>6
  DEF Arrive, CreateResolve, BulkPreview, CloseRead, PayReadHeader, VoidRead, ArchiveRead,
      LinkRead, UnlinkRead, EditReadHeader
<1>7. CASE Fail(r)
  BY <1>7 DEF Fail, CreateCallFails, CallFails, Crash
<1> QED
  BY <1>1, <1>2, <1>3, <1>4, <1>5, <1>6, <1>7 DEF Continue

(***************************************************************************)
(* The compare-and-set of closeInvoice keeps VOID terminal against every   *)
(* interleaving but that of a payment.                                     *)
(***************************************************************************)
THEOREM VoidLeftOnlyByPaymentHolds == Spec => VoidLeftOnlyByPayment
<1>1. TypeOK /\ [Next]_vars => [\A i \in Invoice : VoidKept(i)]_vars
  BY VoidStep DEF Next
<1> QED
  BY TypeCorrect, <1>1, PTL DEF Spec, VoidLeftOnlyByPayment, VoidKept
=============================================================================
