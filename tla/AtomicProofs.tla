---------------------------- MODULE AtomicProofs ----------------------------
(***************************************************************************)
(* "Factura atomica o revertida" for every number of requests, invoices    *)
(* and packages, whatever calls fail and whichever Workers are cut off:    *)
(* creations, bulk creations, closes, archivings, links and either         *)
(* payments or voids interleave.  What takes the promise away is recorded  *)
(* in stranded (a fault that nothing compensates for) or excluded by the   *)
(* hypothesis AtomicOps: an edit or an unlink, which moves links by itself, *)
(* and a payment that meets a void and takes the invoice out of VOID after *)
(* its links are gone.                                                     *)
(***************************************************************************)
EXTENDS AtomicRequirements, BillingProofs

Creating == TryPc \cup UndoPc

Dead(i) == status[i] = "VOID" \/ archived[i]

(* Where a request may be when nobody edits or unlinks. *)
AtomicPc == {"idle", "number", "header", "closeCas", "voidStatus", "stamp", "release",
             "linkCheck", "linkPost"} \cup PayPc \cup Creating

(* The endpoints that are used: no edits, no unlinks, and not both payments *)
(* and voids.                                                               *)
AtomicOps ==
  /\ {"edit", "unlink"} \cap Ops = {}
  /\ "pay" \notin Ops \/ "void" \notin Ops

(* What a request has achieved of its invoice, call by call. *)
Part(call, l) ==
  /\ call \in AtomicPc
  /\ call \in PayPc => "pay" \in Ops
  /\ call = "voidStatus" => "void" \in Ops
  /\ call = "closeCas" => l.st # "VOID"
  /\ call = "release" => Dead(l.inv)
  /\ call \in {"number", "header"} \cup TryPc =>
       l.items # {} /\ l.items \cap Package \subseteq l.want
  /\ call = "lines" => lines[l.inv] = {}
  /\ call \in {"link", "guard"} => lines[l.inv] # {} /\ Billed(l.inv) \subseteq l.want

Parts == \A r \in Req : Part(pc[r], loc[r])

(* Nobody but its creator is in the try block, or compensates, of an invoice. *)
OneCreator ==
  \A r, s \in Req :
    pc[r] \in Creating /\ pc[s] \in Creating /\ loc[r].inv = loc[s].inv => r = s

AbsentBare == \A i \in Invoice : status[i] = "ABSENT" => lines[i] = {}

NothingVoid == "void" \notin Ops => \A i \in Invoice : status[i] # "VOID"

Whole(i) == lines[i] # {} /\ Billed(i) \subseteq Active(i)
WholeOnceCreated(i) == Live(i) /\ ~BeingCreated(i) => Whole(i)

(* The inductive invariant: an invoice that nobody is creating and no fault *)
(* has stranded is dead or whole.                                           *)
AtomicInv ==
  /\ Parts /\ OneCreator /\ AbsentBare /\ NothingVoid
  /\ \A i \in Invoice \ stranded : WholeOnceCreated(i)

(* The same after a step. *)
PartAfter(call, l) ==
  /\ call \in AtomicPc
  /\ call \in PayPc => "pay" \in Ops
  /\ call = "voidStatus" => "void" \in Ops
  /\ call = "closeCas" => l.st # "VOID"
  /\ call = "release" => status'[l.inv] = "VOID" \/ archived'[l.inv]
  /\ call \in {"number", "header"} \cup TryPc =>
       l.items # {} /\ l.items \cap Package \subseteq l.want
  /\ call = "lines" => lines'[l.inv] = {}
  /\ call \in {"link", "guard"} =>
       /\ lines'[l.inv] # {}
       /\ \A p \in Package, q \in Req : <<p, q>> \in lines'[l.inv] => p \in l.want

(* What a step may not do: revive an invoice, or touch the lines of one     *)
(* whose creator is not just inserting them.                                *)
DeadStay == \A i \in Invoice : Dead(i) => status'[i] = "VOID" \/ archived'[i]
LinesStay(r) ==
  \A i \in Invoice : lines'[i] = lines[i] \/ (pc[r] = "lines" /\ loc[r].inv = i)

-----------------------------------------------------------------------------
(***************************************************************************)
(* A request that moves on to a place where it has done its part, without  *)
(* bringing an invoice back to life and without touching lines other than  *)
(* those it is to insert, leaves everybody's part done.                    *)
(***************************************************************************)
LEMMA PartsKept ==
  ASSUME TypeOK, LockInv, AtomicInv,
         NEW r \in Req, NEW call \in Pc, NEW l \in Local, Goto(r, call, l),
         DeadStay, LinesStay(r),
         call \in Creating =>
           status[l.inv] = "ABSENT" \/ (pc[r] \in Creating /\ loc[r].inv = l.inv),
         PartAfter(call, l)
  PROVE  Parts' /\ OneCreator'
<1>1. pc'[r] = call /\ loc'[r] = l
  BY DEF Goto, TypeOK
<1>2. \A q \in Req \ {r} : pc'[q] = pc[q] /\ loc'[q] = loc[q]
  BY DEF Goto, TypeOK
<1>3. Parts'
  <2> SUFFICES ASSUME NEW q \in Req PROVE Part(pc[q], loc[q])'
    BY DEF Parts
  <2>1. CASE q = r
    BY <1>1, <2>1 DEF PartAfter, Part, Billed, Dead
  <2>2. CASE q # r
    <3>1. Part(pc[q], loc[q])
      BY DEF AtomicInv, Parts
    <3>2. pc[q] \in Creating \cup {"release"} => loc[q].inv \in Invoice
      BY DEF TypeOK, Creating, TryPc, UndoPc
    <3>3. pc[q] \in TryPc => lines'[loc[q].inv] = lines[loc[q].inv]
      BY <2>2, <3>2 DEF LinesStay, AtomicInv, OneCreator, Creating, TryPc
    <3>4. pc[q] \in TryPc => Billed(loc[q].inv)' = Billed(loc[q].inv)
      BY <1>2, <2>2, <3>3 DEF Billed
    <3>5. pc[q] = "release" => status'[loc[q].inv] = "VOID" \/ archived'[loc[q].inv]
      BY <3>1, <3>2 DEF Part, DeadStay
    <3> QED
      BY <1>2, <2>2, <3>1, <3>3, <3>4, <3>5 DEF Part, Billed, Dead, TryPc
  <2> QED
    BY <2>1, <2>2
<1>4. OneCreator'
  <2> SUFFICES ASSUME NEW q \in Req, q # r, pc[q] \in Creating, call \in Creating,
                      loc[q].inv = l.inv
               PROVE  FALSE
    BY <1>1, <1>2 DEF OneCreator, AtomicInv
  <2>1. status[loc[q].inv] # "ABSENT"
    BY DEF LockInv, RequestsSound, Sound, OnRecord, Creating, TryPc, UndoPc
  <2> QED
    BY <2>1 DEF AtomicInv, OneCreator
<1> QED
  BY <1>3, <1>4

(***************************************************************************)
(* An invoice stays whole in a step that leaves its lines, brings it no    *)
(* new life, takes no link from it and ends no creation of it.             *)
(***************************************************************************)
LEMMA WholeKept ==
  ASSUME TypeOK, AtomicInv,
         NEW r \in Req, NEW call \in Pc, NEW l \in Local, Goto(r, call, l),
         NEW i \in Invoice \ stranded,
         pc[r] \in Creating /\ loc[r].inv = i => call \in Creating /\ l.inv = i,
         Live(i)' => Live(i),
         lines'[i] = lines[i],
         Active(i) \subseteq Active(i)'
  PROVE  WholeOnceCreated(i)'
<1>1. pc'[r] = call /\ loc'[r] = l
  BY DEF Goto, TypeOK
<1>2. \A q \in Req \ {r} : pc'[q] = pc[q] /\ loc'[q] = loc[q]
  BY DEF Goto, TypeOK
<1>3. BeingCreated(i) => BeingCreated(i)'
  BY <1>1, <1>2 DEF BeingCreated, Creating
<1>4. Billed(i)' = Billed(i)
  BY DEF Billed
<1> QED
  BY <1>3, <1>4 DEF AtomicInv, WholeOnceCreated, Whole

(***************************************************************************)
(* Steps that write nothing: only where the request is, and what it has    *)
(* read, must fit.                                                         *)
(***************************************************************************)
LEMMA AtomicQuiet ==
  ASSUME TypeOK, LockInv, AtomicInv, UNCHANGED <<status, archived, lines, link, stranded>>,
         NEW r \in Req, NEW call \in Pc, NEW l \in Local, Goto(r, call, l),
         Part(call, l),
         call \in Creating => pc[r] \in Creating /\ loc[r].inv = l.inv,
         pc[r] \in Creating => call \in Creating /\ l.inv = loc[r].inv
  PROVE  AtomicInv'
<1>1. PartAfter(call, l)
  BY DEF PartAfter, Part, Dead, Billed
<1>2. Parts' /\ OneCreator'
  BY <1>1, PartsKept DEF DeadStay, LinesStay, Dead
<1>3. ASSUME NEW i \in Invoice \ stranded PROVE WholeOnceCreated(i)'
  <2>1. (Live(i)' => Live(i)) /\ Active(i)' = Active(i) /\ lines'[i] = lines[i]
    BY DEF Live, Active
  <2> QED
    BY <2>1, WholeKept
<1> QED
  BY <1>2, <1>3 DEF AtomicInv, AbsentBare, NothingVoid

LEMMA AtomicQuietEnd ==
  ASSUME TypeOK, LockInv, AtomicInv, UNCHANGED <<status, archived, lines, link, stranded>>,
         NEW r \in Req, Finish(r), pc[r] \notin Creating
  PROVE  AtomicInv'
<1>1. Part("idle", Blank)
  BY DEF Part, AtomicPc, PayPc, TryPc
<1> QED
  BY <1>1, BlankType, AtomicQuiet DEF Finish, Pc, Creating, TryPc, UndoPc

-----------------------------------------------------------------------------
(***************************************************************************)
(* The steps that write nothing.                                           *)
(***************************************************************************)
LEMMA AtomicArrive ==
  ASSUME TypeOK, LockInv, AtomicInv, AtomicOps,
         UNCHANGED stranded, NEW r \in Req, Arrive(r)
  PROVE  AtomicInv'
<1> USE DEF Part, AtomicPc, PayPc, Creating, TryPc, UndoPc, Pc, OtherPc, header, tables
<1>1. CASE CreateResolve(r)
  <2>1. PICK items \in SUBSET Item, extra \in SUBSET Package, st \in {"DRAFT", "ISSUED"} :
          /\ items \cap Freight # {}
          /\ Goto(r, "number", [Blank EXCEPT !.items = items,
                                             !.want = (items \cap Package) \cup extra, !.st = st])
    BY <1>1 DEF CreateResolve
  <2> DEFINE n == [Blank EXCEPT !.items = items,
                                !.want = (items \cap Package) \cup extra, !.st = st]
  <2>2. /\ n \in Local /\ n.items = items
        /\ n.want = (items \cap Package) \cup extra
    BY BlankType DEF Local, Status, Blank
  <2>3. Goto(r, "number", n)
    BY <2>1
  <2>4. items # {} /\ items \cap Package \subseteq n.want
    BY <2>1, <2>2
  <2>5. pc[r] = "idle" /\ UNCHANGED <<header, tables>>
    BY <1>1 DEF CreateResolve, Accept
  <2> HIDE DEF n
  <2> QED
    BY <2>2, <2>3, <2>4, <2>5, AtomicQuiet
<1>2. CASE BulkPreview(r)
  <2>1. PICK P \in (SUBSET Package) \ {{}} :
          Goto(r, "number", [Blank EXCEPT !.items = P, !.want = P, !.st = "DRAFT"])
    BY <1>2 DEF BulkPreview
  <2> DEFINE n == [Blank EXCEPT !.items = P, !.want = P, !.st = "DRAFT"]
  <2>2. n \in Local /\ n.items = P /\ n.want = P
    BY BlankType DEF Local, Status, Blank, Item, Freight
  <2>3. Goto(r, "number", n)
    BY <2>1
  <2>5. pc[r] = "idle" /\ UNCHANGED <<header, tables>>
    BY <1>2 DEF BulkPreview, Accept
  <2> HIDE DEF n
  <2> QED
    BY <2>1, <2>2, <2>3, <2>5, AtomicQuiet
<1>3. CASE CloseRead(r)
  <2>1. PICK i \in Invoice :
          /\ status[i] # "VOID"
          /\ Goto(r, "closeCas", [Blank EXCEPT !.inv = i, !.st = status[i]])
    BY <1>3 DEF CloseRead
  <2> DEFINE n == [Blank EXCEPT !.inv = i, !.st = status[i]]
  <2>2. n \in Local /\ n.st = status[i]
    BY BlankType DEF Local, Blank, TypeOK
  <2>3. Goto(r, "closeCas", n)
    BY <2>1
  <2>5. pc[r] = "idle" /\ UNCHANGED <<header, tables>>
    BY <1>3 DEF CloseRead, Accept
  <2> HIDE DEF n
  <2> QED
    BY <2>1, <2>2, <2>3, <2>5, AtomicQuiet
<1>4. CASE VoidRead(r) \/ ArchiveRead(r) \/ LinkRead(r)
  <2>1. PICK i \in Invoice, P \in SUBSET Package, call \in {"voidStatus", "stamp", "linkCheck"} :
          /\ call = "voidStatus" => "void" \in Ops
          /\ \/ Goto(r, call, [Blank EXCEPT !.inv = i])
             \/ Goto(r, call, [Blank EXCEPT !.inv = i, !.want = P])
    BY <1>4 DEF VoidRead, ArchiveRead, LinkRead, Accept
  <2>2. PICK n \in Local : Goto(r, call, n)
    <3>1. [Blank EXCEPT !.inv = i] \in Local /\ [Blank EXCEPT !.inv = i, !.want = P] \in Local
      BY BlankType DEF Local, Blank
    <3> QED
      BY <2>1, <3>1
  <2>3. pc[r] = "idle" /\ UNCHANGED <<header, tables>>
    BY <1>4 DEF VoidRead, ArchiveRead, LinkRead, Accept
  <2> QED
    BY <2>1, <2>2, <2>3, AtomicQuiet
<1>5. CASE UnlinkRead(r) \/ EditReadHeader(r)
  BY <1>5 DEF UnlinkRead, EditReadHeader, Accept, AtomicOps
<1>6. CASE PayReadHeader(r)
  <2>1. PICK i \in Invoice, amt \in Amounts :
          Goto(r, "payRows", [Blank EXCEPT !.inv = i, !.st = status[i], !.amt = amt])
    BY <1>6 DEF PayReadHeader
  <2>2. PICK n \in Local : Goto(r, "payRows", n)
    <3>1. [Blank EXCEPT !.inv = i, !.st = status[i], !.amt = amt] \in Local
      BY BlankType, BillingAssumption DEF Local, Blank, TypeOK
    <3> QED
      BY <2>1, <3>1
  <2>3. pc[r] = "idle" /\ "pay" \in Ops /\ UNCHANGED <<header, tables>>
    BY <1>6 DEF PayReadHeader, Accept
  <2> QED
    BY <2>2, <2>3, AtomicQuiet
<1> QED
  BY <1>1, <1>2, <1>3, <1>4, <1>5, <1>6 DEF Arrive

LEMMA AtomicQuietSteps ==
  ASSUME TypeOK, LockInv, AtomicInv, UNCHANGED stranded, NEW r \in Req,
         ReadNumber(r) \/ HeaderRefused(r) \/ LinkCheck(r) \/ CreateCallFails(r)
  PROVE  AtomicInv'
<1>0. loc[r] \in Local /\ Part(pc[r], loc[r])
  BY DEF TypeOK, AtomicInv, Parts
<1> USE DEF AtomicPc, PayPc, Creating, TryPc, UndoPc, header, tables
<1>1. CASE ReadNumber(r)
  <2>1. PICK last \in HighestNumber : Goto(r, "header", [loc[r] EXCEPT !.num = last + 1])
    BY <1>1 DEF ReadNumber
  <2>2. last \in Nat
    BY <2>1 DEF HighestNumber, Existing, TypeOK
  <2> DEFINE n == [loc[r] EXCEPT !.num = last + 1]
  <2>3. n \in Local /\ n.items = loc[r].items /\ n.want = loc[r].want
    BY <1>0, <2>2 DEF Local
  <2>4. Goto(r, "header", n)
    BY <2>1
  <2>5. pc[r] = "number" /\ UNCHANGED <<header, tables>>
    BY <1>1 DEF ReadNumber
  <2> HIDE DEF n
  <2>6. Part("header", n)
    BY <1>0, <2>3, <2>5 DEF Part
  <2> QED
    BY <2>3, <2>4, <2>5, <2>6, AtomicQuiet DEF Pc, OtherPc
<1>2. CASE HeaderRefused(r)
  BY <1>2, AtomicQuietEnd DEF HeaderRefused
<1>3. CASE LinkCheck(r)
  <2>1. Part("linkPost", loc[r])
    BY DEF Part
  <2>2. pc[r] = "linkCheck" /\ UNCHANGED <<header, tables>>
    BY <1>3 DEF LinkCheck
  <2>3. Finish(r) \/ Goto(r, "linkPost", loc[r])
    BY <1>3 DEF LinkCheck
  <2> QED
    BY <1>0, <2>1, <2>2, <2>3, AtomicQuiet, AtomicQuietEnd DEF Pc, OtherPc
<1>4. CASE CreateCallFails(r)
  <2>1. Part("undoLinks", loc[r])
    BY DEF Part
  <2> QED
    BY <1>0, <1>4, <2>1, AtomicQuiet DEF CreateCallFails, Pc
<1> QED
  BY <1>1, <1>2, <1>3, <1>4

-----------------------------------------------------------------------------
(***************************************************************************)
(* A creation, call by call.                                               *)
(***************************************************************************)
LEMMA AtomicInsertHeader ==
  ASSUME TypeOK, LockInv, AtomicInv, UNCHANGED stranded, NEW r \in Req, InsertHeader(r)
  PROVE  AtomicInv'
<1> USE DEF Creating, TryPc, UndoPc
<1>1. PICK i \in Invoice \ Existing :
        /\ status' = [status EXCEPT ![i] = loc[r].st]
        /\ Goto(r, "lines", [loc[r] EXCEPT !.inv = i])
  BY DEF InsertHeader
<1>2. pc[r] = "header" /\ archived' = archived /\ lines' = lines /\ link' = link
  BY DEF InsertHeader, tables
<1>3. status[i] = "ABSENT" /\ loc[r].st \in {"DRAFT", "ISSUED"}
  BY <1>1, <1>2 DEF Existing, LockInv, RequestsSound, Sound, Announced
<1> DEFINE n == [loc[r] EXCEPT !.inv = i]
<1>4. n \in Local /\ n.inv = i /\ n.items = loc[r].items /\ n.want = loc[r].want
  <2>1. loc[r] \in Local
    BY DEF TypeOK
  <2> QED
    BY <2>1 DEF Local
<1>5. Goto(r, "lines", n)
  BY <1>1
<1> HIDE DEF n
<1>6. Part("header", loc[r])
  BY <1>2 DEF AtomicInv, Parts
<1>7. lines[i] = {}
  BY <1>1, <1>3 DEF AtomicInv, AbsentBare
<1>8. PartAfter("lines", n)
  BY <1>2, <1>4, <1>6, <1>7 DEF Part, PartAfter, AtomicPc, PayPc
<1>9. DeadStay /\ LinesStay(r)
  BY <1>1, <1>2, <1>3 DEF DeadStay, LinesStay, Dead, TypeOK
<1>10. Parts' /\ OneCreator'
  BY <1>3, <1>4, <1>5, <1>8, <1>9, PartsKept DEF Pc
<1>11. AbsentBare' /\ NothingVoid'
  BY <1>1, <1>2, <1>3, <1>7 DEF AtomicInv, AbsentBare, NothingVoid, TypeOK
<1>12. ASSUME NEW j \in Invoice \ stranded PROVE WholeOnceCreated(j)'
  <2>1. CASE j = i
    <3>1. pc'[r] = "lines" /\ loc'[r].inv = j
      BY <1>4, <1>5, <2>1 DEF Goto, TypeOK
    <3> QED
      BY <3>1 DEF WholeOnceCreated, BeingCreated
  <2>2. CASE j # i
    <3>1. (Live(j)' => Live(j)) /\ Active(j)' = Active(j) /\ lines'[j] = lines[j]
      BY <1>1, <1>2, <2>2 DEF Live, Active, TypeOK
    <3> QED
      BY <1>2, <1>4, <1>5, <3>1, WholeKept DEF Pc
  <2> QED
    BY <2>1, <2>2
<1> QED
  BY <1>10, <1>11, <1>12 DEF AtomicInv

LEMMA AtomicInsertLines ==
  ASSUME TypeOK, LockInv, AtomicInv, UNCHANGED stranded, NEW r \in Req, InsertLines(r)
  PROVE  AtomicInv'
<1> USE DEF Creating, TryPc, UndoPc
<1>1. PICK i \in Invoice : i = loc[r].inv
  BY DEF InsertLines, TypeOK
<1>2. PICK l \in Local : l = loc[r]
  BY DEF TypeOK
<1>3. /\ pc[r] = "lines" /\ status' = status /\ archived' = archived /\ link' = link
      /\ lines' = [lines EXCEPT ![i] = @ \cup (l.items \X {r})]
      /\ Goto(r, "link", l)
  BY <1>1, <1>2 DEF InsertLines, header
<1>4. Part("lines", l)
  BY <1>2, <1>3 DEF AtomicInv, Parts
<1>5. lines[i] = {} /\ l.items # {} /\ l.items \cap Package \subseteq l.want
  BY <1>1, <1>2, <1>4 DEF Part
<1>6. lines'[i] = l.items \X {r}
  BY <1>3, <1>5 DEF TypeOK
<1>7. lines'[i] # {}
  <2>1. PICK x : x \in l.items
    BY <1>5
  <2>2. <<x, r>> \in lines'[i]
    BY <1>6, <2>1
  <2> QED
    BY <2>2
<1>8. \A p \in Package, q \in Req : <<p, q>> \in lines'[i] => p \in l.want
  BY <1>5, <1>6
<1>9. PartAfter("link", l)
  BY <1>1, <1>2, <1>4, <1>7, <1>8 DEF Part, PartAfter, AtomicPc, PayPc
<1>10. DeadStay /\ LinesStay(r)
  BY <1>1, <1>3 DEF DeadStay, LinesStay, Dead, TypeOK
<1>11. Parts' /\ OneCreator'
  BY <1>2, <1>3, <1>9, <1>10, PartsKept DEF Pc
<1>12. status[i] # "ABSENT"
  BY <1>1, <1>3 DEF LockInv, RequestsSound, Sound, OnRecord
<1>13. AbsentBare' /\ NothingVoid'
  BY <1>3, <1>12 DEF AtomicInv, AbsentBare, NothingVoid, TypeOK
<1>14. ASSUME NEW j \in Invoice \ stranded PROVE WholeOnceCreated(j)'
  <2>1. CASE j = i
    <3>1. pc'[r] = "link" /\ loc'[r].inv = j
      BY <1>1, <1>2, <1>3, <2>1 DEF Goto, TypeOK
    <3> QED
      BY <3>1 DEF WholeOnceCreated, BeingCreated
  <2>2. CASE j # i
    <3>1. (Live(j)' => Live(j)) /\ Active(j)' = Active(j) /\ lines'[j] = lines[j]
      BY <1>3, <2>2 DEF Live, Active, TypeOK
    <3> QED
      BY <1>1, <1>2, <1>3, <2>2, <3>1, WholeKept DEF Pc
  <2> QED
    BY <2>1, <2>2
<1> QED
  BY <1>11, <1>13, <1>14 DEF AtomicInv

(***************************************************************************)
(* The upsert takes no link away and the release only those of one invoice. *)
(***************************************************************************)
LEMMA LinkWritesActive ==
  ASSUME TypeOK, NEW i \in Invoice, NEW P, NEW j \in Invoice
  PROVE  /\ link' = Upserted(i, P) => Active(j) \subseteq Active(j)'
         /\ link' = Released(i, P) /\ j # i => Active(j)' = Active(j)
         /\ link' = Released(i, Package) => Active(i)' = {}
BY DEF TypeOK, Active, Upserted, Released

LEMMA AtomicLinkSteps ==
  ASSUME TypeOK, LockInv, AtomicInv, UNCHANGED stranded, NEW r \in Req,
         LinkBatch(r) \/ LinkPost(r) \/ UndoLinks(r)
  PROVE  AtomicInv'
<1> USE DEF Creating, TryPc, UndoPc
<1>1. PICK i \in Invoice : i = loc[r].inv
  BY DEF LinkBatch, LinkPost, UndoLinks, TypeOK
<1>2. PICK l \in Local : l = loc[r]
  BY DEF TypeOK
<1>3. /\ status' = status /\ archived' = archived /\ lines' = lines
      /\ Part(pc[r], l)
  BY <1>2 DEF LinkBatch, LinkPost, UndoLinks, header, AtomicInv, Parts
<1>4. DeadStay /\ LinesStay(r) /\ AbsentBare' /\ NothingVoid'
  BY <1>3 DEF DeadStay, LinesStay, Dead, AtomicInv, AbsentBare, NothingVoid
<1>5. PICK call \in Pc, n \in Local :
        /\ Goto(r, call, n) /\ PartAfter(call, n)
        /\ call \in Creating => pc[r] \in Creating /\ loc[r].inv = n.inv
        /\ pc[r] \in Creating => call \in Creating /\ n.inv = loc[r].inv
  <2>1. CASE LinkBatch(r)
    <3>1. pc[r] = "link" /\ (Goto(r, "undoLinks", l) \/ Goto(r, "guard", l))
      BY <1>2, <2>1 DEF LinkBatch
    <3>2. PartAfter("undoLinks", l) /\ PartAfter("guard", l)
      BY <1>3, <3>1 DEF Part, PartAfter, AtomicPc, PayPc, Billed
    <3> QED
      BY <1>2, <3>1, <3>2 DEF Pc
  <2>2. CASE LinkPost(r)
    <3>1. pc[r] = "linkPost" /\ Goto(r, "idle", Blank)
      BY <2>2 DEF LinkPost, Finish
    <3>2. PartAfter("idle", Blank)
      BY DEF PartAfter, AtomicPc, PayPc
    <3> QED
      BY <3>1, <3>2, BlankType DEF Pc
  <2>3. CASE UndoLinks(r)
    <3>1. pc[r] = "undoLinks" /\ Goto(r, "undoArchive", l)
      BY <1>2, <2>3 DEF UndoLinks
    <3>2. PartAfter("undoArchive", l)
      BY DEF PartAfter, AtomicPc, PayPc
    <3> QED
      BY <1>2, <3>1, <3>2 DEF Pc
  <2> QED
    BY <2>1, <2>2, <2>3
<1>6. Parts' /\ OneCreator'
  BY <1>4, <1>5, PartsKept
<1>7. ASSUME NEW j \in Invoice \ stranded PROVE WholeOnceCreated(j)'
  <2>1. CASE pc[r] \in Creating /\ j = i
    <3>1. pc'[r] \in Creating /\ loc'[r].inv = j
      BY <1>1, <1>5, <2>1 DEF Goto, TypeOK
    <3> QED
      BY <3>1 DEF WholeOnceCreated, BeingCreated
  <2>2. CASE ~(pc[r] \in Creating /\ j = i)
    <3>1. Active(j) \subseteq Active(j)'
      <4>1. CASE link' = link
        BY <4>1 DEF Active
      <4>2. CASE LinkBatch(r) \/ LinkPost(r)
        <5>1. link' = link \/ link' = Upserted(i, l.want)
          BY <1>1, <1>2, <4>2 DEF LinkBatch, LinkPost
        <5> QED
          BY <4>1, <5>1, LinkWritesActive
      <4>3. CASE UndoLinks(r)
        <5>1. link' = Released(i, Package) /\ pc[r] \in Creating
          BY <1>1, <4>3 DEF UndoLinks
        <5> QED
          BY <2>2, <5>1, LinkWritesActive
      <4> QED
        BY <4>2, <4>3
    <3>2. (Live(j)' => Live(j)) /\ lines'[j] = lines[j]
      BY <1>3 DEF Live
    <3> QED
      BY <1>5, <3>1, <3>2, WholeKept
  <2> QED
    BY <2>1, <2>2
<1> QED
  BY <1>4, <1>6, <1>7 DEF AtomicInv

(***************************************************************************)
(* The guard lets a creation end only when the invoice is whole.           *)
(***************************************************************************)
LEMMA AtomicGuard ==
  ASSUME TypeOK, LockInv, AtomicInv, UNCHANGED stranded, NEW r \in Req, GuardLinks(r)
  PROVE  AtomicInv'
<1> USE DEF Creating, TryPc, UndoPc
<1>1. PICK i \in Invoice : i = loc[r].inv
  BY DEF GuardLinks, TypeOK
<1>2. PICK l \in Local : l = loc[r]
  BY DEF TypeOK
<1>3. /\ pc[r] = "guard" /\ Part("guard", l)
      /\ UNCHANGED <<status, archived, lines, link>>
  <2>1. pc[r] = "guard" /\ UNCHANGED <<status, archived, lines, link>>
    BY DEF GuardLinks, header, tables
  <2> QED
    BY <1>2, <2>1 DEF AtomicInv, Parts
<1>4. CASE Goto(r, "undoLinks", l)
  <2>1. Part("undoLinks", l)
    BY DEF Part, AtomicPc, PayPc
  <2> QED
    BY <1>2, <1>3, <1>4, <2>1, AtomicQuiet DEF Pc
<1>5. CASE l.want \subseteq Active(i) /\ Finish(r)
  <2>1. lines' = lines /\ link' = link /\ status' = status /\ archived' = archived
    BY <1>3
  <2>2. PartAfter("idle", Blank) /\ DeadStay /\ LinesStay(r) /\ AbsentBare' /\ NothingVoid'
    BY <2>1
    DEF PartAfter, AtomicPc, PayPc, DeadStay, LinesStay, Dead, AtomicInv, AbsentBare, NothingVoid
  <2>3. Goto(r, "idle", Blank)
    BY <1>5 DEF Finish
  <2>4. Parts' /\ OneCreator'
    BY <2>2, <2>3, BlankType, PartsKept DEF Pc
  <2>5. ASSUME NEW j \in Invoice \ stranded PROVE WholeOnceCreated(j)'
    <3>1. Active(j)' = Active(j) /\ Billed(j)' = Billed(j) /\ (Live(j)' => Live(j))
      BY <2>1 DEF Active, Billed, Live
    <3>2. CASE j = i
      <4>1. lines[i] # {} /\ Billed(i) \subseteq l.want
        BY <1>1, <1>2, <1>3 DEF Part
      <4> QED
        BY <1>5, <2>1, <3>1, <3>2, <4>1 DEF WholeOnceCreated, Whole
    <3>3. CASE j # i
      BY <1>1, <2>1, <2>3, <3>1, <3>3, BlankType, WholeKept DEF Pc
    <3> QED
      BY <3>2, <3>3
  <2> QED
    BY <2>2, <2>4, <2>5 DEF AtomicInv
<1> QED
  BY <1>1, <1>2, <1>4, <1>5 DEF GuardLinks

(***************************************************************************)
(* Closing, voiding, archiving: a live invoice stays as whole as it was,   *)
(* or becomes a dead one.  Only dead ones lose their links.                *)
(***************************************************************************)
LEMMA AtomicHeaderSteps ==
  ASSUME TypeOK, LockInv, AtomicInv, UNCHANGED stranded, NEW r \in Req,
         UndoArchive(r) \/ CloseCas(r) \/ VoidStatus(r) \/ ArchiveStamp(r) \/ ReleaseLinks(r)
  PROVE  AtomicInv'
<1> USE DEF Creating, TryPc, UndoPc
<1>1. PICK i \in Invoice : i = loc[r].inv
  BY DEF UndoArchive, CloseCas, VoidStatus, ArchiveStamp, ReleaseLinks, TypeOK
<1>2. PICK l \in Local : l = loc[r]
  BY DEF TypeOK
<1>3. lines' = lines /\ Part(pc[r], l) /\ status[i] # "ABSENT"
  BY <1>1, <1>2
  DEF UndoArchive, CloseCas, VoidStatus, ArchiveStamp, ReleaseLinks, tables, AtomicInv, Parts,
      LockInv, RequestsSound, Sound, OnRecord
<1>4. \A j \in Invoice \ {i} :
        status'[j] = status[j] /\ archived'[j] = archived[j] /\ Active(j)' = Active(j)
  <2>1. CASE ReleaseLinks(r)
    BY <1>1, <2>1, LinkWritesActive DEF ReleaseLinks, header
  <2>2. CASE UndoArchive(r) \/ CloseCas(r) \/ VoidStatus(r) \/ ArchiveStamp(r)
    BY <1>1, <2>2
    DEF UndoArchive, CloseCas, VoidStatus, ArchiveStamp, tables, Active, TypeOK
  <2> QED
    BY <2>1, <2>2
<1>5. /\ status'[i] # "ABSENT"
      /\ status'[i] = "VOID" => status[i] = "VOID" \/ "void" \in Ops
      /\ Dead(i) => status'[i] = "VOID" \/ archived'[i]
      /\ \/ status'[i] = "VOID" \/ archived'[i]
         \/ /\ Live(i)' => Live(i)
            /\ Active(i)' = Active(i) /\ pc[r] \notin Creating
  <2>1. CASE CloseCas(r)
    <3>1. pc[r] = "closeCas" /\ archived' = archived /\ Active(i)' = Active(i)
      BY <2>1 DEF CloseCas, tables, Active
    <3>2. l.st \in Status \cup {"ABSENT"} /\ l.st # "VOID"
      BY <1>3, <3>1 DEF Part, Local
    <3>3. \/ status' = status
          \/ /\ status[i] = l.st
             /\ status'[i] = IF l.st = "DRAFT" THEN "ISSUED" ELSE l.st
      BY <1>1, <1>2, <2>1 DEF CloseCas, StillAsRead, TypeOK
    <3> QED
      BY <1>3, <3>1, <3>2, <3>3 DEF Dead, Live, Status
  <2>2. CASE ReleaseLinks(r)
    <3>1. Dead(i) /\ status' = status /\ archived' = archived
      BY <1>1, <1>2, <1>3, <2>2 DEF ReleaseLinks, Part, header
    <3> QED
      BY <1>3, <3>1 DEF Dead
  <2>3. CASE UndoArchive(r) \/ VoidStatus(r) \/ ArchiveStamp(r)
    BY <1>1, <1>3, <2>3 DEF Part, UndoArchive, VoidStatus, ArchiveStamp, Dead, TypeOK
  <2> QED
    BY <2>1, <2>2, <2>3
<1>6. DeadStay /\ LinesStay(r) /\ AbsentBare' /\ NothingVoid'
  BY <1>3, <1>4, <1>5 DEF DeadStay, LinesStay, Dead, AtomicInv, AbsentBare, NothingVoid
<1>7. PICK call \in {"idle", "release"}, n \in Local : Goto(r, call, n) /\ PartAfter(call, n)
  <2>1. CASE Finish(r)
    <3>1. PartAfter("idle", Blank)
      BY DEF PartAfter, AtomicPc, PayPc
    <3> QED
      BY <2>1, <3>1, BlankType DEF Finish
  <2>2. CASE VoidStatus(r) \/ ArchiveStamp(r)
    <3>1. Goto(r, "release", l)
      BY <1>2, <2>2 DEF VoidStatus, ArchiveStamp
    <3>2. status'[l.inv] = "VOID" \/ archived'[l.inv]
      BY <1>1, <1>2, <2>2 DEF VoidStatus, ArchiveStamp, TypeOK
    <3>3. PartAfter("release", l)
      BY <3>2 DEF PartAfter, AtomicPc, PayPc
    <3> QED
      BY <3>1, <3>3
  <2> QED
    BY <2>1, <2>2 DEF UndoArchive, CloseCas, ReleaseLinks
<1>8. Parts' /\ OneCreator'
  BY <1>6, <1>7, PartsKept DEF Pc, OtherPc
<1>9. ASSUME NEW j \in Invoice \ stranded PROVE WholeOnceCreated(j)'
  <2>1. CASE j = i /\ (status'[i] = "VOID" \/ archived'[i])
    BY <2>1 DEF WholeOnceCreated, Live
  <2>2. CASE j = i /\ ~(status'[i] = "VOID" \/ archived'[i])
    BY <1>3, <1>5, <1>7, <2>2, WholeKept DEF Pc, OtherPc
  <2>3. CASE j # i
    <3>1. (Live(j)' => Live(j)) /\ Active(j)' = Active(j) /\ lines'[j] = lines[j]
      BY <1>3, <1>4, <2>3 DEF Live
    <3> QED
      BY <1>1, <1>7, <2>3, <3>1, WholeKept DEF Pc, OtherPc
  <2> QED
    BY <2>1, <2>2, <2>3
<1> QED
  BY <1>6, <1>8, <1>9 DEF AtomicInv

(***************************************************************************)
(* A payment reads and writes what the invariant does not speak of, but    *)
(* for the status; where nothing is voided that status is live already.    *)
(***************************************************************************)
LEMMA AtomicPaySteps ==
  ASSUME TypeOK, LockInv, AtomicInv, AtomicOps, UNCHANGED stranded, NEW r \in Req,
         PayReadRows(r) \/ PayInsert(r) \/ PayStatus(r) \/ PayTotals(r)
  PROVE  AtomicInv'
<1> USE DEF Creating, TryPc, UndoPc, PayPc
<1>1. PICK i \in Invoice : i = loc[r].inv
  BY DEF PayReadRows, PayInsert, PayStatus, PayTotals, TypeOK
<1>2. /\ pc[r] \in PayPc /\ "pay" \in Ops
      /\ archived' = archived /\ lines' = lines /\ link' = link
  BY DEF PayReadRows, PayInsert, PayStatus, PayTotals, header, tables, AtomicInv, Parts, Part
<1>3. PICK call \in PayPc \cup {"idle"}, n \in Local : Goto(r, call, n)
  <2>1. loc[r] \in Local /\ payments[i] \in Nat /\ LinesTotal(i) \in Nat
    BY ItemsFinite DEF TypeOK, LinesTotal
  <2>2. CASE PayReadRows(r)
    <3>1. [loc[r] EXCEPT !.tot = LinesTotal(i), !.paid = payments[i]] \in Local
      BY <2>1 DEF Local
    <3> QED
      BY <1>1, <2>2, <3>1 DEF PayReadRows
  <2>3. CASE PayInsert(r)
    <3>1. [loc[r] EXCEPT !.paid = @ + loc[r].amt] \in Local
      BY <2>1 DEF Local
    <3> QED
      BY <2>3, <3>1 DEF PayInsert
  <2>4. CASE PayStatus(r)
    BY <2>1, <2>4 DEF PayStatus
  <2>5. CASE PayTotals(r)
    BY <2>5, BlankType DEF PayTotals, Finish
  <2> QED
    BY <2>2, <2>3, <2>4, <2>5
<1>4. Part(call, n) /\ PartAfter(call, n)
  BY <1>2, <1>3 DEF Part, PartAfter, AtomicPc
<1>5. CASE UNCHANGED status
  BY <1>2, <1>3, <1>4, <1>5, AtomicQuiet DEF Pc, OtherPc
<1>6. CASE PayStatus(r)
  <2>1. /\ status[i] # "ABSENT" /\ loc[r].st \in Money
        /\ status' = [status EXCEPT ![i] = ComputeStatus(loc[r].st, loc[r].tot, loc[r].paid)]
    BY <1>1, <1>6
    DEF PayStatus, LockInv, RequestsSound, Sound, OnRecord, PaysLocked
  <2>2. ComputeStatus(loc[r].st, loc[r].tot, loc[r].paid) \in Money
    BY <2>1 DEF ComputeStatus, Money
  <2>3. \A j \in Invoice : status[j] # "VOID"
    BY <1>2 DEF AtomicOps, AtomicInv, NothingVoid
  <2>4. /\ \A j \in Invoice \ {i} : status'[j] = status[j]
        /\ status'[i] \in Money
    BY <2>1, <2>2 DEF TypeOK
  <2>5. DeadStay /\ LinesStay(r) /\ AbsentBare' /\ NothingVoid'
    BY <1>2, <2>1, <2>3, <2>4
    DEF DeadStay, LinesStay, Dead, Money, AtomicInv, AbsentBare, NothingVoid
  <2>6. Parts' /\ OneCreator'
    BY <1>3, <1>4, <2>5, PartsKept DEF Pc, OtherPc
  <2>7. ASSUME NEW j \in Invoice \ stranded PROVE WholeOnceCreated(j)'
    <3>1. (Live(j)' => Live(j)) /\ Active(j)' = Active(j) /\ lines'[j] = lines[j]
      BY <1>2, <2>1, <2>3, <2>4 DEF Live, Active, TypeOK
    <3> QED
      BY <1>2, <1>3, <3>1, WholeKept DEF Pc, OtherPc
  <2> QED
    BY <2>5, <2>6, <2>7 DEF AtomicInv
<1> QED
  BY <1>5, <1>6 DEF PayReadRows, PayInsert, PayTotals, header

-----------------------------------------------------------------------------
(***************************************************************************)
(* A request that stops leaves the tables alone, and strands the invoice   *)
(* it was creating.                                                        *)
(***************************************************************************)
LEMMA AtomicStops ==
  ASSUME TypeOK, LockInv, AtomicInv, NEW r \in Req, Stops(r)
  PROVE  AtomicInv'
<1>1. /\ Goto(r, "idle", Blank)
      /\ UNCHANGED <<status, archived, lines, link>>
  BY DEF Stops, CallFails, Crash, Finish, header, tables
<1>2. PartAfter("idle", Blank) /\ DeadStay /\ LinesStay(r) /\ AbsentBare' /\ NothingVoid'
  BY <1>1
  DEF PartAfter, AtomicPc, PayPc, TryPc, DeadStay, LinesStay, Dead, AtomicInv, AbsentBare,
      NothingVoid
<1>3. Parts' /\ OneCreator'
  BY <1>1, <1>2, BlankType, PartsKept DEF Pc, Creating, TryPc, UndoPc
<1>4. ASSUME NEW i \in Invoice \ stranded' PROVE WholeOnceCreated(i)'
  <2>1. i \notin stranded /\ ~(pc[r] \in Creating /\ loc[r].inv = i)
    BY DEF Stops, Creating
  <2>2. (Live(i)' => Live(i)) /\ Active(i)' = Active(i) /\ lines'[i] = lines[i]
    BY <1>1 DEF Live, Active
  <2> QED
    BY <1>1, <2>1, <2>2, BlankType, WholeKept DEF Pc
<1> QED
  BY <1>2, <1>3, <1>4 DEF AtomicInv

-----------------------------------------------------------------------------
(***************************************************************************)
(* Where nobody can be when edits and unlinks are out.                     *)
(***************************************************************************)
LEMMA AtomicExcluded ==
  ASSUME AtomicInv, NEW r \in Req
  PROVE  ~ \/ UnlinkPatch(r) \/ EditReadRows(r) \/ EditResolve(r) \/ EditDelete(r)
           \/ EditInsert(r) \/ EditLink(r) \/ EditUnlink(r) \/ EditPatch(r)
<1>1. pc[r] \in AtomicPc
  BY DEF AtomicInv, Parts, Part
<1> QED
  BY <1>1
  DEF AtomicPc, PayPc, Creating, TryPc, UndoPc, UnlinkPatch, EditReadRows, EditResolve,
      EditDelete, EditInsert, EditLink, EditUnlink, EditPatch

LEMMA AtomicInvInit == AtomicInit => AtomicInv
BY DEF AtomicInit, Init, Blank, AtomicInv, Parts, Part, AtomicPc, PayPc, Creating, TryPc, UndoPc,
       OneCreator, AbsentBare, NothingVoid, WholeOnceCreated, Live, Status

(***************************************************************************)
(* The history restricts nothing: every behaviour with it is one of the    *)
(* service, so what is proved of Spec holds here.                          *)
(***************************************************************************)
LEMMA AtomicIsService == AtomicSpec => Spec
<1>1. [AtomicNext]_atomicVars => [Next]_vars
  BY DEF AtomicNext, Proceeds, Stops, Next, Fail, atomicVars
<1> QED
  BY <1>1, PTL DEF AtomicSpec, AtomicInit, Spec

LEMMA AtomicInvariant ==
  ASSUME AtomicOps
  PROVE  AtomicSpec => []AtomicInv
<1>1. TypeOK /\ LockInv /\ AtomicInv /\ [AtomicNext]_atomicVars => AtomicInv'
  <2>1. ASSUME TypeOK, LockInv, AtomicInv, NEW r \in Req, Proceeds(r)
        PROVE  AtomicInv'
    BY <2>1, AtomicArrive, AtomicQuietSteps, AtomicInsertHeader, AtomicInsertLines,
       AtomicLinkSteps, AtomicGuard, AtomicHeaderSteps, AtomicPaySteps, AtomicExcluded
    DEF Proceeds, Continue
  <2>2. ASSUME AtomicInv, UNCHANGED atomicVars PROVE AtomicInv'
    BY <2>2 DEF atomicVars, vars, header, tables, AtomicInv, Parts, Part, OneCreator, AbsentBare,
       NothingVoid, WholeOnceCreated, Whole, Live, Dead, BeingCreated, Billed, Active
  <2> QED
    BY <2>1, <2>2, AtomicStops DEF AtomicNext
<1> QED
  BY TypeCorrect, LockInvariant, AtomicIsService, AtomicInvInit, <1>1, PTL DEF AtomicSpec

(***************************************************************************)
(* Atomic or reverted: however creations, closes, archivings, links and    *)
(* either payments or voids interleave, whichever calls fail and Workers   *)
(* are cut off, a live invoice that nobody works on has its lines and an   *)
(* active link for every package they bill, unless it is stranded: its     *)
(* creation was cut off, or a write of its compensation failed.            *)
(***************************************************************************)
THEOREM WholeOrRevertedHolds ==
  ASSUME AtomicOps
  PROVE  AtomicSpec => []WholeOrReverted
<1>1. AtomicInv => WholeOrReverted
  BY DEF AtomicInv, WholeOnceCreated, Whole, WholeOrReverted, BeingCreated, AtRest
<1> QED
  BY AtomicInvariant, <1>1, PTL

(***************************************************************************)
(* No double billing: a package of two whole invoices would have an active *)
(* link of both, which the index of the table never lets happen.           *)
(***************************************************************************)
THEOREM NoDoubleBillingHolds ==
  ASSUME AtomicOps
  PROVE  AtomicSpec => []NoDoubleBilling
<1>1. WholeOrReverted /\ OneActiveInvoice => NoDoubleBilling
  <2> SUFFICES ASSUME WholeOrReverted, OneActiveInvoice,
                      NEW i \in Invoice \ stranded, NEW j \in Invoice \ stranded,
                      AtRest(i), Live(i), AtRest(j), Live(j), i # j,
                      NEW p \in Billed(i) \cap Billed(j)
               PROVE  FALSE
    BY DEF NoDoubleBilling
  <2>1. p \in Active(i) /\ p \in Active(j)
    BY DEF WholeOrReverted
  <2> QED
    BY <2>1 DEF Active, OneActiveInvoice
<1> QED
  BY WholeOrRevertedHolds, OneActiveInvoiceHolds, AtomicIsService, <1>1, PTL
=============================================================================
