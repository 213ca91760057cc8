------------------------- MODULE BillingRequirements -------------------------
(***************************************************************************)
(* What invoicing owes the agency, stated over the tables and requests of  *)
(* BillingService: what holds however requests interleave and fail, and in *)
(* BilledHasActiveLink what the edits break.  What a fault or an overlap   *)
(* may spoil is stated in AtomicRequirements and BooksRequirements, which  *)
(* record the invoices it has happened to.                                 *)
(***************************************************************************)
EXTENDS BillingService

EditPc == {"editRows", "editResolve", "editDelete", "editInsert", "editLinks",
           "editPatch"}

AtRest(i) == \A r \in Req : loc[r].inv # i
Live(i) == status[i] \in Status \ {"VOID"} /\ ~archived[i]

(* uniq_active_package_invoice: a package never has active links of two     *)
(* invoices, however the requests that link it interleave.                  *)
OneActiveInvoice ==
  \A p \in Package, i, j \in Invoice :
    link[i][p] = "active" /\ link[j][p] = "active" => i = j

(* nextInvoiceNumber + the unique key: two invoices of the year, archived   *)
(* or not, never share a number although two requests may read the same.    *)
NumbersUnique ==
  \A i, j \in Existing : number[i] = number[j] => i = j

(* The closed-state invariant of 20260906020000: an invoice that left DRAFT *)
(* for a money state is locked, and a DRAFT is not, though closing, voiding *)
(* and paying write status and closed_at from snapshots.                    *)
ClosedIffIssued ==
  \A i \in Invoice :
    /\ status[i] = "DRAFT" => ~closed[i]
    /\ status[i] \in {"ISSUED", "PARTIAL", "PAID"} => closed[i]

(* applyPayment: the total must be frozen before money starts flowing.      *)
MoneyOnlyAfterLock ==
  \A i \in Invoice : payments[i] > 0 \/ paidUsd[i] > 0 => closed[i]

(* computeStatus and POST /void say that VOID is terminal.  It is, whatever *)
(* closeInvoice's compare-and-set, an edit, a link or a creation had under  *)
(* way, except for the status that a payment computed before the void and   *)
(* writes after it.                                                         *)
LatePayment(i) == \E r \in Req : pc[r] = "payStatus" /\ loc[r].inv = i /\ pc'[r] = "payTotals"

VoidLeftOnlyByPayment ==
  [][\A i \in Invoice :
       status[i] = "VOID" => status'[i] = "VOID" \/ LatePayment(i)]_vars

(* The monthly check of billing-invoice-integrity.md: no line of a live     *)
(* invoice bills a package that the invoice has no active link for.         *)
BilledHasActiveLink ==
  \A i \in Invoice : AtRest(i) /\ Live(i) => Billed(i) \subseteq Active(i)

(* "Financial lock: freeze the invoice (... amounts)".  Locked(i): closed,   *)
(* its total the sum of its lines, nobody replacing those, and no payment   *)
(* under way that read others.  From then on no payment, void, archiving or *)
(* link changes its total, and no later edit gets in.                       *)
Locked(i) ==
  /\ closed[i] /\ total[i] = LinesTotal(i)
  /\ \A r \in Req : loc[r].inv = i =>
       /\ pc[r] \notin {"lines"} \cup EditPc
       /\ pc[r] \in {"payInsert", "payStatus", "payTotals"} => loc[r].tot = total[i]

ClosedTotalFrozen ==
  [][\A i \in Invoice : Locked(i) => Locked(i)' /\ total'[i] = total[i]]_vars

(* 20260926090950: every mutation on an archived invoice 404s.  Sealed(i):  *)
(* archived, and whoever passed that guard before has only releases and     *)
(* archivings left to do.  From then on its lines, money and status stay    *)
(* and no link is gained.                                                   *)
Sealed(i) ==
  /\ archived[i]
  /\ \A r \in Req :
       loc[r].inv = i => pc[r] \in UndoPc \cup {"stamp", "release", "unlink"}

ArchivedIsFrozen ==
  [][\A i \in Invoice : Sealed(i) =>
       /\ Sealed(i)'
       /\ status'[i] = status[i] /\ closed'[i] = closed[i]
       /\ lines'[i] = lines[i] /\ payments'[i] = payments[i]
       /\ {p \in Package : link'[i][p] = "active"} \subseteq Active(i)]_vars

(* Refinement mapping: the invoice whose link of the package is active. *)
Holder ==
  [p \in Package |->
     IF \E i \in Invoice : link[i][p] = "active"
       THEN CHOOSE i \in Invoice : link[i][p] = "active"
       ELSE NoInvoice]

(* The ledger that the link table implements. *)
Ledger == INSTANCE PackageLedger WITH holder <- Holder

(* Every step of every request is a claim, a release or nothing at all.     *)
ImplementsLedger == Ledger!Spec
=============================================================================
