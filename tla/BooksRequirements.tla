-------------------------- MODULE BooksRequirements --------------------------
(***************************************************************************)
(* The books of an invoice: its total against its lines, its paid_usd and  *)
(* status against its payment rows, its links against its end.  Creating,  *)
(* editing, paying, voiding and archiving keep them in several calls       *)
(* without a transaction, so two such requests on one invoice at once, or  *)
(* one that stops between two writes, may leave them wrong, and the code   *)
(* has nothing to repair them.  Two history variables collect the invoices *)
(* this has happened to; the books of all the others must be right, under  *)
(* every endpoint, fault and interleaving.  The variables are added to the *)
(* steps of BillingService and restrict none of them.                      *)
(***************************************************************************)
EXTENDS BillingRequirements

VARIABLES
  mixed,      \* invoices on which requests that write amounts overlapped, or
              \* one stopped between its writes
  leaky       \* the same for the requests that link, void or archive

booksVars == <<vars, mixed, leaky>>

(* A request that replaces lines or records money, from its first call on; *)
(* a creation until its lines are in.                                       *)
AmountPc == {"lines", "payRows", "payInsert", "payStatus", "payTotals"} \cup EditPc

(* One that has written some of its amounts and not yet all of them. *)
HalfWrittenPc ==
  {"lines", "payStatus", "payTotals", "editInsert", "editLinks", "editPatch"}

(* A request that links packages, or releases them for good. *)
LinkPc == TryPc \cup UndoPc \cup EditPc
            \cup {"linkCheck", "linkPost", "voidStatus", "stamp", "release"}

(* Invoices that two requests at a call of P work on. *)
Overlapped(P) ==
  {i \in Invoice : \E r, s \in Req : /\ r # s
                                     /\ loc[r].inv = i /\ pc[r] \in P
                                     /\ loc[s].inv = i /\ pc[s] \in P}

(* syncPackageLinks throws on a package that was linked meanwhile, after    *)
(* the lines were replaced and before the total is written.                 *)
LinkRefused(r) == pc[r] = "editLinks" /\ loc[r].want # {} /\ pc'[r] = "idle"

BooksInit == Init /\ mixed = {} /\ leaky = {}

(* A step of the code. *)
Proceeds(r) ==
  /\ Continue(r) \/ Arrive(r)
  /\ mixed' = mixed \cup Overlapped(AmountPc)' \cup {i \in {loc[r].inv} : LinkRefused(r)}
  /\ leaky' = leaky \cup Overlapped(LinkPc)'

(* A failing call, or the end of the Worker. *)
Stops(r) ==
  /\ Fail(r)
  /\ mixed' = mixed \cup {i \in {loc[r].inv} : pc[r] \in HalfWrittenPc}
  /\ leaky' = leaky \cup {i \in {loc[r].inv} : pc[r] = "release"}

BooksNext == \E r \in Req : Proceeds(r) \/ Stops(r)

BooksSpec == BooksInit /\ [][BooksNext]_booksVars

-----------------------------------------------------------------------------
(* 20260711140000: total = sum(line_items.total), "maintained on every      *)
(* write", hence true whenever no request is working on the invoice.  Void, *)
(* archive, close and link may have run beside the request that wrote it.   *)
TotalIsSumOfLines ==
  \A i \in Existing \ mixed : AtRest(i) => total[i] = LinesTotal(i)

(* 20260711140000: paid_usd = sum(payments.amount_usd), likewise; and what- *)
(* ever overlaps or fails, paid_usd never claims more than was paid.        *)
PaidIsSumOfPayments ==
  \A i \in Invoice :
    /\ paidUsd[i] <= payments[i]
    /\ AtRest(i) /\ i \notin mixed => paidUsd[i] = payments[i]

(* applyPayment: at rest the workflow status is the one that the lines and  *)
(* the payments in the tables call for, also after a void or a close that   *)
(* came between the calls of a payment or of an edit.                       *)
StatusMatchesMoney ==
  \A i \in Existing \ mixed :
    AtRest(i) => status[i] = ComputeStatus(status[i], LinesTotal(i), payments[i])

(* voidInvoice / archiveInvoice: an invoice that ended holds no package at  *)
(* rest, so that all of them can be invoiced again.  linkPackage looks at   *)
(* closed_at only: a voided draft may be given a package.                   *)
Ended(i) ==
  \/ archived[i]
  \/ status[i] = "VOID" /\ (closed[i] \/ "link" \notin Ops)

DeadHoldsNothing ==
  \A i \in Invoice \ leaky : AtRest(i) /\ Ended(i) => Active(i) = {}
=============================================================================
