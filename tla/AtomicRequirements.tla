------------------------- MODULE AtomicRequirements -------------------------
(***************************************************************************)
(* "Factura atomica o revertida": what a creation leaves behind, once      *)
(* nobody works on the invoice any more.  The code keeps the promise       *)
(* unless a fault stops the creation where nothing compensates for it:     *)
(* the Worker is cut off, or a write of rollbackPartialInvoice fails, which *)
(* it logs and swallows ("best effort").  The history variable stranded    *)
(* collects the invoices this has happened to, so that the promise is      *)
(* stated for all the others under every fault.  It is added to the steps  *)
(* of BillingService and restricts none of them.                           *)
(***************************************************************************)
EXTENDS BillingRequirements

VARIABLE stranded   \* invoices whose creation was stopped without compensation

atomicVars == <<vars, stranded>>

AtomicInit == Init /\ stranded = {}

(* A step of the code, and a failing call that it compensates for. *)
Proceeds(r) == (Continue(r) \/ Arrive(r) \/ CreateCallFails(r)) /\ UNCHANGED stranded

(* A fault that ends the request. *)
Stops(r) ==
  /\ CallFails(r) \/ Crash(r)
  /\ stranded' = stranded \cup {i \in {loc[r].inv} : pc[r] \in TryPc \cup UndoPc}

AtomicNext == \E r \in Req : Proceeds(r) \/ Stops(r)

AtomicSpec == AtomicInit /\ [][AtomicNext]_atomicVars

(* The runtime runs an accepted request on; nobody has to send one. *)
AtomicFairSpec ==
  AtomicSpec /\ \A r \in Req : WF_atomicVars(Continue(r) /\ UNCHANGED stranded)

-----------------------------------------------------------------------------
(* When no request is working on it, a live invoice has its lines and an    *)
(* active link for every package they bill, unless its creation was         *)
(* stranded: createInvoice and createBulkInvoice against each other, against *)
(* closing, voiding, archiving and linking, whichever of their calls fail.  *)
WholeOrReverted ==
  \A i \in Invoice \ stranded :
    AtRest(i) /\ Live(i) => lines[i] # {} /\ Billed(i) \subseteq Active(i)

(* No package is charged on two live invoices at rest, unless the creation  *)
(* of one of them was stranded after it had inserted its lines.             *)
NoDoubleBilling ==
  \A i, j \in Invoice \ stranded :
    /\ AtRest(i) /\ Live(i)
    /\ AtRest(j) /\ Live(j)
    /\ i # j
    => Billed(i) \cap Billed(j) = {}

(* rollbackPartialInvoice: a creation, whichever of its calls fail, ends    *)
(* with a whole invoice, with an archived one that holds no package, or     *)
(* stranded, and never stays under way.                                     *)
BeingCreated(i) == \E r \in Req : loc[r].inv = i /\ pc[r] \in TryPc \cup UndoPc

CreationSettles ==
  \A i \in Invoice :
    status[i] # "ABSENT" ~>
      /\ ~BeingCreated(i)
      /\ \/ i \in stranded
         \/ archived[i] /\ Active(i) = {}
         \/ ~archived[i] /\ lines[i] # {} /\ Billed(i) \subseteq Active(i)
=============================================================================
