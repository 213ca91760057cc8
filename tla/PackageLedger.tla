---------------------------- MODULE PackageLedger ----------------------------
(***************************************************************************)
(* What invoicing promises about packages, whatever the requests, races    *)
(* and failures: a package is held by at most one invoice, an invoice      *)
(* takes a batch of free packages in one step or not at all, and a package *)
(* goes from one invoice to another only by being released first.          *)
(***************************************************************************)
CONSTANTS Invoice, Package, NoInvoice

VARIABLE holder   \* the invoice that bills each package now

Init == holder = [p \in Package |-> NoInvoice]

Claim(i, P) ==
  /\ \A p \in P : holder[p] = NoInvoice
  /\ holder' = [p \in Package |-> IF p \in P THEN i ELSE holder[p]]

Release(i, P) ==
  /\ \A p \in P : holder[p] = i
  /\ holder' = [p \in Package |-> IF p \in P THEN NoInvoice ELSE holder[p]]

Next == \E i \in Invoice, P \in SUBSET Package : Claim(i, P) \/ Release(i, P)

Spec == Init /\ [][Next]_holder
=============================================================================
