------------------------------- MODULE MCIngest -------------------------------
(* Instances of IngestRequirements for TLC.  Two couriers: "everest" has one *)
(* tenant and a mailbox filter, "gc" is shared by a default tenant "hit" and *)
(* a tenant with a prefix.                                                   *)
EXTENDS IngestRequirements

TwoMailboxes == [p \in {"everest", "gc"} |-> IF p = "everest" THEN "37458" ELSE NoMailbox]
OneMailbox == [p \in {"gc"} |-> NoMailbox]

Everest == [prov |-> "everest", org |-> "hit", filter |-> {"37458"}]
Default == [prov |-> "gc", org |-> "hit", filter |-> {}]
Suite == [prov |-> "gc", org |-> "suite", filter |-> {"8899"}]

SharedLinks == {Everest, Default, Suite}
JustDefault == {Default}

FirstInactive == {<<"hit", "g1">>}
=============================================================================
