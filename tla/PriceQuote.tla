------------------------------ MODULE PriceQuote ------------------------------
(***************************************************************************)
(* A line is priced while the agency edits its rates: the defaults of the    *)
(* client, then the cards and the tables in two calls at once, then          *)
(* resolveOrgRate (billing/catalog/catalog.ts; createInvoice and             *)
(* previewBulkPackages of the billing service).  AgencyRates makes the edits. *)
(***************************************************************************)
EXTENDS AgencyRates

VARIABLES
  step,    \* where the request that prices the line is
  bill,    \* what it was asked for, and what it has read
  charge,  \* whose price the line got
  steady   \* history: cards that have priced since the request began

quoteVars == <<step, bill, charge, steady>>
allVars == <<vars, quoteVars>>

Kind == {"invoice", "bulk"}
Step == {"idle", "card", "table", "rates", "priced"}
Source == Card \cup Table \cup {"catalog"}

Bill == [kind : Kind, freight : Freight, tier : Tier, rate : Card \cup Table \cup {None},
         got : SUBSET {"cards", "tables"},
         cards : SUBSET Card, whole : SUBSET Card, tables : SUBSET Table]
NoBill == [kind |-> "invoice", freight |-> "AIR", tier |-> Regular, rate |-> None,
           got |-> {}, cards |-> {}, whole |-> {}, tables |-> {}]

Whole == {c \in Card : card[c].stage = "whole"}

QuoteInit ==
  /\ Init
  /\ step = "idle"
  /\ bill = NoBill
  /\ charge = None
  /\ steady = {}

(* createInvoice, updateInvoice: any tier, and the panel may name a rate. The *)
(* bulk flow prices at the regular tier.                                     *)
BillPackages(kind, f, t, rate) ==
  /\ step = "idle"
  /\ kind = "bulk" => t = Regular /\ rate = None
  /\ step' = "card"
  /\ bill' = [NoBill EXCEPT !.kind = kind, !.freight = f, !.tier = t, !.rate = rate]
  /\ UNCHANGED charge

(* An invoice reads the client's row, with both its defaults; the bulk flow   *)
(* asks for the card, and for the table only when there is none.             *)
ReadDefaultCard ==
  /\ step = "card"
  /\ LET rate == IF bill.rate # None THEN bill.rate
                 ELSE IF dfltCard # None THEN dfltCard
                 ELSE IF bill.kind = "invoice" THEN dfltTable["client"]
                 ELSE None
     IN /\ bill' = [bill EXCEPT !.rate = rate]
        /\ step' = IF bill.kind = "bulk" /\ rate = None THEN "table" ELSE "rates"
  /\ UNCHANGED charge

ReadDefaultTable ==
  /\ step = "table"
  /\ bill' = [bill EXCEPT !.rate = dfltTable["client"]]
  /\ step' = "rates"
  /\ UNCHANGED charge

GetOrgRateCards ==
  /\ step = "rates" /\ "cards" \notin bill.got
  /\ bill' = [bill EXCEPT !.got = @ \cup {"cards"},
                          !.cards = {c \in Card : There(c)}, !.whole = Whole]
  /\ UNCHANGED <<step, charge>>

GetOrgRates ==
  /\ step = "rates" /\ "tables" \notin bill.got
  /\ bill' = [bill EXCEPT !.got = @ \cup {"tables"},
       !.tables = {t \in Table : /\ TableThere(t)
                                 /\ table[t].freight = bill.freight
                                 /\ bill.tier \in table[t].rows}]
  /\ UNCHANGED <<step, charge>>

(* Mutant: the tables are asked first. *)
BugResolveOrgRate(b) ==
  IF b.rate \in b.whole \cup b.tables THEN {b.rate}
  ELSE IF b.tables # {} THEN b.tables
  ELSE b.whole

(* The rate named, when it prices the line; any card; any table.  A card of   *)
(* the agency that prices nothing is passed over.  No order is asked for.    *)
ResolveOrgRate(b) ==
  IF b.rate \in b.whole \cup b.tables THEN {b.rate}
  ELSE IF b.whole # {} THEN b.whole
  ELSE b.tables

(* quoteOrg: an agency without cards falls back on the global catalog, which  *)
(* prices the regular tier and maybe not the other one.                      *)
QuoteOrg(b) ==
  IF ResolveOrgRate(b) # {} THEN ResolveOrgRate(b)
  ELSE IF b.cards # {} THEN {None}
  ELSE IF b.tier = Regular THEN {"catalog"} ELSE {"catalog", None}

(* An invoice whose line has no price is refused; the bulk preview goes on    *)
(* with None, a line of zero.                                                *)
Price ==
  /\ step = "rates" /\ bill.got = {"cards", "tables"}
  /\ \E q \in QuoteOrg(bill) :
       IF q = None /\ bill.kind = "invoice"
       THEN step' = "idle" /\ bill' = NoBill /\ UNCHANGED charge
       ELSE step' = "priced" /\ charge' = q /\ UNCHANGED bill

(* The line is stored as quoted; or a call throws before that. *)
Answer ==
  /\ step # "idle"
  /\ step' = "idle"
  /\ bill' = NoBill
  /\ charge' = None

-----------------------------------------------------------------------------
Quoting ==
  \/ \E kind \in Kind, f \in Freight, t \in Tier, rate \in {None} \cup Card \cup Table :
       BillPackages(kind, f, t, rate)
  \/ ReadDefaultCard \/ ReadDefaultTable
  \/ GetOrgRateCards \/ GetOrgRates
  \/ Price \/ Answer

Watch == steady' = IF step' = "idle" THEN {}
                   ELSE (IF step = "idle" THEN Card ELSE steady) \cap Whole'

QuoteNext ==
  \/ Next /\ UNCHANGED <<step, bill, charge>> /\ Watch
  \/ Quoting /\ UNCHANGED vars /\ Watch

QuoteSpec == QuoteInit /\ [][QuoteNext]_allVars

-----------------------------------------------------------------------------
QuoteTypeOK ==
  /\ TypeOK
  /\ step \in Step
  /\ bill \in Bill
  /\ charge \in Source \cup {None}
  /\ steady \subseteq Card

(* Whatever the agency edits meanwhile, a line is charged by the rate its     *)
(* request resolved when that is a card with prices all along, and never by   *)
(* another table or the catalog while some card has prices all along         *)
(* (catalog.ts 35-71).                                                       *)
ChargedOwnPrice ==
  step = "priced" =>
    /\ bill.rate \in steady => charge = bill.rate
    /\ steady # {} => charge \in Card \cup ({bill.rate} \cap Table)
=============================================================================
