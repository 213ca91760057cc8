------------------------------- MODULE RedisGate -------------------------------
(***************************************************************************)
(* The two counters in Redis that stand before the public tracking page and  *)
(* the panel's refresh button (ratelimit.ts, routes/track.ts,                *)
(* routes/staff.ts).                                                         *)
(*                                                                         *)
(* Both count with INCR and, after the first hit, EXPIRE: two calls.  The    *)
(* limiter has a key per address and minute, the cooldown one per guide.  A  *)
(* counter of 0 is a key that is absent.  An answer with an error status is  *)
(* an exception for INCR and is ignored for EXPIRE; on an exception both     *)
(* let the request through.  The key of a minute lives at least until that   *)
(* minute is over, because its 60 seconds start within it.                   *)
(*                                                                         *)
(* Only reads follow for a tracking request; what the refresh does next is   *)
(* a job "one" or "any" of PackageIngest.                                    *)
(***************************************************************************)
EXTENDS Naturals, FiniteSets

CONSTANTS
  Request,   \* requests under way at the same time
  Ip, Guia,
  Limit,     \* requests of an address per minute
  Faults,    \* "call": a call throws, done or not; "lost": EXPIRE is not done
             \* and answers with an error; "cut": the Worker dies
  MaxNow,    \* bound: minutes
  MaxAsked,  \* bound: requests of one address in one minute
  MaxCool    \* bound: hits of a cooldown key

ASSUME GateAssumption ==
  /\ IsFiniteSet(Request)
  /\ Limit \in Nat \ {0}
  /\ {MaxNow, MaxAsked, MaxCool} \subseteq Nat

VARIABLES
  now,      \* floor(nowSec / windowSec)
  hits,     \* rl:track:<ip>:<window>
  hitsTtl,  \* that key expires
  cool,     \* cd:refresh:<guia>
  coolTtl,  \* that key expires
  pc,       \* what each request does next
  loc,      \* its address and minute, or its guide
  asked,    \* history: requests of an address that began in a minute
  served,   \* history: those the limiter counted and let through in it
  admitted, \* history: refreshes the cooldown counted and let through since
            \* its key is there
  hiccup    \* history: a fault hit the two calls on a cooldown key

limiter == <<hits, hitsTtl, asked, served>>
cooldown == <<cool, coolTtl, admitted, hiccup>>
job == <<pc, loc>>
vars == <<now, limiter, cooldown, job>>

Minute == 0..MaxNow
Window == Ip \X Minute

Pc == {"idle", "hit", "hitExpire", "answer", "cool", "coolExpire", "remaining", "scrape"}
Local == {<<>>} \cup Window \cup (Guia \X {"refresh"})

Goto(r, call) == pc' = [pc EXCEPT ![r] = call] /\ UNCHANGED loc

Finish(r) == pc' = [pc EXCEPT ![r] = "idle"] /\ loc' = [loc EXCEPT ![r] = <<>>]

guia(r) == loc[r][1]

(* Mutant: one key per address. *)
BugKey(ip, minute) == <<ip, 0>>

(* rl:track:<ip>:<window> *)
Key(ip, minute) == <<ip, minute>>

key(r) == Key(loc[r][1], loc[r][2])

-----------------------------------------------------------------------------
Init ==
  /\ now = 0
  /\ hits = [k \in Window |-> 0] /\ hitsTtl = [k \in Window |-> FALSE]
  /\ cool = [g \in Guia |-> 0] /\ coolTtl = [g \in Guia |-> FALSE]
  /\ pc = [r \in Request |-> "idle"]
  /\ loc = [r \in Request |-> <<>>]
  /\ asked = [k \in Window |-> 0] /\ served = [k \in Window |-> 0]
  /\ admitted = [g \in Guia |-> 0] /\ hiccup = [g \in Guia |-> FALSE]

(* GET /track/:id with a tenant that resolveTrackOrg accepts.  The limiter   *)
(* reads the clock first.                                                    *)
Track(r, ip) ==
  /\ pc[r] = "idle"
  /\ asked[<<ip, now>>] < MaxAsked
  /\ pc' = [pc EXCEPT ![r] = "hit"]
  /\ loc' = [loc EXCEPT ![r] = <<ip, now>>]
  /\ asked' = [asked EXCEPT ![<<ip, now>>] = @ + 1]
  /\ UNCHANGED <<now, hits, hitsTtl, served, cooldown>>

(* INCR, and the verdict on its answer. *)
Hit(r) ==
  /\ pc[r] = "hit"
  /\ LET count == hits[key(r)] + 1
     IN /\ hits' = [hits EXCEPT ![key(r)] = count]
        /\ IF count <= Limit /\ loc[r][2] = now
           THEN served' = [served EXCEPT ![loc[r]] = @ + 1]
           ELSE UNCHANGED served
        /\ IF count = 1 THEN Goto(r, "hitExpire")
           ELSE IF count <= Limit THEN Goto(r, "answer") ELSE Finish(r)
  /\ UNCHANGED <<now, hitsTtl, asked, cooldown>>

(* The count is 1, which no limit refuses. *)
HitExpire(r) ==
  /\ pc[r] = "hitExpire"
  /\ hitsTtl' = [hitsTtl EXCEPT ![key(r)] = hits[key(r)] > 0]
  /\ Goto(r, "answer")
  /\ UNCHANGED <<now, hits, asked, served, cooldown>>

HitExpireLost(r) ==
  /\ Faults \cap {"lost", "call"} # {}
  /\ pc[r] = "hitExpire"
  /\ Goto(r, "answer")
  /\ UNCHANGED <<now, limiter, cooldown>>

(* Fail open, whether the count was taken or not. *)
HitFails(r) ==
  /\ "call" \in Faults
  /\ pc[r] = "hit"
  /\ \E done \in {0, 1} : hits' = [hits EXCEPT ![key(r)] = @ + done]
  /\ Goto(r, "answer")
  /\ UNCHANGED <<now, hitsTtl, asked, served, cooldown>>

(* The package by guide, else by tracking number, and its events. *)
Answer(r) ==
  /\ pc[r] = "answer"
  /\ Finish(r)
  /\ UNCHANGED <<now, limiter, cooldown>>

-----------------------------------------------------------------------------
(* POST /staff/packages/:guia/refresh by an admin. *)
Refresh(r, g) ==
  /\ pc[r] = "idle"
  /\ cool[g] < MaxCool
  /\ pc' = [pc EXCEPT ![r] = "cool"]
  /\ loc' = [loc EXCEPT ![r] = <<g, "refresh">>]
  /\ UNCHANGED <<now, limiter, cooldown>>

(* Mutant: the key never gets its expiry. *)
BugCool(r) ==
  /\ pc[r] = "cool"
  /\ cool' = [cool EXCEPT ![guia(r)] = @ + 1]
  /\ IF cool[guia(r)] = 0
     THEN /\ Goto(r, "scrape")
          /\ admitted' = [admitted EXCEPT ![guia(r)] = @ + 1]
     ELSE Goto(r, "remaining") /\ UNCHANGED admitted
  /\ UNCHANGED <<now, limiter, coolTtl, hiccup>>

(* Mutant: read and written back instead of counted; the second of two that  *)
(* read 0 is let through as well.                                            *)
BugCoolRead(r) ==
  /\ pc[r] = "cool"
  /\ cool' = [cool EXCEPT ![guia(r)] = @ + 1]
  /\ IF cool[guia(r)] = 0 \/ \E s \in Request \ {r} : loc[s] = loc[r] /\ pc[s] = "coolExpire"
     THEN /\ Goto(r, "coolExpire")
          /\ admitted' = [admitted EXCEPT ![guia(r)] = @ + 1]
     ELSE Goto(r, "remaining") /\ UNCHANGED admitted
  /\ UNCHANGED <<now, limiter, coolTtl, hiccup>>

Cool(r) ==
  /\ pc[r] = "cool"
  /\ cool' = [cool EXCEPT ![guia(r)] = @ + 1]
  /\ IF cool[guia(r)] = 0
     THEN /\ Goto(r, "coolExpire")
          /\ admitted' = [admitted EXCEPT ![guia(r)] = @ + 1]
     ELSE Goto(r, "remaining") /\ UNCHANGED admitted
  /\ UNCHANGED <<now, limiter, coolTtl, hiccup>>

CoolExpire(r) ==
  /\ pc[r] = "coolExpire"
  /\ coolTtl' = [coolTtl EXCEPT ![guia(r)] = cool[guia(r)] > 0]
  /\ Goto(r, "scrape")
  /\ UNCHANGED <<now, limiter, cool, admitted, hiccup>>

CoolExpireLost(r) ==
  /\ Faults \cap {"lost", "call"} # {}
  /\ pc[r] = "coolExpire"
  /\ hiccup' = [hiccup EXCEPT ![guia(r)] = TRUE]
  /\ Goto(r, "scrape")
  /\ UNCHANGED <<now, limiter, cool, coolTtl, admitted>>

CoolFails(r) ==
  /\ "call" \in Faults
  /\ pc[r] = "cool"
  /\ \E done \in {0, 1} : cool' = [cool EXCEPT ![guia(r)] = @ + done]
  /\ hiccup' = [hiccup EXCEPT ![guia(r)] = TRUE]
  /\ Goto(r, "scrape")
  /\ UNCHANGED <<now, limiter, coolTtl, admitted>>

(* Refused, with the time that remains. *)
Remaining(r) ==
  /\ pc[r] = "remaining"
  /\ Finish(r)
  /\ UNCHANGED <<now, limiter, cooldown>>

(* The TTL is read inside the try: an exception there lets the request in.   *)
RemainingFails(r) ==
  /\ "call" \in Faults
  /\ pc[r] = "remaining"
  /\ Goto(r, "scrape")
  /\ UNCHANGED <<now, limiter, cooldown>>

(* ingestOne or ingestOneAnyProvider, found or not; the cooldown is spent.   *)
ScrapeDone(r) ==
  /\ pc[r] = "scrape"
  /\ Finish(r)
  /\ UNCHANGED <<now, limiter, cooldown>>

Cut(r) ==
  /\ "cut" \in Faults
  /\ pc[r] # "idle"
  /\ Finish(r)
  /\ hiccup' = IF pc[r] = "coolExpire" THEN [hiccup EXCEPT ![guia(r)] = TRUE] ELSE hiccup
  /\ UNCHANGED <<now, limiter, cool, coolTtl, admitted>>

-----------------------------------------------------------------------------
(* Time. *)

NextMinute ==
  /\ now < MaxNow
  /\ now' = now + 1
  /\ UNCHANGED <<limiter, cooldown, job>>

(* Mutant: a key expires within its minute. *)
BugHitsExpire(k) ==
  /\ hitsTtl[k]
  /\ hits' = [hits EXCEPT ![k] = 0]
  /\ hitsTtl' = [hitsTtl EXCEPT ![k] = FALSE]
  /\ UNCHANGED <<now, asked, served, cooldown, job>>

HitsExpire(k) ==
  /\ hitsTtl[k] /\ k[2] < now
  /\ hits' = [hits EXCEPT ![k] = 0]
  /\ hitsTtl' = [hitsTtl EXCEPT ![k] = FALSE]
  /\ UNCHANGED <<now, asked, served, cooldown, job>>

(* Mutant: the count starts over and keeps the time it had. *)
BugCoolKeyExpires(g) ==
  /\ coolTtl[g]
  /\ cool' = [cool EXCEPT ![g] = 0]
  /\ admitted' = [admitted EXCEPT ![g] = 0]
  /\ UNCHANGED <<now, limiter, coolTtl, hiccup, job>>

CoolKeyExpires(g) ==
  /\ coolTtl[g]
  /\ cool' = [cool EXCEPT ![g] = 0]
  /\ coolTtl' = [coolTtl EXCEPT ![g] = FALSE]
  /\ admitted' = [admitted EXCEPT ![g] = 0]
  /\ UNCHANGED <<now, limiter, hiccup, job>>

-----------------------------------------------------------------------------
Start(r) ==
  \/ \E ip \in Ip : Track(r, ip)
  \/ \E g \in Guia : Refresh(r, g)

Continue(r) ==
  \/ Hit(r) \/ HitExpire(r) \/ Answer(r)
  \/ Cool(r) \/ CoolExpire(r) \/ Remaining(r) \/ ScrapeDone(r)

Fault(r) ==
  \/ HitExpireLost(r) \/ HitFails(r)
  \/ CoolExpireLost(r) \/ CoolFails(r) \/ RemainingFails(r) \/ Cut(r)

Next ==
  \/ \E r \in Request : Start(r) \/ Continue(r) \/ Fault(r)
  \/ NextMinute
  \/ \E k \in Window : HitsExpire(k)
  \/ \E g \in Guia : CoolKeyExpires(g)

Spec == Init /\ [][Next]_vars

(* A request that was accepted goes on, and Redis expires what has a TTL. *)
FairSpec ==
  /\ Spec
  /\ \A r \in Request : WF_vars(Continue(r))
  /\ \A g \in Guia : WF_vars(CoolKeyExpires(g))

-----------------------------------------------------------------------------
(* Types; a key that expires is there. *)
TypeOK ==
  /\ now \in Minute
  /\ hits \in [Window -> Nat] /\ hitsTtl \in [Window -> BOOLEAN]
  /\ cool \in [Guia -> Nat] /\ coolTtl \in [Guia -> BOOLEAN]
  /\ pc \in [Request -> Pc]
  /\ loc \in [Request -> Local]
  /\ asked \in [Window -> Nat] /\ served \in [Window -> Nat]
  /\ admitted \in [Guia -> Nat] /\ hiccup \in [Guia -> BOOLEAN]
  /\ \A k \in Window : hitsTtl[k] => hits[k] > 0
  /\ \A g \in Guia : coolTtl[g] => cool[g] > 0

(* In one minute no more than Limit requests of an address are let through   *)
(* by the count, whatever calls fail, get lost or come late (track.ts,       *)
(* "Per-IP rate limit").  Those that fail open are not counted.              *)
LimitPerWindow == \A k \in Window : served[k] <= Limit

(* An address is refused only for what it asked for in that same minute:     *)
(* a key that lost its expiry never carries over (ratelimit.ts 26-32).       *)
RefusedForCause ==
  [][\A r \in Request :
       pc[r] = "hit" /\ pc'[r] = "idle" /\ hits' # hits => asked[loc[r]] > Limit]_vars

(* A guide is refreshed once per cooldown, however many panels ask at once,  *)
(* but for the requests that fail open (staff.ts 10-12, 33-35).              *)
OneRefreshPerCooldown == \A g \in Guia : admitted[g] <= 1

(* A guide that was refreshed can be refreshed again later, unless a fault   *)
(* hit INCR or EXPIRE: then the key stays for ever (ratelimit.ts 87-88).     *)
CooldownEnds == \A g \in Guia : (cool[g] > 0) ~> (cool[g] = 0 \/ hiccup[g])
=============================================================================
