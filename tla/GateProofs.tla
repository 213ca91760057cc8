------------------------------ MODULE GateProofs ------------------------------
(***************************************************************************)
(* Theorems about RedisGate for every set of requests, addresses and guides, *)
(* every limit and every fault.                                              *)
(***************************************************************************)
EXTENDS RedisGate, FiniteSetTheorems, TLAPS

Tracks == {"hit", "hitExpire", "answer"}
Refreshes == {"cool", "coolExpire", "remaining", "scrape"}

(* What a request remembers fits what it does. *)
LocFits == \A r \in Request : /\ pc[r] \in Tracks => loc[r] \in Window
                              /\ pc[r] \in Refreshes => loc[r] \in Guia \X {"refresh"}

Counts ==
  /\ \A k \in Window : served[k] <= Limit /\ (k[2] >= now => served[k] <= hits[k])
  /\ \A g \in Guia : admitted[g] <= 1 /\ (cool[g] = 0 => admitted[g] = 0)

GateInv == TypeOK /\ LocFits /\ Counts

LEMMA LocKey ==
  ASSUME TypeOK, LocFits, NEW r \in Request, pc[r] \in Tracks
  PROVE  /\ loc[r] \in Window /\ key(r) = loc[r]
         /\ loc[r][2] \in Minute /\ loc[r][2] \in Nat
BY GateAssumption DEF LocFits, Window, key, Key, Minute

LEMMA LocGuia ==
  ASSUME TypeOK, LocFits, NEW r \in Request, pc[r] \in Refreshes
  PROVE  guia(r) \in Guia
BY DEF LocFits, guia

(* A request that moves on keeps what it remembers; one that ends forgets it.*)
LEMMA GotoFits ==
  ASSUME TypeOK, LocFits, NEW r \in Request, NEW c \in Pc,
         \/ Goto(r, c) /\ {pc[r], c} \subseteq Tracks
         \/ Goto(r, c) /\ {pc[r], c} \subseteq Refreshes
         \/ Finish(r)
  PROVE  pc' \in [Request -> Pc] /\ loc' \in [Request -> Local] /\ LocFits'
<1>1. pc \in [Request -> Pc] /\ loc \in [Request -> Local]
  BY DEF TypeOK
<1>2. CASE Goto(r, c)
  BY <1>1, <1>2 DEF Goto, LocFits, Tracks, Refreshes, Finish, Local
<1>3. CASE Finish(r)
  BY <1>1, <1>3 DEF Finish, LocFits, Tracks, Refreshes, Pc, Local
<1>4. QED
  BY <1>2, <1>3

THEOREM GateInitially == Init => GateInv
<1> SUFFICES ASSUME Init PROVE GateInv
  OBVIOUS
<1>1. TypeOK
  BY GateAssumption DEF Init, TypeOK, Minute, Pc, Local
<1>2. LocFits
  BY DEF Init, LocFits, Tracks, Refreshes
<1>3. Counts
  BY GateAssumption DEF Init, Counts, Window, Minute
<1>4. QED
  BY <1>1, <1>2, <1>3 DEF GateInv

(* The calls of the limiter. *)
LEMMA TrackingKeeps ==
  ASSUME GateInv, NEW r \in Request,
         \/ \E ip \in Ip : Track(r, ip)
         \/ Hit(r) \/ HitExpire(r) \/ HitExpireLost(r) \/ HitFails(r) \/ Answer(r)
  PROVE  GateInv'
<1> USE GateAssumption DEF GateInv, cooldown, limiter
<1>1. ASSUME NEW ip \in Ip, Track(r, ip) PROVE GateInv'
  <2>1. <<ip, now>> \in Window
    BY DEF TypeOK, Window
  <2>2. TypeOK'
    BY <1>1, <2>1 DEF Track, TypeOK, Pc, Local
  <2>3. LocFits'
    BY <1>1, <2>1 DEF Track, TypeOK, LocFits, Tracks, Refreshes
  <2>4. Counts'
    BY <1>1 DEF Track, Counts
  <2>5. QED
    BY <2>2, <2>3, <2>4
<1>2. CASE Hit(r)
  <2> DEFINE count == hits[key(r)] + 1
  <2>1. loc[r] \in Window /\ key(r) = loc[r] /\ loc[r][2] \in Nat
    BY <1>2, LocKey DEF Hit, Tracks
  <2>2. /\ hits' = [hits EXCEPT ![loc[r]] = count] /\ count \in Nat
        /\ served' = IF count <= Limit /\ loc[r][2] = now
                     THEN [served EXCEPT ![loc[r]] = @ + 1] ELSE served
    BY <1>2, <2>1 DEF Hit, TypeOK
  <2>3. pc' \in [Request -> Pc] /\ loc' \in [Request -> Local] /\ LocFits'
    BY <1>2, GotoFits DEF Hit, Tracks, Pc
  <2>4. TypeOK'
    BY <1>2, <2>1, <2>2, <2>3 DEF Hit, TypeOK
  <2>5. Counts'
    BY <1>2, <2>1, <2>2 DEF Hit, TypeOK, Counts, Window, Minute
  <2>6. QED
    BY <2>3, <2>4, <2>5
<1>3. CASE HitExpire(r)
  <2>1. loc[r] \in Window /\ key(r) = loc[r]
    BY <1>3, LocKey DEF HitExpire, Tracks
  <2>2. pc' \in [Request -> Pc] /\ loc' \in [Request -> Local] /\ LocFits'
    BY <1>3, GotoFits DEF HitExpire, Tracks, Pc
  <2>3. QED
    BY <1>3, <2>1, <2>2 DEF HitExpire, TypeOK, Counts
<1>4. CASE HitExpireLost(r)
  <2>1. pc' \in [Request -> Pc] /\ loc' \in [Request -> Local] /\ LocFits'
    BY <1>4, GotoFits DEF HitExpireLost, Tracks, Pc
  <2>2. QED
    BY <1>4, <2>1 DEF HitExpireLost, TypeOK, Counts
<1>5. CASE HitFails(r)
  <2>1. loc[r] \in Window /\ key(r) = loc[r]
    BY <1>5, LocKey DEF HitFails, Tracks
  <2>2. pc' \in [Request -> Pc] /\ loc' \in [Request -> Local] /\ LocFits'
    BY <1>5, GotoFits DEF HitFails, Tracks, Pc
  <2>3. PICK done \in {0, 1} : hits' = [hits EXCEPT ![loc[r]] = @ + done]
    BY <1>5, <2>1 DEF HitFails
  <2>4. hits' \in [Window -> Nat] /\ \A k \in Window : hits'[k] >= hits[k]
    BY <2>1, <2>3 DEF TypeOK
  <2>5. TypeOK'
    BY <1>5, <2>2, <2>4 DEF HitFails, TypeOK
  <2>6. Counts'
    BY <1>5, <2>4 DEF HitFails, TypeOK, Counts
  <2>7. QED
    BY <2>2, <2>5, <2>6
<1>6. CASE Answer(r)
  <2>1. pc' \in [Request -> Pc] /\ loc' \in [Request -> Local] /\ LocFits'
    BY <1>6, GotoFits DEF Answer, Pc
  <2>2. QED
    BY <1>6, <2>1 DEF Answer, TypeOK, Counts
<1>7. QED
  BY <1>1, <1>2, <1>3, <1>4, <1>5, <1>6

(* The calls of the cooldown. *)
LEMMA RefreshingKeeps ==
  ASSUME GateInv, NEW r \in Request,
         \/ \E g \in Guia : Refresh(r, g)
         \/ Cool(r) \/ CoolExpire(r) \/ CoolExpireLost(r) \/ CoolFails(r)
         \/ Remaining(r) \/ RemainingFails(r) \/ ScrapeDone(r)
  PROVE  GateInv'
<1> USE GateAssumption DEF GateInv, cooldown, limiter
<1>1. ASSUME NEW g \in Guia, Refresh(r, g) PROVE GateInv'
  <2>1. TypeOK'
    BY <1>1 DEF Refresh, TypeOK, Pc, Local
  <2>2. LocFits'
    BY <1>1 DEF Refresh, TypeOK, LocFits, Tracks, Refreshes
  <2>3. QED
    BY <1>1, <2>1, <2>2 DEF Refresh, Counts
<1>2. CASE Cool(r)
  <2>1. guia(r) \in Guia
    BY <1>2, LocGuia DEF Cool, Refreshes
  <2>2. pc' \in [Request -> Pc] /\ loc' \in [Request -> Local] /\ LocFits'
    BY <1>2, GotoFits DEF Cool, Refreshes, Pc
  <2>3. admitted' = IF cool[guia(r)] = 0 THEN [admitted EXCEPT ![guia(r)] = @ + 1] ELSE admitted
    BY <1>2 DEF Cool
  <2>4. TypeOK'
    BY <1>2, <2>1, <2>2, <2>3 DEF Cool, TypeOK
  <2>5. Counts'
    BY <1>2, <2>1, <2>3 DEF Cool, TypeOK, Counts
  <2>6. QED
    BY <2>2, <2>4, <2>5
<1>3. CASE CoolExpire(r)
  <2>1. pc' \in [Request -> Pc] /\ loc' \in [Request -> Local] /\ LocFits'
    BY <1>3, GotoFits DEF CoolExpire, Refreshes, Pc
  <2>2. guia(r) \in Guia
    BY <1>3, LocGuia DEF CoolExpire, Refreshes
  <2>3. QED
    BY <1>3, <2>1, <2>2 DEF CoolExpire, TypeOK, Counts
<1>4. CASE CoolExpireLost(r)
  <2>1. pc' \in [Request -> Pc] /\ loc' \in [Request -> Local] /\ LocFits'
    BY <1>4, GotoFits DEF CoolExpireLost, Refreshes, Pc
  <2>2. QED
    BY <1>4, <2>1 DEF CoolExpireLost, TypeOK, Counts
<1>5. CASE CoolFails(r)
  <2>1. guia(r) \in Guia
    BY <1>5, LocGuia DEF CoolFails, Refreshes
  <2>2. pc' \in [Request -> Pc] /\ loc' \in [Request -> Local] /\ LocFits'
    BY <1>5, GotoFits DEF CoolFails, Refreshes, Pc
  <2>3. PICK done \in {0, 1} : cool' = [cool EXCEPT ![guia(r)] = @ + done]
    BY <1>5 DEF CoolFails
  <2>4. cool' \in [Guia -> Nat] /\ \A g \in Guia : cool'[g] >= cool[g]
    BY <2>1, <2>3 DEF TypeOK
  <2>5. TypeOK'
    BY <1>5, <2>2, <2>4 DEF CoolFails, TypeOK
  <2>6. Counts'
    BY <1>5, <2>4 DEF CoolFails, TypeOK, Counts
  <2>7. QED
    BY <2>2, <2>5, <2>6
<1>6. CASE Remaining(r)
  <2>1. pc' \in [Request -> Pc] /\ loc' \in [Request -> Local] /\ LocFits'
    BY <1>6, GotoFits DEF Remaining, Pc
  <2>2. QED
    BY <1>6, <2>1 DEF Remaining, TypeOK, Counts
<1>7. CASE RemainingFails(r)
  <2>1. pc' \in [Request -> Pc] /\ loc' \in [Request -> Local] /\ LocFits'
    BY <1>7, GotoFits DEF RemainingFails, Refreshes, Pc
  <2>2. QED
    BY <1>7, <2>1 DEF RemainingFails, TypeOK, Counts
<1>8. CASE ScrapeDone(r)
  <2>1. pc' \in [Request -> Pc] /\ loc' \in [Request -> Local] /\ LocFits'
    BY <1>8, GotoFits DEF ScrapeDone, Pc
  <2>2. QED
    BY <1>8, <2>1 DEF ScrapeDone, TypeOK, Counts
<1>9. QED
  BY <1>1, <1>2, <1>3, <1>4, <1>5, <1>6, <1>7, <1>8

(* A request that is cut, the clock, and the keys that expire. *)
LEMMA OthersKeep ==
  ASSUME GateInv,
         \/ \E r \in Request : Cut(r)
         \/ NextMinute
         \/ \E k \in Window : HitsExpire(k)
         \/ \E g \in Guia : CoolKeyExpires(g)
         \/ UNCHANGED vars
  PROVE  GateInv'
<1> USE GateAssumption DEF GateInv, cooldown, limiter, job
<1>1. ASSUME NEW r \in Request, Cut(r) PROVE GateInv'
  <2>1. pc' \in [Request -> Pc] /\ loc' \in [Request -> Local] /\ LocFits'
    BY <1>1, GotoFits DEF Cut, Pc
  <2>2. QED
    BY <1>1, <2>1 DEF Cut, TypeOK, Counts
<1>2. CASE NextMinute
  BY <1>2 DEF NextMinute, TypeOK, LocFits, Counts, Minute, Window
<1>3. ASSUME NEW k \in Window, HitsExpire(k) PROVE GateInv'
  <2>1. TypeOK' /\ LocFits'
    BY <1>3 DEF HitsExpire, TypeOK, LocFits
  <2>2. Counts'
    BY <1>3 DEF HitsExpire, TypeOK, Counts, Window, Minute
  <2>3. QED
    BY <2>1, <2>2
<1>4. ASSUME NEW g \in Guia, CoolKeyExpires(g) PROVE GateInv'
  BY <1>4 DEF CoolKeyExpires, TypeOK, LocFits, Counts
<1>5. CASE UNCHANGED vars
  BY <1>5 DEF vars, TypeOK, LocFits, Counts
<1>6. QED
  BY <1>1, <1>2, <1>3, <1>4, <1>5

THEOREM GateStep == GateInv /\ [Next]_vars => GateInv'
<1> SUFFICES ASSUME GateInv, [Next]_vars PROVE GateInv'
  OBVIOUS
<1>1. ASSUME NEW r \in Request, Start(r) \/ Continue(r) \/ Fault(r) PROVE GateInv'
  BY <1>1, TrackingKeeps, RefreshingKeeps, OthersKeep DEF Start, Continue, Fault
<1>2. QED
  BY <1>1, OthersKeep DEF Next

(* In every behaviour the counters, flags and requests have their types, and  *)
(* a key that expires is there.                                              *)
THEOREM GateTypeCorrect == Spec => []TypeOK
<1>1. GateInv => TypeOK
  BY DEF GateInv
<1>2. QED
  BY <1>1, GateInitially, GateStep, PTL DEF Spec

(* The count lets no more than Limit requests of an address through in one    *)
(* minute, whatever fails (track.ts).                                        *)
THEOREM LimitHolds == Spec => []LimitPerWindow
<1>1. GateInv => LimitPerWindow
  BY DEF GateInv, Counts, LimitPerWindow
<1>2. QED
  BY <1>1, GateInitially, GateStep, PTL DEF Spec

(* Of the refreshes of a guide that the cooldown counts, the first gets       *)
(* through until the key expires, however many panels ask (staff.ts).        *)
THEOREM CooldownHolds == Spec => []OneRefreshPerCooldown
<1>1. GateInv => OneRefreshPerCooldown
  BY DEF GateInv, Counts, OneRefreshPerCooldown
<1>2. QED
  BY <1>1, GateInitially, GateStep, PTL DEF Spec

(***************************************************************************)
(* Every hit on a key was asked for in its minute: the requests that have    *)
(* not been counted yet make up the difference.                              *)
(***************************************************************************)
Pending(k) == {r \in Request : pc[r] = "hit" /\ loc[r] = k}

HitsAsked == \A k \in Window : hits[k] + Cardinality(Pending(k)) <= asked[k]

LEMMA PendingFinite ==
  ASSUME NEW k
  PROVE  IsFiniteSet(Pending(k)) /\ Cardinality(Pending(k)) \in Nat
<1>1. IsFiniteSet(Pending(k))
  BY FS_Subset, GateAssumption DEF Pending
<1>2. QED
  BY <1>1, FS_CardinalityType

(* A step that counts nobody and begins no request. *)
LEMMA FewerPending ==
  ASSUME TypeOK, TypeOK', HitsAsked, UNCHANGED asked,
         \A k \in Window : hits'[k] <= hits[k],
         \A r \in Request : pc'[r] = "hit" => pc[r] = "hit" /\ loc'[r] = loc[r]
  PROVE  HitsAsked'
<1> SUFFICES ASSUME NEW k \in Window
             PROVE  hits'[k] + Cardinality(Pending(k)') <= asked'[k]
  BY DEF HitsAsked
<1>1. Pending(k)' \subseteq Pending(k)
  BY DEF Pending
<1>2. /\ Cardinality(Pending(k)') \in Nat
      /\ Cardinality(Pending(k)') <= Cardinality(Pending(k))
      /\ Cardinality(Pending(k)) \in Nat
  BY <1>1, PendingFinite, FS_Subset, FS_CardinalityType
<1>3. hits[k] \in Nat /\ hits'[k] \in Nat /\ asked[k] \in Nat
  BY DEF TypeOK
<1>4. QED
  BY <1>2, <1>3 DEF HitsAsked

LEMMA TrackAsks ==
  ASSUME GateInv, GateInv', HitsAsked, NEW r \in Request, NEW ip \in Ip, Track(r, ip)
  PROVE  HitsAsked'
<1> DEFINE k0 == <<ip, now>>
<1> SUFFICES ASSUME NEW k \in Window
             PROVE  hits'[k] + Cardinality(Pending(k)') <= asked'[k]
  BY DEF HitsAsked
<1>1. k0 \in Window /\ asked' = [asked EXCEPT ![k0] = @ + 1] /\ hits' = hits
  BY DEF Track, GateInv, TypeOK, Window
<1>2. hits[k] \in Nat /\ asked[k] \in Nat /\ hits[k] + Cardinality(Pending(k)) <= asked[k]
  BY DEF GateInv, TypeOK, HitsAsked
<1>3. CASE k = k0
  <2>1. Pending(k)' = Pending(k) \cup {r}
    BY <1>3 DEF Track, GateInv, TypeOK, Pending
  <2>2. Cardinality(Pending(k)') <= Cardinality(Pending(k)) + 1
    BY <2>1, PendingFinite, FS_AddElement, SMTT(30)
  <2>3. Cardinality(Pending(k)) \in Nat /\ Cardinality(Pending(k)') \in Nat
    BY PendingFinite, <2>1, FS_AddElement, FS_CardinalityType
  <2>4. asked'[k] = asked[k] + 1
    BY <1>1, <1>3 DEF GateInv, TypeOK
  <2>5. QED
    BY <1>1, <1>2, <2>2, <2>3, <2>4
<1>4. CASE k # k0
  <2>1. Pending(k)' = Pending(k)
    BY <1>4 DEF Track, GateInv, TypeOK, Pending
  <2>2. QED
    BY <1>1, <1>2, <1>4, <2>1 DEF GateInv, TypeOK
<1>5. QED
  BY <1>3, <1>4

LEMMA HitAsked ==
  ASSUME GateInv, GateInv', HitsAsked, NEW r \in Request, Hit(r) \/ HitFails(r)
  PROVE  HitsAsked'
<1> SUFFICES ASSUME NEW k \in Window
             PROVE  hits'[k] + Cardinality(Pending(k)') <= asked'[k]
  BY DEF HitsAsked
<1> DEFINE k0 == loc[r]
<1>1. k0 \in Window /\ key(r) = k0 /\ pc[r] = "hit"
  BY LocKey DEF Hit, HitFails, GateInv, Tracks
<1>2. asked' = asked /\ \E done \in {0, 1} : hits' = [hits EXCEPT ![k0] = @ + done]
  BY <1>1 DEF Hit, HitFails
<1>3. hits[k] \in Nat /\ asked[k] \in Nat /\ hits[k] + Cardinality(Pending(k)) <= asked[k]
  BY DEF GateInv, TypeOK, HitsAsked
<1>4. \A s \in Request : /\ s # r => pc'[s] = pc[s] /\ loc'[s] = loc[s]
                         /\ s = r => pc'[s] # "hit"
  BY DEF Hit, HitFails, Goto, Finish, GateInv, TypeOK
<1>5. CASE k = k0
  <2>1. Pending(k)' = Pending(k) \ {r} /\ r \in Pending(k)
    BY <1>1, <1>4, <1>5 DEF Pending
  <2>2. Cardinality(Pending(k)') = Cardinality(Pending(k)) - 1
    BY <2>1, PendingFinite, FS_RemoveElement
  <2>3. Cardinality(Pending(k)) \in Nat
    BY PendingFinite
  <2>4. hits'[k] <= hits[k] + 1 /\ hits'[k] \in Nat
    BY <1>1, <1>2, <1>5, <1>3 DEF GateInv, TypeOK
  <2>5. QED
    BY <1>2, <1>3, <2>2, <2>3, <2>4
<1>6. CASE k # k0
  <2>1. Pending(k)' = Pending(k)
    BY <1>1, <1>4, <1>6 DEF Pending
  <2>2. QED
    BY <1>2, <1>3, <1>6, <2>1 DEF GateInv, TypeOK
<1>7. QED
  BY <1>5, <1>6

LEMMA HitsAskedStep ==
  ASSUME GateInv, GateInv', HitsAsked, [Next]_vars
  PROVE  HitsAsked'
<1> USE DEF GateInv
<1>1. ASSUME NEW r \in Request, Start(r)
      PROVE  HitsAsked'
  <2>1. ASSUME NEW g \in Guia, Refresh(r, g) PROVE HitsAsked'
    <3>1. \A s \in Request : pc'[s] = "hit" => pc[s] = "hit" /\ loc'[s] = loc[s]
      BY <2>1 DEF Refresh, TypeOK
    <3>2. QED
      BY <2>1, <3>1, FewerPending DEF Refresh, limiter, TypeOK
  <2>2. QED
    BY <1>1, <2>1, TrackAsks DEF Start
<1>2. ASSUME NEW r \in Request, Continue(r) \/ Fault(r), ~Hit(r), ~HitFails(r)
      PROVE  HitsAsked'
  <2>1. \A s \in Request : pc'[s] = "hit" => pc[s] = "hit" /\ loc'[s] = loc[s]
    <3>1. pc \in [Request -> Pc] /\ loc \in [Request -> Local]
      BY DEF TypeOK
    <3>2. (\E c \in Pc \ {"hit"} : Goto(r, c)) \/ Finish(r)
      BY <1>2 DEF Continue, Fault, HitExpire, Answer, Cool, CoolExpire, Remaining,
           ScrapeDone, HitExpireLost, CoolExpireLost, CoolFails, RemainingFails, Cut, Pc
    <3>3. QED
      BY <3>1, <3>2 DEF Goto, Finish
  <2>2. hits' = hits /\ asked' = asked
    BY <1>2 DEF Continue, Fault, HitExpire, Answer, Cool, CoolExpire, Remaining, ScrapeDone,
         HitExpireLost, CoolExpireLost, CoolFails, RemainingFails, Cut, limiter
  <2>3. QED
    BY <2>1, <2>2, FewerPending DEF TypeOK
<1>3. ASSUME NEW r \in Request, Hit(r) \/ HitFails(r)
      PROVE  HitsAsked'
  BY <1>3, HitAsked
<1>4. CASE NextMinute
  BY <1>4, FewerPending DEF NextMinute, limiter, job, TypeOK
<1>5. ASSUME NEW k \in Window, HitsExpire(k)
      PROVE  HitsAsked'
  <2>1. \A j \in Window : hits'[j] <= hits[j]
    BY <1>5 DEF HitsExpire, TypeOK
  <2>2. QED
    BY <1>5, <2>1, FewerPending DEF HitsExpire, job
<1>6. ASSUME NEW g \in Guia, CoolKeyExpires(g)
      PROVE  HitsAsked'
  BY <1>6, FewerPending DEF CoolKeyExpires, limiter, job, TypeOK
<1>7. CASE UNCHANGED vars
  BY <1>7, FewerPending DEF vars, limiter, job, TypeOK
<1>8. QED
  BY <1>1, <1>2, <1>3, <1>4, <1>5, <1>6, <1>7 DEF Next

Refused ==
  \A r \in Request :
    pc[r] = "hit" /\ pc'[r] = "idle" /\ hits' # hits => asked[loc[r]] > Limit

LEMMA RefusalAsked ==
  ASSUME GateInv, HitsAsked, [Next]_vars
  PROVE  Refused
<1> USE DEF GateInv
<1> SUFFICES ASSUME NEW r \in Request, pc[r] = "hit", pc'[r] = "idle", hits' # hits
             PROVE  asked[loc[r]] > Limit
  BY DEF Refused
<1>1. Hit(r)
  <2>1. pc \in [Request -> Pc]
    BY DEF TypeOK
  <2>2. ASSUME NEW s \in Request, Hit(s) \/ HitFails(s), s # r PROVE FALSE
    BY <2>1, <2>2 DEF Hit, HitFails, Goto, Finish
  <2>3. ~HitFails(r)
    BY <2>1 DEF HitFails, Goto
  <2>4. \A k \in Window : ~HitsExpire(k)
    BY DEF HitsExpire, job
  <2>5. \E s \in Request : Hit(s) \/ HitFails(s)
    BY <2>4 DEF Next, vars, Start, Continue, Fault, Track, Refresh, HitExpire, Answer, Cool,
         CoolExpire, Remaining, ScrapeDone, HitExpireLost, CoolExpireLost, CoolFails,
         RemainingFails, Cut, NextMinute, CoolKeyExpires, limiter
  <2>6. QED
    BY <2>2, <2>3, <2>5
<1>2. loc[r] \in Window /\ key(r) = loc[r]
  BY LocKey DEF Tracks
<1>3. hits[loc[r]] + 1 > Limit
  <2>1. pc \in [Request -> Pc] /\ hits[loc[r]] \in Nat
    BY <1>2 DEF TypeOK
  <2>2. ~(hits[loc[r]] + 1 <= Limit)
    BY <1>1, <1>2, <2>1 DEF Hit, Goto, Finish
  <2>3. QED
    BY <2>1, <2>2, GateAssumption
<1>4. Cardinality(Pending(loc[r])) >= 1 /\ Cardinality(Pending(loc[r])) \in Nat
  <2>1. r \in Pending(loc[r])
    BY DEF Pending
  <2>2. QED
    BY <2>1, PendingFinite, FS_EmptySet
<1>5. QED
  BY <1>2, <1>3, <1>4, GateAssumption DEF HitsAsked, TypeOK

(* An address is refused only for what it asked for in that same minute: no   *)
(* key that lost its expiry, and no request that comes late, is held against  *)
(* it in another one (ratelimit.ts 26-32).                                   *)
THEOREM RefusalHasCause == Spec => RefusedForCause
<1>1. Init => HitsAsked
  <2> SUFFICES ASSUME Init PROVE HitsAsked
    OBVIOUS
  <2>1. ASSUME NEW k \in Window PROVE hits[k] + Cardinality(Pending(k)) <= asked[k]
    <3>1. Pending(k) = {}
      BY DEF Init, Pending
    <3>2. hits[k] = 0 /\ asked[k] = 0 /\ Cardinality(Pending(k)) = 0
      BY <3>1, FS_EmptySet DEF Init
    <3>3. QED
      BY <3>2
  <2>2. QED
    BY <2>1 DEF HitsAsked
<1>2. GateInv /\ HitsAsked /\ [Next]_vars => HitsAsked'
  BY GateStep, HitsAskedStep
<1>3. GateInv /\ HitsAsked /\ [Next]_vars => [Refused]_vars
  BY RefusalAsked
<1>4. Spec => [][Refused]_vars
  BY <1>1, <1>2, <1>3, GateInitially, GateStep, PTL DEF Spec
<1>5. QED
  BY <1>4 DEF Refused, RefusedForCause
=============================================================================
