---------------------------- MODULE CourierProofs ----------------------------
(***************************************************************************)
(* Theorems about CourierSession for every set of requests and sessions and  *)
(* every mix of faults.                                                      *)
(***************************************************************************)
EXTENDS CourierSession, FiniteSetTheorems, TLAPS

(* A request that ended remembers nothing. *)
AtRest == \A r \in Request : pc[r] = "idle" => loc[r] = Blank

Typed == TypeOK /\ AtRest

LEMMA NextOffset ==
  /\ NextDeepWalkOffset(15) = 30 /\ NextDeepWalkOffset(30) = 45
  /\ NextDeepWalkOffset(45) = 60 /\ NextDeepWalkOffset(60) = 15
BY DEF NextDeepWalkOffset, DEEP_WALK_MAX_OFFSET, DEEP_WALK_STEP

LEMMA DueOffset ==
  ASSUME TypeOK
  PROVE  Due \in Offset /\ DEEP_WALK_STEP \in Offset
BY DEF TypeOK, Due, Offset, DEEP_WALK_STEP

(* Every step of a request is a Goto, and leaves the other requests alone. *)
LEMMA GotoTyped ==
  ASSUME Typed, NEW r \in Request, NEW c \in Pc, NEW l \in Local, Goto(r, c, l),
         c = "idle" => l = Blank
  PROVE  /\ pc' \in [Request -> Pc] /\ loc' \in [Request -> Local] /\ AtRest'
         /\ pc'[r] = c /\ loc'[r] = l
         /\ \A s \in Request \ {r} : pc'[s] = pc[s] /\ loc'[s] = loc[s]
BY DEF Goto, Typed, TypeOK, AtRest

LEMMA FinishTyped ==
  ASSUME Typed, NEW r \in Request, Finish(r)
  PROVE  /\ pc' \in [Request -> Pc] /\ loc' \in [Request -> Local] /\ AtRest'
         /\ pc'[r] = "idle" /\ loc'[r] = Blank
         /\ \A s \in Request \ {r} : pc'[s] = pc[s] /\ loc'[s] = loc[s]
<1>1. "idle" \in Pc /\ Blank \in Local
  BY DEF Pc, Local, Blank
<1>2. QED
  BY <1>1, GotoTyped DEF Finish

(* Types. *)
LEMMA TypedStep ==
  ASSUME Typed, [Next]_vars
  PROVE  Typed'
<1> USE DEF Typed, redis, job, history
<1>1. ASSUME NEW r \in Request, Scrape(r) PROVE Typed'
  <2>1. "cookie" \in Pc /\ Blank \in Local
    BY DEF Pc, Local, Blank
  <2>2. QED
    BY <1>1, <2>1, GotoTyped DEF Scrape, TypeOK
<1>2. ASSUME NEW r \in Request, Walk(r) PROVE Typed'
  <2>1. "offset" \in Pc /\ [Blank EXCEPT !.walk = TRUE] \in Local
    BY DEF Pc, Local, Blank
  <2>2. QED
    BY <1>2, <2>1, GotoTyped DEF Walk, TypeOK
<1>3. ASSUME NEW r \in Request, ReadOffset(r) PROVE Typed'
  <2>1. "cookie" \in Pc /\ [loc[r] EXCEPT !.off = Due] \in Local
    BY DueOffset DEF Pc, Local, TypeOK
  <2>2. QED
    BY <1>3, <2>1, GotoTyped DEF ReadOffset, TypeOK
<1>4. ASSUME NEW r \in Request, GetCookie(r) PROVE Typed'
  <2>1. {"page", "block"} \subseteq Pc
    BY DEF Pc
  <2>2. loc[r] \in Local /\ [loc[r] EXCEPT !.cookie = cached] \in Local
    BY DEF Local, TypeOK
  <2>3. QED
    BY <1>4, <2>1, <2>2, GotoTyped DEF GetCookie, TypeOK
<1>5. ASSUME NEW r \in Request, ReadBlock(r) PROVE Typed'
  <2>1. "login" \in Pc /\ [loc[r] EXCEPT !.blind = FALSE] \in Local
    BY DEF Pc, Local, TypeOK
  <2>2. QED
    BY <1>5, <2>1, GotoTyped, FinishTyped DEF ReadBlock, TypeOK
<1>6. ASSUME NEW r \in Request, Login(r) PROVE Typed'
  <2>1. PICK c \in Fresh, keep \in {{}, live} :
          live' = keep \cup {c} /\ Goto(r, "save", [loc[r] EXCEPT !.cookie = c])
            /\ ended' = (ended \/ keep # live)
    BY <1>6 DEF Login
  <2>2. c \in Cookie /\ "save" \in Pc /\ [loc[r] EXCEPT !.cookie = c] \in Local
    BY DEF Fresh, Pc, Local, TypeOK
  <2>3. live' \subseteq Cookie /\ tries' \in Nat
    BY <1>6, <2>1, <2>2 DEF Login, Sent, TypeOK
  <2>4. QED
    BY <1>6, <2>1, <2>2, <2>3, GotoTyped DEF Login, TypeOK
<1>7. ASSUME NEW r \in Request, SetBlock(r) PROVE Typed'
  <2>1. blocked' \in BOOLEAN
    BY <1>7 DEF SetBlock, Written, TypeOK
  <2>2. QED
    BY <1>7, <2>1, FinishTyped DEF SetBlock, TypeOK
<1>8. ASSUME NEW r \in Request, Save(r) PROVE Typed'
  <2>1. "page" \in Pc /\ loc[r] \in Local
    BY DEF Pc, TypeOK
  <2>2. cached' \in Cookie \cup {NoCookie}
    BY <1>8, <2>1 DEF Save, Local, TypeOK
  <2>3. QED
    BY <1>8, <2>1, <2>2, GotoTyped DEF Save, TypeOK
<1>9. ASSUME NEW r \in Request, FetchPage(r) PROVE Typed'
  <2>1. {"drop", "advance"} \subseteq Pc /\ loc[r] \in Local
          /\ [loc[r] EXCEPT !.retried = TRUE] \in Local
    BY DEF Pc, Local, TypeOK
  <2>2. QED
    BY <1>9, <2>1, GotoTyped, FinishTyped DEF FetchPage, TypeOK
<1>10. ASSUME NEW r \in Request, Drop(r) PROVE Typed'
  <2>1. "cookie" \in Pc /\ loc[r] \in Local
    BY DEF Pc, TypeOK
  <2>2. cached' \in Cookie \cup {NoCookie} /\ ended' \in BOOLEAN
    BY <1>10 DEF Drop, TypeOK
  <2>3. QED
    BY <1>10, <2>1, <2>2, GotoTyped DEF Drop, TypeOK
<1>11. ASSUME NEW r \in Request, Advance(r) PROVE Typed'
  <2>1. offset' \in Offset \cup {0} /\ age' \in [Offset -> Nat]
    <3>1. PICK written \in Written :
            /\ offset' = IF written THEN NextDeepWalkOffset(loc[r].off) ELSE offset
            /\ age' = IF written THEN [o \in Offset |-> IF o = loc[r].off THEN 0 ELSE age[o] + 1]
                      ELSE age
      BY <1>11 DEF Advance
    <3>2. loc[r].off \in Offset \cup {0}
      BY DEF TypeOK, Local
    <3>3. NextDeepWalkOffset(loc[r].off) \in Offset
      BY <3>2, NextOffset DEF NextDeepWalkOffset, DEEP_WALK_MAX_OFFSET, DEEP_WALK_STEP, Offset
    <3>4. QED
      BY <3>1, <3>3 DEF TypeOK
  <2>2. QED
    BY <1>11, <2>1, FinishTyped DEF Advance, TypeOK
<1>12. ASSUME NEW r \in Request, OffsetMisread(r) PROVE Typed'
  <2>1. "cookie" \in Pc /\ [loc[r] EXCEPT !.off = DEEP_WALK_STEP] \in Local
    BY DueOffset DEF Pc, Local, TypeOK
  <2>2. QED
    BY <1>12, <2>1, GotoTyped DEF OffsetMisread, TypeOK
<1>13. ASSUME NEW r \in Request, CookieMisread(r) PROVE Typed'
  <2>1. "block" \in Pc /\ loc[r] \in Local
    BY DEF Pc, TypeOK
  <2>2. QED
    BY <1>13, <2>1, GotoTyped DEF CookieMisread, TypeOK
<1>14. ASSUME NEW r \in Request, BlockMisread(r) PROVE Typed'
  <2>1. "login" \in Pc /\ [loc[r] EXCEPT !.blind = TRUE] \in Local
    BY DEF Pc, Local, TypeOK
  <2>2. QED
    BY <1>14, <2>1, GotoTyped DEF BlockMisread, TypeOK
<1>15. ASSUME NEW r \in Request, LoginRefused(r) PROVE Typed'
  <2>1. "refuse" \in Pc /\ loc[r] \in Local /\ tries' \in Nat
    BY <1>15 DEF Pc, TypeOK, LoginRefused, Sent
  <2>2. QED
    BY <1>15, <2>1, GotoTyped DEF LoginRefused, TypeOK
<1>16. ASSUME NEW r \in Request, CallFails(r) PROVE Typed'
  <2>1. QED
    BY <1>16, FinishTyped DEF CallFails, TypeOK
<1>17. CASE SessionExpires
  BY <1>17 DEF SessionExpires, TypeOK, AtRest
<1>18. CASE BlockExpires
  BY <1>18 DEF BlockExpires, TypeOK, AtRest
<1>19. ASSUME NEW c \in Cookie, SessionEnds(c) PROVE Typed'
  BY <1>19 DEF SessionEnds, TypeOK, AtRest
<1>20. CASE UNCHANGED vars
  BY <1>20 DEF vars, TypeOK, AtRest
<1>21. QED
  BY <1>1, <1>2, <1>3, <1>4, <1>5, <1>6, <1>7, <1>8, <1>9, <1>10, <1>11, <1>12, <1>13, <1>14,
     <1>15, <1>16, <1>17, <1>18, <1>19, <1>20 DEF Next, Start, Continue, Fault

LEMMA TypedInitially == Init => Typed
<1> SUFFICES ASSUME Init PROVE Typed
  OBVIOUS
<1>1. "idle" \in Pc /\ Blank \in Local
  BY DEF Pc, Local, Blank
<1>2. QED
  BY <1>1 DEF Init, Typed, TypeOK, AtRest

(* In every behaviour the keys, sessions and requests have their types. *)
THEOREM CourierTypeCorrect == Spec => []TypeOK
<1>1. Typed => TypeOK
  BY DEF Typed
<1>2. QED
  BY <1>1, TypedInitially, TypedStep, PTL DEF Spec

(***************************************************************************)
(* The retry.  While no session ended, what a retried request can find in    *)
(* the cache is live: it has dropped what was dead, and only fresh sessions  *)
(* are saved.                                                                *)
(***************************************************************************)
Recovers(r) ==
  /\ pc[r] = "save" => loc[r].cookie \in live
  /\ pc[r] = "page" /\ loc[r].retried => loc[r].cookie \in live
  /\ pc[r] # "drop" /\ loc[r].retried => cached \in live \cup {NoCookie}

Recovering == ~ended => \A r \in Request : Recovers(r)

LEMMA RecoveringStep ==
  ASSUME Typed, Recovering, [Next]_vars
  PROVE  Recovering'
<1> USE DEF redis, job, history
<1>1. ASSUME NEW r \in Request, Scrape(r) PROVE Recovering'
  BY <1>1 DEF Scrape, Idle, Goto, Finish, Typed, TypeOK, AtRest, Recovering, Recovers, Local, Blank
<1>2. ASSUME NEW r \in Request, Walk(r) PROVE Recovering'
  BY <1>2 DEF Walk, Idle, Goto, Finish, Typed, TypeOK, AtRest, Recovering, Recovers, Local, Blank
<1>3. ASSUME NEW r \in Request, ReadOffset(r) PROVE Recovering'
  BY <1>3 DEF ReadOffset, Goto, Finish, Typed, TypeOK, AtRest, Recovering, Recovers, Local, Blank
<1>4. ASSUME NEW r \in Request, GetCookie(r) PROVE Recovering'
  BY <1>4 DEF GetCookie, Goto, Finish, Typed, TypeOK, AtRest, Recovering, Recovers, Local, Blank
<1>5. ASSUME NEW r \in Request, ReadBlock(r) PROVE Recovering'
  BY <1>5 DEF ReadBlock, Goto, Finish, Typed, TypeOK, AtRest, Recovering, Recovers, Local, Blank
<1>6. ASSUME NEW r \in Request, Login(r) PROVE Recovering'
  <2> SUFFICES ASSUME ~ended', NEW s \in Request PROVE Recovers(s)'
    BY DEF Recovering
  <2>1. PICK c \in Fresh, keep \in {{}, live} :
          live' = keep \cup {c} /\ Goto(r, "save", [loc[r] EXCEPT !.cookie = c])
            /\ ended' = (ended \/ keep # live)
    BY <1>6 DEF Login
  <2>2. ~ended /\ live' = live \cup {c} /\ cached' = cached
    BY <1>6, <2>1 DEF Login
  <2>3. Recovers(s) /\ Recovers(r)
    BY <2>2 DEF Recovering
  <2>4. CASE s = r
    BY <1>6, <2>1, <2>2, <2>3, <2>4 DEF Login, Goto, Typed, TypeOK, Recovers, Local
  <2>5. CASE s # r
    BY <2>1, <2>2, <2>3, <2>5 DEF Goto, Typed, TypeOK, Recovers
  <2>6. QED
    BY <2>4, <2>5
<1>7. ASSUME NEW r \in Request, SetBlock(r) PROVE Recovering'
  BY <1>7 DEF SetBlock, Goto, Finish, Typed, TypeOK, AtRest, Recovering, Recovers, Local, Blank
<1>8. ASSUME NEW r \in Request, Save(r) PROVE Recovering'
  BY <1>8 DEF Save, Goto, Finish, Typed, TypeOK, AtRest, Recovering, Recovers, Local, Blank
<1>9. ASSUME NEW r \in Request, FetchPage(r) PROVE Recovering'
  BY <1>9 DEF FetchPage, Goto, Finish, Typed, TypeOK, AtRest, Recovering, Recovers, Local, Blank
<1>10. ASSUME NEW r \in Request, Drop(r) PROVE Recovering'
  BY <1>10 DEF Drop, Goto, Finish, Typed, TypeOK, AtRest, Recovering, Recovers, Local, Blank
<1>11. ASSUME NEW r \in Request, Advance(r) PROVE Recovering'
  BY <1>11 DEF Advance, Goto, Finish, Typed, TypeOK, AtRest, Recovering, Recovers, Local, Blank
<1>12. ASSUME NEW r \in Request, OffsetMisread(r) PROVE Recovering'
  BY <1>12 DEF OffsetMisread, Goto, Finish, Typed, TypeOK, AtRest, Recovering, Recovers, Local, Blank
<1>13. ASSUME NEW r \in Request, CookieMisread(r) PROVE Recovering'
  BY <1>13 DEF CookieMisread, Goto, Finish, Typed, TypeOK, AtRest, Recovering, Recovers, Local, Blank
<1>14. ASSUME NEW r \in Request, BlockMisread(r) PROVE Recovering'
  BY <1>14 DEF BlockMisread, Goto, Finish, Typed, TypeOK, AtRest, Recovering, Recovers, Local, Blank
<1>15. ASSUME NEW r \in Request, LoginRefused(r) PROVE Recovering'
  BY <1>15 DEF LoginRefused, Goto, Finish, Typed, TypeOK, AtRest, Recovering, Recovers, Local, Blank
<1>16. ASSUME NEW r \in Request, CallFails(r) PROVE Recovering'
  BY <1>16 DEF CallFails, Goto, Finish, Typed, TypeOK, AtRest, Recovering, Recovers, Local, Blank
<1>17. CASE SessionExpires
  BY <1>17 DEF SessionExpires, Goto, Finish, Typed, TypeOK, AtRest, Recovering, Recovers, Local, Blank
<1>18. CASE BlockExpires
  BY <1>18 DEF BlockExpires, Goto, Finish, Typed, TypeOK, AtRest, Recovering, Recovers, Local, Blank
<1>19. ASSUME NEW c \in Cookie, SessionEnds(c) PROVE Recovering'
  BY <1>19 DEF SessionEnds, Goto, Finish, Typed, TypeOK, AtRest, Recovering, Recovers, Local, Blank
<1>20. CASE UNCHANGED vars
  BY <1>20 DEF vars, Goto, Finish, Typed, TypeOK, AtRest, Recovering, Recovers, Local, Blank
<1>21. QED
  BY <1>1, <1>2, <1>3, <1>4, <1>5, <1>6, <1>7, <1>8, <1>9, <1>10, <1>11, <1>12, <1>13, <1>14,
     <1>15, <1>16, <1>17, <1>18, <1>19, <1>20 DEF Next, Start, Continue, Fault

(* "re-login once" is enough, unless a session ended meanwhile (ingest.ts     *)
(* 185-199).                                                                 *)
THEOREM RetryHolds == Spec => []RetryRecovers
<1>1. Init => Recovering
  BY DEF Init, Recovering, Recovers, Blank
<1>2. Recovering => RetryRecovers
  BY DEF Recovering, Recovers, RetryRecovers
<1>3. QED
  BY <1>1, <1>2, TypedInitially, TypedStep, RecoveringStep, PTL DEF Spec

(***************************************************************************)
(* The deep walk.  The page that is due may have waited for three walks, the *)
(* next for two, and so on round the rotation; only one walk is under way,   *)
(* and it takes the page that is due, unless the rotation starts over.       *)
(***************************************************************************)
Second == NextDeepWalkOffset(Due)
Third == NextDeepWalkOffset(Second)
Last == NextDeepWalkOffset(Third)

Aged == age[Due] <= 3 /\ age[Second] <= 2 /\ age[Third] <= 1 /\ age[Last] = 0

OneWalk == \A r, s \in Request : loc[r].walk /\ loc[s].walk => r = s

TakesDue(r) ==
  /\ pc[r] \in {"offset", "advance"} => loc[r].walk
  /\ loc[r].walk /\ pc[r] # "offset" =>
       loc[r].off \in Offset /\ (loc[r].off = Due \/ \A o \in Offset : age[o] = 0)

Rotation == Aged /\ OneWalk /\ \A r \in Request : TakesDue(r)

LEMMA AgedStays ==
  ASSUME Aged, UNCHANGED <<offset, age>>
  PROVE  Aged'
BY DEF Aged, Due, Second, Third, Last, NextDeepWalkOffset

LEMMA AgedStartsOver ==
  ASSUME TypeOK, UNCHANGED offset, age' = [o \in Offset |-> 0]
  PROVE  Aged'
<1>1. Due' \in {15, 30, 45, 60}
  BY DueOffset DEF Due, Offset
<1>2. QED
  BY <1>1, NextOffset DEF Aged, Due, Second, Third, Last, Offset, NextDeepWalkOffset,
     DEEP_WALK_MAX_OFFSET, DEEP_WALK_STEP

LEMMA AgedAdvances ==
  ASSUME TypeOK, Aged, NEW off \in Offset, off = Due \/ \A o \in Offset : age[o] = 0,
         offset' = NextDeepWalkOffset(off),
         age' = [o \in Offset |-> IF o = off THEN 0 ELSE age[o] + 1]
  PROVE  Aged'
<1>1. age \in [Offset -> Nat] /\ 15 \in Offset /\ 30 \in Offset /\ 45 \in Offset /\ 60 \in Offset
  BY DEF TypeOK, Offset
<1>2. Due' = offset'
  BY NextOffset DEF Due, NextDeepWalkOffset, DEEP_WALK_MAX_OFFSET, DEEP_WALK_STEP, Offset
<1>3. Aged' = (/\ age'[offset'] <= 3
               /\ age'[NextDeepWalkOffset(offset')] <= 2
               /\ age'[NextDeepWalkOffset(NextDeepWalkOffset(offset'))] <= 1
               /\ age'[NextDeepWalkOffset(NextDeepWalkOffset(NextDeepWalkOffset(offset')))] = 0)
  BY <1>2 DEF Aged, Second, Third, Last, NextDeepWalkOffset
<1>4. CASE off = Due
  <2>1. /\ age[off] <= 3 /\ age[NextDeepWalkOffset(off)] <= 2
        /\ age[NextDeepWalkOffset(NextDeepWalkOffset(off))] <= 1
        /\ age[NextDeepWalkOffset(NextDeepWalkOffset(NextDeepWalkOffset(off)))] = 0
    BY <1>4 DEF Aged, Second, Third, Last
  <2>2. off \in {15, 30, 45, 60}
    BY DEF Offset
  <2>3. CASE off = 15
    BY <1>1, <1>3, <2>1, <2>3, NextOffset
  <2>4. CASE off = 30
    BY <1>1, <1>3, <2>1, <2>4, NextOffset
  <2>5. CASE off = 45
    BY <1>1, <1>3, <2>1, <2>5, NextOffset
  <2>6. CASE off = 60
    BY <1>1, <1>3, <2>1, <2>6, NextOffset
  <2>7. QED
    BY <2>2, <2>3, <2>4, <2>5, <2>6
<1>5. CASE \A o \in Offset : age[o] = 0
  BY <1>1, <1>3, <1>5, NextOffset DEF Offset
<1>6. QED
  BY <1>4, <1>5

LEMMA RotationStep ==
  ASSUME Typed, Rotation, [Next]_vars
  PROVE  Rotation'
<1> USE DEF redis, job, history
<1> DEFINE Others(r) == \A s \in Request \ {r} : pc'[s] = pc[s] /\ loc'[s] = loc[s]
<1>0. ASSUME UNCHANGED <<offset, age>>, OneWalk', \A r \in Request : TakesDue(r)'
      PROVE  Rotation'
  BY <1>0, AgedStays DEF Rotation
<1>1. ASSUME NEW r \in Request, Scrape(r) PROVE Rotation'
  <2>1. OneWalk' /\ \A s \in Request : TakesDue(s)'
    BY <1>1 DEF Scrape, Goto, Finish, Typed, TypeOK, Rotation, OneWalk, TakesDue, Due, Local, Blank
  <2>2. QED
    BY <1>1, <2>1, <1>0 DEF Scrape
<1>2. ASSUME NEW r \in Request, Walk(r) PROVE Rotation'
  <2>1. OneWalk' /\ \A s \in Request : TakesDue(s)'
    BY <1>2 DEF Walk, Goto, Finish, Typed, TypeOK, Rotation, OneWalk, TakesDue, Due, Local, Blank
  <2>2. QED
    BY <1>2, <2>1, <1>0 DEF Walk
<1>3. ASSUME NEW r \in Request, ReadOffset(r) PROVE Rotation'
  <2>1. Due \in Offset /\ Due' = Due
    BY <1>3, DueOffset DEF ReadOffset, Typed, Due
  <2>2. OneWalk'
    BY <1>3 DEF ReadOffset, Goto, Typed, TypeOK, Rotation, OneWalk, Local
  <2>3. ASSUME NEW s \in Request PROVE TakesDue(s)'
    BY <1>3, <2>1 DEF ReadOffset, Goto, Typed, TypeOK, Rotation, TakesDue, Local
  <2>4. QED
    BY <1>3, <2>2, <2>3, <1>0 DEF ReadOffset
<1>4. ASSUME NEW r \in Request, GetCookie(r) PROVE Rotation'
  <2>1. OneWalk' /\ \A s \in Request : TakesDue(s)'
    BY <1>4, SMTT(30) DEF GetCookie, Goto, Finish, Typed, TypeOK, Rotation, OneWalk, TakesDue, Due, Local, Blank
  <2>2. QED
    BY <1>4, <2>1, <1>0 DEF GetCookie
<1>5. ASSUME NEW r \in Request, ReadBlock(r) PROVE Rotation'
  <2>1. OneWalk' /\ \A s \in Request : TakesDue(s)'
    BY <1>5 DEF ReadBlock, Goto, Finish, Typed, TypeOK, Rotation, OneWalk, TakesDue, Due, Local, Blank
  <2>2. QED
    BY <1>5, <2>1, <1>0 DEF ReadBlock
<1>6. ASSUME NEW r \in Request, Login(r) PROVE Rotation'
  <2>1. OneWalk' /\ \A s \in Request : TakesDue(s)'
    BY <1>6 DEF Login, Goto, Finish, Typed, TypeOK, Rotation, OneWalk, TakesDue, Due, Local, Blank
  <2>2. QED
    BY <1>6, <2>1, <1>0 DEF Login
<1>7. ASSUME NEW r \in Request, SetBlock(r) PROVE Rotation'
  <2>1. OneWalk' /\ \A s \in Request : TakesDue(s)'
    BY <1>7 DEF SetBlock, Goto, Finish, Typed, TypeOK, Rotation, OneWalk, TakesDue, Due, Local, Blank
  <2>2. QED
    BY <1>7, <2>1, <1>0 DEF SetBlock
<1>8. ASSUME NEW r \in Request, Save(r) PROVE Rotation'
  <2>1. OneWalk' /\ \A s \in Request : TakesDue(s)'
    BY <1>8 DEF Save, Goto, Finish, Typed, TypeOK, Rotation, OneWalk, TakesDue, Due, Local, Blank
  <2>2. QED
    BY <1>8, <2>1, <1>0 DEF Save
<1>9. ASSUME NEW r \in Request, FetchPage(r) PROVE Rotation'
  <2>1. OneWalk' /\ \A s \in Request : TakesDue(s)'
    BY <1>9, SMTT(30) DEF FetchPage, Goto, Finish, Typed, TypeOK, Rotation, OneWalk, TakesDue, Due, Local, Blank
  <2>2. QED
    BY <1>9, <2>1, <1>0 DEF FetchPage
<1>10. ASSUME NEW r \in Request, Drop(r) PROVE Rotation'
  <2>1. OneWalk' /\ \A s \in Request : TakesDue(s)'
    BY <1>10 DEF Drop, Goto, Finish, Typed, TypeOK, Rotation, OneWalk, TakesDue, Due, Local, Blank
  <2>2. QED
    BY <1>10, <2>1, <1>0 DEF Drop
<1>11. ASSUME NEW r \in Request, Advance(r) PROVE Rotation'
  <2>1. PICK written \in Written :
          /\ offset' = IF written THEN NextDeepWalkOffset(loc[r].off) ELSE offset
          /\ age' = IF written THEN [o \in Offset |-> IF o = loc[r].off THEN 0 ELSE age[o] + 1]
                    ELSE age
    BY <1>11 DEF Advance
  <2>2. loc[r].walk /\ loc[r].off \in Offset
          /\ (loc[r].off = Due \/ \A o \in Offset : age[o] = 0)
    BY <1>11 DEF Advance, Rotation, TakesDue
  <2>3. Aged'
    BY <2>1, <2>2, AgedStays, AgedAdvances DEF Rotation, Typed
  <2>4. pc'[r] = "idle" /\ ~loc'[r].walk /\ Others(r)
    BY <1>11, FinishTyped DEF Advance, Blank
  <2>5. \A s \in Request \ {r} : ~loc[s].walk
    BY <2>2 DEF Rotation, OneWalk
  <2>6. OneWalk' /\ \A s \in Request : TakesDue(s)'
    BY <2>4, <2>5 DEF Rotation, OneWalk, TakesDue
  <2>7. QED
    BY <2>3, <2>6 DEF Rotation
<1>12. ASSUME NEW r \in Request, OffsetMisread(r) PROVE Rotation'
  <2>1. DEEP_WALK_STEP \in Offset /\ age' = [o \in Offset |-> 0] /\ offset' = offset
    BY <1>12, DueOffset DEF OffsetMisread, Typed
  <2>2. OneWalk'
    BY <1>12 DEF OffsetMisread, Goto, Typed, TypeOK, Rotation, OneWalk, Local
  <2>3. ASSUME NEW s \in Request PROVE TakesDue(s)'
    BY <1>12, <2>1 DEF OffsetMisread, Goto, Typed, TypeOK, Rotation, TakesDue, Local
  <2>4. QED
    BY <2>1, <2>2, <2>3, AgedStartsOver DEF Rotation, Typed
<1>13. ASSUME NEW r \in Request, CookieMisread(r) PROVE Rotation'
  <2>1. OneWalk' /\ \A s \in Request : TakesDue(s)'
    BY <1>13 DEF CookieMisread, Goto, Finish, Typed, TypeOK, Rotation, OneWalk, TakesDue, Due, Local, Blank
  <2>2. QED
    BY <1>13, <2>1, <1>0 DEF CookieMisread
<1>14. ASSUME NEW r \in Request, BlockMisread(r) PROVE Rotation'
  <2>1. OneWalk' /\ \A s \in Request : TakesDue(s)'
    BY <1>14 DEF BlockMisread, Goto, Finish, Typed, TypeOK, Rotation, OneWalk, TakesDue, Due, Local, Blank
  <2>2. QED
    BY <1>14, <2>1, <1>0 DEF BlockMisread
<1>15. ASSUME NEW r \in Request, LoginRefused(r) PROVE Rotation'
  <2>1. OneWalk' /\ \A s \in Request : TakesDue(s)'
    BY <1>15 DEF LoginRefused, Goto, Finish, Typed, TypeOK, Rotation, OneWalk, TakesDue, Due, Local, Blank
  <2>2. QED
    BY <1>15, <2>1, <1>0 DEF LoginRefused
<1>16. ASSUME NEW r \in Request, CallFails(r) PROVE Rotation'
  <2>1. OneWalk' /\ \A s \in Request : TakesDue(s)'
    BY <1>16 DEF CallFails, Goto, Finish, Typed, TypeOK, Rotation, OneWalk, TakesDue, Due, Local, Blank
  <2>2. QED
    BY <1>16, <2>1, <1>0 DEF CallFails
<1>17. CASE SessionExpires
  BY <1>17, <1>0 DEF SessionExpires, Rotation, OneWalk, TakesDue, Due
<1>18. CASE BlockExpires
  BY <1>18, <1>0 DEF BlockExpires, Rotation, OneWalk, TakesDue, Due
<1>19. ASSUME NEW c \in Cookie, SessionEnds(c) PROVE Rotation'
  BY <1>19, <1>0 DEF SessionEnds, Rotation, OneWalk, TakesDue, Due
<1>20. CASE UNCHANGED vars
  BY <1>20, <1>0 DEF vars, Rotation, OneWalk, TakesDue, Due
<1>21. QED
  BY <1>1, <1>2, <1>3, <1>4, <1>5, <1>6, <1>7, <1>8, <1>9, <1>10, <1>11, <1>12, <1>13, <1>14,
     <1>15, <1>16, <1>17, <1>18, <1>19, <1>20 DEF Next, Start, Continue, Fault

(* "a backlog of up to 60 rows is always swept within 4 days" (ingest.ts      *)
(* 27-28): no page waits for four walks that stored their offset.            *)
THEOREM SweptHolds == Spec => []SweptInFour
<1>1. Init => Rotation
  <2> SUFFICES ASSUME Init PROVE Rotation
    OBVIOUS
  <2>1. Aged
    BY NextOffset DEF Init, Aged, Due, Second, Third, Last, Offset, DEEP_WALK_STEP
  <2>2. OneWalk /\ \A r \in Request : TakesDue(r)
    BY DEF Init, OneWalk, TakesDue, Blank
  <2>3. QED
    BY <2>1, <2>2 DEF Rotation
<1>2. Typed /\ Rotation => SweptInFour
  <2> SUFFICES ASSUME Typed, Aged, NEW o \in Offset PROVE age[o] < 4
    BY DEF Rotation, SweptInFour
  <2>1. Due \in {15, 30, 45, 60} /\ age \in [Offset -> Nat]
    BY DueOffset DEF Typed, TypeOK, Offset
  <2>2. QED
    BY <2>1, NextOffset DEF Aged, Second, Third, Last, Offset
<1>3. QED
  BY <1>1, <1>2, TypedInitially, TypedStep, RotationStep, PTL DEF Spec

(***************************************************************************)
(* The login block.  The requests that passed it before it was set are less  *)
(* than the slots: the one that set it is not among them.                    *)
(***************************************************************************)
Passed == {r \in Request : pc[r] = "login" /\ ~loc[r].blind}

Storm == IF blocked THEN tries + Cardinality(Passed) < Cardinality(Request) ELSE tries = 0

LEMMA PassedFinite ==
  IsFiniteSet(Passed) /\ Cardinality(Passed) \in Nat /\ Cardinality(Request) \in Nat
<1>1. Passed \subseteq Request
  BY DEF Passed
<1>2. QED
  BY <1>1, CourierAssumption, FS_Subset, FS_CardinalityType

(* Nobody passes the block that stands, and nobody tries. *)
LEMMA FewerPassed ==
  ASSUME Typed, Storm, blocked' = blocked, tries' = tries, blocked => Passed' \subseteq Passed
  PROVE  Storm'
<1>1. CASE ~blocked
  BY <1>1 DEF Storm
<1>2. CASE blocked
  <2>1. Cardinality(Passed') <= Cardinality(Passed) /\ Cardinality(Passed') \in Nat
    BY <1>2, PassedFinite, FS_Subset, FS_CardinalityType
  <2>2. QED
    BY <1>2, <2>1, PassedFinite DEF Storm, Typed, TypeOK
<1>3. QED
  BY <1>1, <1>2 DEF Typed, TypeOK

(* Credentials are sent. *)
LEMMA TryCounts ==
  ASSUME Typed, Storm, NEW r \in Request, pc[r] = "login", blocked' = blocked, Sent(r),
         Passed' = Passed \ {r}
  PROVE  Storm'
<1>1. CASE r \in Passed
  <2>1. Cardinality(Passed') = Cardinality(Passed) - 1
    BY <1>1, PassedFinite, FS_RemoveElement
  <2>2. ~loc[r].blind
    BY <1>1 DEF Passed
  <2>3. QED
    BY <2>1, <2>2, PassedFinite DEF Storm, Sent, Typed, TypeOK
<1>2. CASE r \notin Passed
  <2>1. Passed' = Passed /\ loc[r].blind
    BY <1>2 DEF Passed, Typed, TypeOK, Local
  <2>2. QED
    BY <2>1 DEF Storm, Sent
<1>3. QED
  BY <1>1, <1>2

LEMMA StormStep ==
  ASSUME Typed, Storm, [Next]_vars
  PROVE  Storm'
<1> USE DEF redis, job, history
<1>1. ASSUME NEW r \in Request, Scrape(r) PROVE Storm'
  <2>1. blocked => Passed' \subseteq Passed
    BY <1>1 DEF Scrape, Goto, Finish, Typed, TypeOK, Passed
  <2>2. QED
    BY <1>1, <2>1, FewerPassed DEF Scrape
<1>2. ASSUME NEW r \in Request, Walk(r) PROVE Storm'
  <2>1. blocked => Passed' \subseteq Passed
    BY <1>2 DEF Walk, Goto, Finish, Typed, TypeOK, Passed
  <2>2. QED
    BY <1>2, <2>1, FewerPassed DEF Walk
<1>3. ASSUME NEW r \in Request, ReadOffset(r) PROVE Storm'
  <2>1. blocked => Passed' \subseteq Passed
    BY <1>3 DEF ReadOffset, Goto, Finish, Typed, TypeOK, Passed
  <2>2. QED
    BY <1>3, <2>1, FewerPassed DEF ReadOffset
<1>4. ASSUME NEW r \in Request, GetCookie(r) PROVE Storm'
  <2>1. blocked => Passed' \subseteq Passed
    BY <1>4 DEF GetCookie, Goto, Finish, Typed, TypeOK, Passed
  <2>2. QED
    BY <1>4, <2>1, FewerPassed DEF GetCookie
<1>5. ASSUME NEW r \in Request, ReadBlock(r) PROVE Storm'
  <2>1. blocked => Passed' \subseteq Passed
    BY <1>5 DEF ReadBlock, Goto, Finish, Typed, TypeOK, Passed
  <2>2. QED
    BY <1>5, <2>1, FewerPassed DEF ReadBlock
<1>6. ASSUME NEW r \in Request, Login(r) PROVE Storm'
  <2>1. Passed' = Passed \ {r}
    BY <1>6 DEF Login, Goto, Typed, TypeOK, Passed
  <2>2. QED
    BY <1>6, <2>1, TryCounts DEF Login
<1>7. ASSUME NEW r \in Request, SetBlock(r) PROVE Storm'
  <2>1. Passed' \subseteq Passed /\ Passed' \subseteq Request \ {r}
    BY <1>7 DEF SetBlock, Goto, Finish, Typed, TypeOK, Passed
  <2>2. CASE blocked' = blocked
    BY <1>7, <2>1, <2>2, FewerPassed DEF SetBlock
  <2>3. CASE blocked' # blocked
    <3>1. blocked' /\ tries' = 0
      BY <1>7, <2>3 DEF SetBlock, Storm, Typed, TypeOK
    <3>2. IsFiniteSet(Request \ {r}) /\ Cardinality(Request \ {r}) = Cardinality(Request) - 1
      BY CourierAssumption, FS_RemoveElement
    <3>3. Cardinality(Passed') <= Cardinality(Request) - 1 /\ Cardinality(Passed') \in Nat
      BY <2>1, <3>2, FS_Subset, FS_CardinalityType
    <3>4. QED
      BY <3>1, <3>3, PassedFinite DEF Storm
  <2>4. QED
    BY <2>2, <2>3
<1>8. ASSUME NEW r \in Request, Save(r) PROVE Storm'
  <2>1. blocked => Passed' \subseteq Passed
    BY <1>8 DEF Save, Goto, Finish, Typed, TypeOK, Passed
  <2>2. QED
    BY <1>8, <2>1, FewerPassed DEF Save
<1>9. ASSUME NEW r \in Request, FetchPage(r) PROVE Storm'
  <2>1. blocked => Passed' \subseteq Passed
    BY <1>9 DEF FetchPage, Goto, Finish, Typed, TypeOK, Passed
  <2>2. QED
    BY <1>9, <2>1, FewerPassed DEF FetchPage
<1>10. ASSUME NEW r \in Request, Drop(r) PROVE Storm'
  <2>1. blocked => Passed' \subseteq Passed
    BY <1>10 DEF Drop, Goto, Finish, Typed, TypeOK, Passed
  <2>2. QED
    BY <1>10, <2>1, FewerPassed DEF Drop
<1>11. ASSUME NEW r \in Request, Advance(r) PROVE Storm'
  <2>1. blocked => Passed' \subseteq Passed
    BY <1>11 DEF Advance, Goto, Finish, Typed, TypeOK, Passed
  <2>2. QED
    BY <1>11, <2>1, FewerPassed DEF Advance
<1>12. ASSUME NEW r \in Request, OffsetMisread(r) PROVE Storm'
  <2>1. blocked => Passed' \subseteq Passed
    BY <1>12 DEF OffsetMisread, Goto, Finish, Typed, TypeOK, Passed
  <2>2. QED
    BY <1>12, <2>1, FewerPassed DEF OffsetMisread
<1>13. ASSUME NEW r \in Request, CookieMisread(r) PROVE Storm'
  <2>1. blocked => Passed' \subseteq Passed
    BY <1>13 DEF CookieMisread, Goto, Finish, Typed, TypeOK, Passed
  <2>2. QED
    BY <1>13, <2>1, FewerPassed DEF CookieMisread
<1>14. ASSUME NEW r \in Request, BlockMisread(r) PROVE Storm'
  <2>1. loc'[r].blind /\ \A s \in Request \ {r} : pc'[s] = pc[s] /\ loc'[s] = loc[s]
    BY <1>14 DEF BlockMisread, Goto, Typed, TypeOK, Local
  <2>2. Passed' \subseteq Passed
    BY <2>1 DEF Passed
  <2>3. QED
    BY <1>14, <2>2, FewerPassed DEF BlockMisread
<1>15. ASSUME NEW r \in Request, LoginRefused(r) PROVE Storm'
  <2>1. Passed' = Passed \ {r}
    BY <1>15 DEF LoginRefused, Goto, Typed, TypeOK, Passed
  <2>2. QED
    BY <1>15, <2>1, TryCounts DEF LoginRefused
<1>16. ASSUME NEW r \in Request, CallFails(r) PROVE Storm'
  <2>1. blocked => Passed' \subseteq Passed
    BY <1>16 DEF CallFails, Goto, Finish, Typed, TypeOK, Passed
  <2>2. QED
    BY <1>16, <2>1, FewerPassed DEF CallFails
<1>17. CASE SessionExpires
  BY <1>17, FewerPassed DEF SessionExpires, Passed
<1>18. CASE BlockExpires
  BY <1>18 DEF BlockExpires, Storm
<1>19. ASSUME NEW c \in Cookie, SessionEnds(c) PROVE Storm'
  BY <1>19, FewerPassed DEF SessionEnds, Passed
<1>20. CASE UNCHANGED vars
  BY <1>20, FewerPassed DEF vars, Passed
<1>21. QED
  BY <1>1, <1>2, <1>3, <1>4, <1>5, <1>6, <1>7, <1>8, <1>9, <1>10, <1>11, <1>12, <1>13, <1>14,
     <1>15, <1>16, <1>17, <1>18, <1>19, <1>20 DEF Next, Start, Continue, Fault

(* "so we never hammer the provider" (ingest.ts 113-114): while a block       *)
(* stands, fewer logins are tried than there are slots for requests.         *)
THEOREM NoLoginStormHolds == Spec => []NoLoginStorm
<1>1. Init => Storm
  BY DEF Init, Storm
<1>2. Typed /\ Storm => NoLoginStorm
  BY PassedFinite DEF Typed, TypeOK, Storm, NoLoginStorm
<1>3. QED
  BY <1>1, <1>2, TypedInitially, TypedStep, StormStep, PTL DEF Spec
=============================================================================
