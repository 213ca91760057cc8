---------------------------- MODULE CourierSession ----------------------------
(***************************************************************************)
(* The login session that all scrapes of one courier share (CargotrackClient *)
(* in ingest.ts, UpstashRedisClient in session.ts), and the deep walk that   *)
(* the cron runs once a day (ingest.ts 538-557, index.ts 127-163).           *)
(*                                                                         *)
(* Three Redis keys per courier: the cached cookie, the login block and the  *)
(* offset of the deep walk.  A request is one Worker invocation that needs   *)
(* one page; it fetches, is redirected if the cookie is dead, drops the key  *)
(* and tries once more.  Redis expires the first two keys at any time.  The  *)
(* courier may end a session at any time, and a login may end the others     *)
(* (staff.ts 10-11).  What is on the page belongs to PackageIngest.          *)
(***************************************************************************)
EXTENDS Naturals, FiniteSets

CONSTANTS
  Request,   \* Worker invocations that can run at the same time
  Cookie,    \* sessions of the courier
  NoCookie,  \* the session key is absent
  Faults     \* "call": a call throws or the Worker dies; "lost": Redis answers a
             \* write with an error, which is ignored; "read": it answers a
             \* read with one, which is null; "refused": the courier does not
             \* accept the login

ASSUME CourierAssumption ==
  /\ IsFiniteSet(Request)
  /\ NoCookie \notin Cookie

VARIABLES
  cached,   \* ct:session
  blocked,  \* ct:login_block is there
  offset,   \* ct:deepwalk_offset, 0 if absent
  live,     \* the sessions that the courier knows
  pc,       \* what each request does next
  loc,      \* what each request has read
  ended,    \* history: a session ended, or the cache could not drop one, since
            \* requests are under way
  tries,    \* history: logins tried against the block that stands
  age       \* history: completed walks since the one that took this page

redis == <<cached, blocked, offset>>
job == <<pc, loc>>
history == <<ended, tries, age>>
vars == <<redis, live, job, history>>

DEEP_WALK_STEP == 15
DEEP_WALK_MAX_OFFSET == 60
Offset == {15, 30, 45, 60}

Pc == {"idle", "offset", "cookie", "block", "login", "save", "refuse", "page",
       "drop", "advance"}
Local == [walk : BOOLEAN, off : Offset \cup {0}, cookie : Cookie \cup {NoCookie},
          retried : BOOLEAN, blind : BOOLEAN]
Blank == [walk |-> FALSE, off |-> 0, cookie |-> NoCookie, retried |-> FALSE,
          blind |-> FALSE]

Idle == \A r \in Request : pc[r] = "idle"

(* A cookie that the courier hands out is new: nobody has or stores it. *)
Fresh == {c \in Cookie \ (live \cup {cached}) : \A r \in Request : loc[r].cookie # c}

(* Mutant: the rotation goes one page too far. *)
BugNextDeepWalkOffset(current) ==
  IF current > DEEP_WALK_MAX_OFFSET THEN DEEP_WALK_STEP ELSE current + DEEP_WALK_STEP

(* 15 -> 30 -> 45 -> 60 -> 15; the absent key counts as 15 (ingest.ts 551). *)
NextDeepWalkOffset(current) ==
  IF current >= DEEP_WALK_MAX_OFFSET THEN DEEP_WALK_STEP ELSE current + DEEP_WALK_STEP

Due == IF offset = 0 THEN DEEP_WALK_STEP ELSE offset

Goto(r, call, locals) ==
  /\ pc' = [pc EXCEPT ![r] = call]
  /\ loc' = [loc EXCEPT ![r] = locals]

Finish(r) == Goto(r, "idle", Blank)

(* A write that may be lost without anybody noticing. *)
Written == IF "lost" \in Faults THEN BOOLEAN ELSE {TRUE}

-----------------------------------------------------------------------------
Init ==
  /\ cached = NoCookie /\ blocked = FALSE /\ offset = 0
  /\ live = {}
  /\ pc = [r \in Request |-> "idle"]
  /\ loc = [r \in Request |-> Blank]
  /\ ended = FALSE /\ tries = 0
  /\ age = [o \in Offset |-> 0]

(* One page of the list or of a package. *)
Scrape(r) ==
  /\ pc[r] = "idle"
  /\ Goto(r, "cookie", Blank)
  /\ ended' = (ended /\ ~Idle)
  /\ UNCHANGED <<redis, live, tries, age>>

(* The cron's slot of 04:30; two days' walks do not overlap. *)
Walk(r) ==
  /\ pc[r] = "idle"
  /\ \A s \in Request : ~loc[s].walk
  /\ Goto(r, "offset", [Blank EXCEPT !.walk = TRUE])
  /\ ended' = (ended /\ ~Idle)
  /\ UNCHANGED <<redis, live, tries, age>>

ReadOffset(r) ==
  /\ pc[r] = "offset"
  /\ Goto(r, "cookie", [loc[r] EXCEPT !.off = Due])
  /\ UNCHANGED <<redis, live, history>>

(* The rotation starts over, and so does what is said of it. *)
OffsetMisread(r) ==
  /\ "read" \in Faults
  /\ pc[r] = "offset"
  /\ Goto(r, "cookie", [loc[r] EXCEPT !.off = DEEP_WALK_STEP])
  /\ age' = [o \in Offset |-> 0]
  /\ UNCHANGED <<redis, live, ended, tries>>

(* getCookie.  A read that fails is a cache miss. *)
GetCookie(r) ==
  /\ pc[r] = "cookie"
  /\ IF cached # NoCookie THEN Goto(r, "page", [loc[r] EXCEPT !.cookie = cached])
     ELSE Goto(r, "block", loc[r])
  /\ UNCHANGED <<redis, live, history>>

CookieMisread(r) ==
  /\ "read" \in Faults
  /\ pc[r] = "cookie"
  /\ Goto(r, "block", loc[r])
  /\ UNCHANGED <<redis, live, history>>

(* Mutant: the block is only looked at on the first attempt. *)
BugReadBlock(r) ==
  /\ pc[r] = "block"
  /\ IF blocked /\ ~loc[r].retried THEN Finish(r)
     ELSE Goto(r, "login", [loc[r] EXCEPT !.blind = FALSE])
  /\ UNCHANGED <<redis, live, history>>

(* login, up to the first request to the courier: backing off throws. *)
ReadBlock(r) ==
  /\ pc[r] = "block"
  /\ IF blocked THEN Finish(r) ELSE Goto(r, "login", [loc[r] EXCEPT !.blind = FALSE])
  /\ UNCHANGED <<redis, live, history>>

BlockMisread(r) ==
  /\ "read" \in Faults
  /\ pc[r] = "block"
  /\ Goto(r, "login", [loc[r] EXCEPT !.blind = TRUE])
  /\ UNCHANGED <<redis, live, history>>

(* The credentials are sent; tries counts those sent although a block stands. *)
Sent(r) == tries' = IF blocked /\ ~loc[r].blind THEN tries + 1 ELSE tries

(* The redirects end in the agent area.  Other sessions end or stay. *)
Login(r) ==
  /\ pc[r] = "login"
  /\ \E c \in Fresh, keep \in {{}, live} :
       /\ live' = keep \cup {c}
       /\ Goto(r, "save", [loc[r] EXCEPT !.cookie = c])
       /\ ended' = (ended \/ keep # live)
  /\ Sent(r)
  /\ UNCHANGED <<redis, age>>

LoginRefused(r) ==
  /\ "refused" \in Faults
  /\ pc[r] = "login"
  /\ Goto(r, "refuse", loc[r])
  /\ Sent(r)
  /\ UNCHANGED <<redis, live, ended, age>>

SetBlock(r) ==
  /\ pc[r] = "refuse"
  /\ \E written \in Written : blocked' = (blocked \/ written)
  /\ Finish(r)
  /\ UNCHANGED <<cached, offset, live, history>>

Save(r) ==
  /\ pc[r] = "save"
  /\ \E written \in Written : cached' = IF written THEN loc[r].cookie ELSE cached
  /\ Goto(r, "page", loc[r])
  /\ UNCHANGED <<blocked, offset, live, history>>

(* A dead cookie is redirected, and retried once; a second redirect is taken *)
(* for the page, which then has no rows.                                     *)
FetchPage(r) ==
  /\ pc[r] = "page"
  /\ IF loc[r].cookie \notin live /\ ~loc[r].retried
     THEN Goto(r, "drop", [loc[r] EXCEPT !.retried = TRUE])
     ELSE IF loc[r].walk THEN Goto(r, "advance", loc[r]) ELSE Finish(r)
  /\ UNCHANGED <<redis, live, history>>

(* Mutant: the retry keeps the cached cookie. *)
BugDrop(r) ==
  /\ pc[r] = "drop"
  /\ Goto(r, "cookie", loc[r])
  /\ UNCHANGED <<redis, live, history>>

(* The key goes, whatever cookie it holds by now. *)
Drop(r) ==
  /\ pc[r] = "drop"
  /\ \E written \in Written :
       /\ cached' = IF written THEN NoCookie ELSE cached
       /\ ended' = (ended \/ ~written)
  /\ Goto(r, "cookie", loc[r])
  /\ UNCHANGED <<blocked, offset, live, tries, age>>

(* The next offset is stored after the page has been taken. *)
Advance(r) ==
  /\ pc[r] = "advance"
  /\ \E written \in Written :
       /\ offset' = IF written THEN NextDeepWalkOffset(loc[r].off) ELSE offset
       /\ age' = IF written
                 THEN [o \in Offset |-> IF o = loc[r].off THEN 0 ELSE age[o] + 1]
                 ELSE age
  /\ Finish(r)
  /\ UNCHANGED <<cached, blocked, live, ended, tries>>

(* A call throws, or the Worker dies: no block is set, and a walk does not    *)
(* move on.                                                                  *)
CallFails(r) ==
  /\ "call" \in Faults
  /\ pc[r] # "idle"
  /\ Finish(r)
  /\ UNCHANGED <<redis, live, history>>

-----------------------------------------------------------------------------
(* Redis and the courier. *)

SessionExpires ==
  /\ cached # NoCookie
  /\ cached' = NoCookie
  /\ UNCHANGED <<blocked, offset, live, job, history>>

BlockExpires ==
  /\ blocked
  /\ blocked' = FALSE
  /\ tries' = 0
  /\ UNCHANGED <<cached, offset, live, job, ended, age>>

SessionEnds(c) ==
  /\ c \in live
  /\ live' = live \ {c}
  /\ ended' = TRUE
  /\ UNCHANGED <<redis, job, tries, age>>

-----------------------------------------------------------------------------
Start(r) == Scrape(r) \/ Walk(r)

Continue(r) ==
  \/ ReadOffset(r) \/ GetCookie(r) \/ ReadBlock(r) \/ Login(r) \/ SetBlock(r)
  \/ Save(r) \/ FetchPage(r) \/ Drop(r) \/ Advance(r)

Fault(r) ==
  \/ OffsetMisread(r) \/ CookieMisread(r) \/ BlockMisread(r) \/ LoginRefused(r)
  \/ CallFails(r)

Next ==
  \/ \E r \in Request : Start(r) \/ Continue(r) \/ Fault(r)
  \/ SessionExpires \/ BlockExpires
  \/ \E c \in Cookie : SessionEnds(c)

Spec == Init /\ [][Next]_vars

-----------------------------------------------------------------------------
TypeOK ==
  /\ cached \in Cookie \cup {NoCookie}
  /\ blocked \in BOOLEAN
  /\ offset \in Offset \cup {0}
  /\ live \subseteq Cookie
  /\ pc \in [Request -> Pc]
  /\ loc \in [Request -> Local]
  /\ ended \in BOOLEAN
  /\ tries \in Nat
  /\ age \in [Offset -> Nat]

(* "Session expired ... re-login once" (ingest.ts 191) is enough: a request   *)
(* is redirected again, and reads a login form as a page without rows, only   *)
(* if a session ended, or the cache failed to drop one, while requests were   *)
(* under way.  A dead cookie that the cache still holds never does that,      *)
(* whoever else drops or saves it.                                           *)
RetryRecovers ==
  \A r \in Request :
    pc[r] = "page" /\ loc[r].retried /\ loc[r].cookie \notin live => ended

(* "so we never hammer the provider" (ingest.ts 113-114): while a block       *)
(* stands, credentials are sent only by requests that looked before it was    *)
(* set, so less than once for each slot, however many requests come.          *)
NoLoginStorm == tries < Cardinality(Request) \/ tries = 0

(* "a backlog of up to 60 rows is always swept within 4 days" (ingest.ts      *)
(* 27-28): of any four walks that stored their offset, one took each page,    *)
(* with walks in between that failed, were cut off, or were not stored.       *)
SweptInFour == \A o \in Offset : age[o] < 4
=============================================================================
