---------------------------- MODULE SessionStore ----------------------------
(***************************************************************************)
(* The Redis session store of the auth-service: one key per session and a  *)
(* set of the user's session IDs, kept by separate commands that other     *)
(* requests interleave with, and the Redis rate limiter beside it.  One    *)
(* user and one rate-limit key are modelled.  A request may die after any  *)
(* command (its context ends, Redis fails).                                *)
(***************************************************************************)
EXTENDS RedisKeys

CONSTANTS
  Sessions,       \* session IDs
  Lifetimes,      \* durations asked for by Create and ExtendExpiration
  RateWindow,     \* window of the rate limiter
  MaxCount        \* bound on the limiter's counter

ASSUME StoreAssumption ==
  Lifetimes \subseteq Durations /\ RateWindow \in Durations /\ MaxCount \in Nat

VARIABLES
  sessionKey,     \* lapse of each session's key ...
  expiresAt,      \* ... and the ExpiresAt of the session kept under it
  userSet,        \* members of the user's session set ...
  userSetLapse,   \* ... and the lapse of its key
  storeCall,      \* what each caller is doing
  created,        \* sessions Create was called for
  deleted,        \* sessions whose key a Delete removed
  overtaken,      \* deleted while an update had already read them
  rateCount,      \* the limiter's counter ...
  rateLapse,      \* ... and the lapse of its key
  rateDied        \* a request died between INCR and EXPIRE

storeVars == <<sessionKey, expiresAt, userSet, userSetLapse, storeCall, created, deleted,
               overtaken>>
limiterVars == <<rateCount, rateLapse, rateDied>>
sessionStoreVars == <<now, storeVars, limiterVars>>

NoSession == "none"
\* `until' is the ExpiresAt of the session in hand, `left' the time to live
\* that was computed of it.
Free == [pc |-> "free", s |-> NoSession, until |-> 0, left |-> 0, ids |-> {}]

SessionStoreTypeOK ==
  /\ now \in 0..MaxTime
  /\ sessionKey \in [Sessions -> Nat] /\ expiresAt \in [Sessions -> Nat]
  /\ userSet \subseteq Sessions /\ userSetLapse \in Nat
  /\ storeCall \in [Callers ->
       [pc : {"free", "exists", "ttl", "set", "sadd", "expire", "del", "srem",
              "dels", "delset", "limit"},
        s : Sessions \cup {NoSession}, until : Nat, left : Nat, ids : SUBSET Sessions]]
  /\ created \subseteq Sessions /\ deleted \subseteq created
  /\ overtaken \subseteq deleted
  /\ rateCount \in 0..MaxCount /\ rateLapse \in Instants /\ rateDied \in BOOLEAN

SessionStoreInit ==
  /\ now = 0
  /\ sessionKey = [s \in Sessions |-> Absent] /\ expiresAt = [s \in Sessions |-> 0]
  /\ userSet = {} /\ userSetLapse = Absent
  /\ storeCall = [c \in Callers |-> Free]
  /\ created = {} /\ deleted = {} /\ overtaken = {}
  /\ rateCount = 0 /\ rateLapse = Absent /\ rateDied = FALSE

At(c, pc) == storeCall[c].pc = pc
Step(c, pc) == storeCall' = [storeCall EXCEPT ![c].pc = pc]
Done(c) == storeCall' = [storeCall EXCEPT ![c] = Free]
Begin(c, pc, s, until) ==
  storeCall' = [storeCall EXCEPT ![c] = [pc |-> pc, s |-> s, until |-> until,
                                         left |-> 0, ids |-> {}]]

----------------------------------------------------------------------------
(* Create, and Update, which is Exists and then Create.                    *)

\* Create is called for a new session.
Create(c, s) ==
  /\ At(c, "free") /\ s \notin created
  /\ created' = created \cup {s}
  /\ \E d \in Lifetimes : Begin(c, "ttl", s, now + d)
  /\ UNCHANGED <<sessionKey, expiresAt, userSet, userSetLapse, deleted, overtaken>>

\* The time left until ExpiresAt is computed once: none left is an error.
CreateTTL(c) ==
  LET call == storeCall[c] IN
  /\ At(c, "ttl")
  /\ IF Live(call.until)
       THEN storeCall' = [storeCall EXCEPT ![c] =
                            [call EXCEPT !.pc = "set", !.left = call.until - now]]
       ELSE Done(c)
  /\ UNCHANGED <<sessionKey, expiresAt, userSet, userSetLapse, created, deleted, overtaken>>

\* SET, for the time that was computed, which ends later than ExpiresAt when
\* time has gone by.  The rest of Create does not look at ExpiresAt.
CreateSet(c) ==
  LET call == storeCall[c] IN
  /\ At(c, "set")
  /\ sessionKey' = [sessionKey EXCEPT ![call.s] = now + call.left]
  /\ expiresAt' = [expiresAt EXCEPT ![call.s] = call.until]
  /\ storeCall' = [storeCall EXCEPT ![c] = [call EXCEPT !.pc = "sadd", !.until = 0]]
  /\ UNCHANGED <<userSet, userSetLapse, created, deleted, overtaken>>

CreateAdd(c) ==
  /\ At(c, "sadd")
  /\ userSet' = Members(userSet, userSetLapse) \cup {storeCall[c].s}
  /\ userSetLapse' = AddLapse(userSetLapse)
  /\ Step(c, "expire")
  /\ UNCHANGED <<sessionKey, expiresAt, created, deleted, overtaken>>

\* EXPIRE gives the whole set the same time, shorter or longer than what it
\* had.
CreateExpire(c) ==
  /\ At(c, "expire")
  /\ userSetLapse' = ExpireLapse(userSetLapse, storeCall[c].left)
  /\ Done(c)
  /\ UNCHANGED <<sessionKey, expiresAt, userSet, created, deleted, overtaken>>

\* An update that does not mind that the session it read is not there.
RefreshBlind(c, s) ==
  /\ At(c, "free") /\ s \in created
  /\ \/ Begin(c, "ttl", s, expiresAt[s])
     \/ \E d \in Lifetimes : Begin(c, "ttl", s, now + d)
  /\ UNCHANGED <<sessionKey, expiresAt, userSet, userSetLapse, created, deleted, overtaken>>

\* UpdateActivity and ExtendExpiration read the session and call Update with
\* the ExpiresAt they read, or with a new one.
Refresh(c, s) ==
  /\ At(c, "free") /\ Live(sessionKey[s])
  /\ \/ Begin(c, "exists", s, expiresAt[s])
     \/ \E d \in Lifetimes : Begin(c, "exists", s, now + d)
  /\ UNCHANGED <<sessionKey, expiresAt, userSet, userSetLapse, created, deleted, overtaken>>

UpdateExists(c) ==
  /\ At(c, "exists")
  /\ IF Live(sessionKey[storeCall[c].s]) THEN Step(c, "ttl") ELSE Done(c)
  /\ UNCHANGED <<sessionKey, expiresAt, userSet, userSetLapse, created, deleted, overtaken>>

----------------------------------------------------------------------------
(* Deletion.                                                               *)

\* The sessions of ids are deleted: what an update in progress has read.
Remove(ids) ==
  /\ sessionKey' = [s \in Sessions |-> IF s \in ids THEN Absent ELSE sessionKey[s]]
  /\ deleted' = deleted \cup {s \in ids : Live(sessionKey[s])}
  /\ overtaken' = overtaken \cup
       {s \in ids : /\ Live(sessionKey[s])
                    /\ \E c \in Callers : /\ storeCall[c].s = s
                                          /\ storeCall[c].pc \in {"exists", "ttl", "set"}}

Delete(c, s) ==
  /\ At(c, "free") /\ Live(sessionKey[s])
  /\ Begin(c, "del", s, 0)
  /\ UNCHANGED <<sessionKey, expiresAt, userSet, userSetLapse, created, deleted, overtaken>>

DeleteKey(c) ==
  /\ At(c, "del")
  /\ Remove({storeCall[c].s})
  /\ Step(c, "srem")
  /\ UNCHANGED <<expiresAt, userSet, userSetLapse, created>>

DeleteMember(c) ==
  /\ At(c, "srem")
  /\ userSet' = Members(userSet, userSetLapse) \ {storeCall[c].s}
  /\ userSetLapse' = IF userSet' = {} THEN Absent ELSE userSetLapse
  /\ Done(c)
  /\ UNCHANGED <<sessionKey, expiresAt, created, deleted, overtaken>>

\* DeleteAllUserSessions: the members are listed, ...
DeleteAll(c) ==
  /\ At(c, "free")
  /\ storeCall' = [storeCall EXCEPT ![c] =
       [Free EXCEPT !.pc = "dels", !.ids = Members(userSet, userSetLapse)]]
  /\ UNCHANGED <<sessionKey, expiresAt, userSet, userSetLapse, created, deleted, overtaken>>

\* ... each one's key is deleted, unless its DEL fails, which nobody looks at,
DeleteEach(c) ==
  /\ At(c, "dels")
  /\ IF storeCall[c].ids = {}
       THEN Step(c, "delset") /\ UNCHANGED <<sessionKey, deleted, overtaken>>
       ELSE \E s \in storeCall[c].ids :
              /\ Remove({s}) \/ UNCHANGED <<sessionKey, deleted, overtaken>>
              /\ storeCall' = [storeCall EXCEPT ![c].ids = @ \ {s}]
  /\ UNCHANGED <<expiresAt, userSet, userSetLapse, created>>

\* ... and then the set, with whatever was added to it meanwhile.
DeleteSet(c) ==
  /\ At(c, "delset")
  /\ userSet' = {} /\ userSetLapse' = Absent
  /\ Done(c)
  /\ UNCHANGED <<sessionKey, expiresAt, created, deleted, overtaken>>

----------------------------------------------------------------------------
(* RateLimiter.Allow and Reset.                                            *)

\* Allow that arms the window on the second request.
AllowLate(c) ==
  LET count == IF Live(rateLapse) THEN rateCount ELSE 0 IN
  /\ At(c, "free") /\ count < MaxCount
  /\ rateCount' = count + 1
  /\ rateLapse' = AddLapse(rateLapse)
  /\ IF rateCount' = 2 THEN Step(c, "limit") ELSE UNCHANGED storeCall
  /\ UNCHANGED rateDied

\* INCR; only the first request of a window sets its end.
Allow(c) ==
  LET count == IF Live(rateLapse) THEN rateCount ELSE 0 IN
  /\ At(c, "free") /\ count < MaxCount
  /\ rateCount' = count + 1
  /\ rateLapse' = AddLapse(rateLapse)
  /\ IF rateCount' = 1 THEN Step(c, "limit") ELSE UNCHANGED storeCall
  /\ UNCHANGED rateDied

AllowExpire(c) ==
  /\ At(c, "limit")
  /\ rateLapse' = ExpireLapse(rateLapse, RateWindow)
  /\ Done(c)
  /\ UNCHANGED <<rateCount, rateDied>>

Reset(c) ==
  /\ At(c, "free") /\ Live(rateLapse)
  /\ rateCount' = 0 /\ rateLapse' = Absent
  /\ UNCHANGED <<storeCall, rateDied>>

----------------------------------------------------------------------------
\* A request dies between two commands.
Abort(c) ==
  /\ ~At(c, "free")
  /\ rateDied' = (rateDied \/ At(c, "limit"))
  /\ Done(c)
  /\ UNCHANGED <<now, sessionKey, expiresAt, userSet, userSetLapse, created, deleted,
                 overtaken, rateCount, rateLapse>>

StoreStep(c) ==
  \/ \E s \in Sessions : Create(c, s) \/ Refresh(c, s) \/ Delete(c, s)
  \/ CreateTTL(c) \/ CreateSet(c) \/ CreateAdd(c) \/ CreateExpire(c) \/ UpdateExists(c)
  \/ DeleteKey(c) \/ DeleteMember(c)
  \/ DeleteAll(c) \/ DeleteEach(c) \/ DeleteSet(c)

LimiterStep(c) == Allow(c) \/ AllowExpire(c) \/ Reset(c)

SessionStoreNext ==
  \/ Later /\ UNCHANGED <<storeVars, limiterVars>>
  \/ \E c \in Callers :
       \/ StoreStep(c) /\ UNCHANGED <<now, limiterVars>>
       \/ LimiterStep(c) /\ UNCHANGED <<now, sessionKey, expiresAt, userSet, userSetLapse,
                                        created, deleted, overtaken>>
       \/ Abort(c)

----------------------------------------------------------------------------
\* A session that was deleted is not brought back by UpdateActivity or
\* ExtendExpiration, unless the update had read it before it was deleted:
\* Get and Exists come before SET, and nothing holds the session in between.
LoggedOutForGood ==
  \A s \in deleted : Live(sessionKey[s]) => s \in overtaken

\* A rate-limit counter without an end of its window belongs to a request
\* that is about to set it, or one that died there: otherwise whoever hits
\* the limit would be shut out for ever.
LimiterLifts ==
  rateLapse = Forever => rateDied \/ \E c \in Callers : At(c, "limit")

\* What is in Redis agrees with what callers were told, whichever command an
\* update, a deletion or a request stopped at.
StoreSound == LoggedOutForGood /\ LimiterLifts
=============================================================================
