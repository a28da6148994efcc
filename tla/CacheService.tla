---------------------------- MODULE CacheService ----------------------------
(***************************************************************************)
(* The redis-cache-service: copies of GPU availability and job status with *)
(* short times to live, the sets that index them, the invalidations and    *)
(* the per-endpoint rate limit.  Each method is a sequence of Redis        *)
(* commands; the errors of the commands that keep the sets are ignored.    *)
(* One user, one endpoint.  The other getters and setters (user session,   *)
(* pricing, statistics) are one command each on a key of their own.        *)
(***************************************************************************)
EXTENDS RedisKeys

CONSTANTS
  GPUs,          \* GPU identifiers
  CacheTTL,      \* TTLGPUAvailability and TTLJobStatus
  RateLimit,     \* the limit a caller of CheckRateLimit passes
  RateTTL        \* TTLRateLimit

NoGPU == "none"

ASSUME CacheAssumption ==
  /\ CacheTTL \in Durations /\ RateTTL \in Durations /\ RateLimit \in Nat
  /\ NoGPU \notin GPUs

VARIABLES
  gpuKey,        \* lapse of gpu:availability:<id> ...
  gpuValue,      \* ... and whether it says the GPU is available
  available,     \* the set gpus:available ...
  availableLapse,\* ... and the lapse of its key
  jobKey,        \* lapse of job:status:<id> (one job) ...
  jobValue,      \* ... and its status
  activeJob,     \* whether the user's active-jobs set holds the job ...
  activeLapse,   \* ... and the lapse of that set's key
  rate,          \* the counter rate_limit:<user>:<endpoint> ...
  rateEnd,       \* ... and the lapse of its key
  cacheCall,     \* what each caller is doing
  contended,     \* GPUs that two calls wrote at the same time
  skipped        \* GPUs for which a set command failed

cacheVars == <<gpuKey, gpuValue, available, availableLapse, jobKey, jobValue,
               activeJob, activeLapse, rate, rateEnd, cacheCall, contended,
               skipped>>
cacheServiceVars == <<now, cacheVars>>

Quiet == [pc |-> "quiet", gpu |-> NoGPU]

CacheServiceTypeOK ==
  /\ now \in 0..MaxTime
  /\ gpuKey \in [GPUs -> Instants] /\ gpuValue \in [GPUs -> BOOLEAN]
  /\ available \subseteq GPUs /\ availableLapse \in Instants
  /\ jobKey \in Instants /\ jobValue \in {"none", "running", "completed"}
  /\ activeJob \in BOOLEAN /\ activeLapse \in Instants
  /\ rate \in Nat /\ rateEnd \in Instants
  /\ cacheCall \in [Callers ->
       [pc : {"quiet", "add", "renew", "remove", "active", "count"},
        gpu : GPUs \cup {NoGPU}]]
  /\ contended \subseteq GPUs /\ skipped \subseteq GPUs

CacheServiceInit ==
  /\ now = 0
  /\ gpuKey = [g \in GPUs |-> Absent] /\ gpuValue = [g \in GPUs |-> FALSE]
  /\ available = {} /\ availableLapse = Absent
  /\ jobKey = Absent /\ jobValue = "none"
  /\ activeJob = FALSE /\ activeLapse = Absent
  /\ rate = 0 /\ rateEnd = Absent
  /\ cacheCall = [c \in Callers |-> Quiet]
  /\ contended = {} /\ skipped = {}

gpuVars == <<gpuKey, gpuValue, available, availableLapse, contended, skipped>>
jobVars == <<jobKey, jobValue, activeJob, activeLapse>>
rateVars == <<rate, rateEnd>>

In(c, pc) == cacheCall[c].pc = pc
Busy(g) == {c \in Callers : cacheCall[c].gpu = g}

----------------------------------------------------------------------------
(* SetGPUAvailability: SET, then SADD and EXPIRE or SREM, then the model    *)
(* index, which nothing reads.                                             *)

SetGPU(c, g, up) ==
  /\ In(c, "quiet")
  /\ gpuKey' = [gpuKey EXCEPT ![g] = now + CacheTTL]
  /\ gpuValue' = [gpuValue EXCEPT ![g] = up]
  /\ cacheCall' = [cacheCall EXCEPT ![c] =
       [Quiet EXCEPT !.pc = IF up THEN "add" ELSE "remove", !.gpu = g]]
  /\ contended' = IF Busy(g) # {} THEN contended \cup {g} ELSE contended
  /\ UNCHANGED <<available, availableLapse, skipped, jobVars, rateVars>>

\* SADD and the EXPIRE of the whole set: what other GPUs left in it lives on.
SetGPUAdd(c) ==
  LET g == cacheCall[c].gpu IN
  /\ In(c, "add")
  /\ cacheCall' = [cacheCall EXCEPT ![c].pc = "renew"]
  /\ \/ /\ available' = Members(available, availableLapse) \cup {g}
        /\ availableLapse' = AddLapse(availableLapse)
        /\ UNCHANGED skipped
     \/ /\ skipped' = skipped \cup {g}
        /\ UNCHANGED <<available, availableLapse>>
  /\ UNCHANGED <<gpuKey, gpuValue, contended, jobVars, rateVars>>

SetGPURenew(c) ==
  /\ In(c, "renew")
  /\ cacheCall' = [cacheCall EXCEPT ![c] = Quiet]
  /\ availableLapse' = ExpireLapse(availableLapse, CacheTTL)
  /\ UNCHANGED <<gpuKey, gpuValue, available, contended, skipped, jobVars,
                 rateVars>>

\* A setter that leaves an unavailable GPU in the set.
SetGPURemoveNot(c) ==
  /\ In(c, "remove")
  /\ cacheCall' = [cacheCall EXCEPT ![c] = Quiet]
  /\ UNCHANGED <<gpuVars, jobVars, rateVars>>

SetGPURemove(c) ==
  LET g == cacheCall[c].gpu IN
  /\ In(c, "remove")
  /\ cacheCall' = [cacheCall EXCEPT ![c] = Quiet]
  /\ \/ /\ available' = Members(available, availableLapse) \ {g}
        /\ availableLapse' = IF available' = {} THEN Absent ELSE availableLapse
        /\ UNCHANGED skipped
     \/ skipped' = skipped \cup {g} /\ UNCHANGED <<available, availableLapse>>
  /\ UNCHANGED <<gpuKey, gpuValue, contended, jobVars, rateVars>>

\* InvalidateGPUCache deletes the GPU's own keys and leaves the set.
InvalidateGPU(g) ==
  /\ Live(gpuKey[g])
  /\ gpuKey' = [gpuKey EXCEPT ![g] = Absent]
  /\ UNCHANGED <<gpuValue, available, availableLapse, cacheCall, contended,
                 skipped, jobVars, rateVars>>

----------------------------------------------------------------------------
(* SetJobStatus and InvalidateUserCache.                                   *)

\* SET; a job that is queued or running then joins the user's active set,
\* which it leaves only when the set lapses.
SetJobStatus(c, status) ==
  /\ In(c, "quiet")
  /\ jobKey' = now + CacheTTL /\ jobValue' = status
  /\ cacheCall' = IF status = "running"
                    THEN [cacheCall EXCEPT ![c].pc = "active"] ELSE cacheCall
  /\ UNCHANGED <<activeJob, activeLapse, gpuVars, rateVars>>

SetJobActive(c) ==
  /\ In(c, "active")
  /\ activeJob' = TRUE
  /\ activeLapse' = now + CacheTTL
  /\ cacheCall' = [cacheCall EXCEPT ![c] = Quiet]
  /\ UNCHANGED <<jobKey, jobValue, gpuVars, rateVars>>

\* KEYS user:*:<id> and DEL: the active set goes, job:status keys stay.
InvalidateUser ==
  /\ Live(activeLapse)
  /\ activeJob' = FALSE /\ activeLapse' = Absent
  /\ UNCHANGED <<jobKey, jobValue, gpuVars, rateVars, cacheCall>>

----------------------------------------------------------------------------
(* CheckRateLimit: GET, then INCR and EXPIRE in one pipeline.              *)

\* A check that lets every request through to the counter.
RateReadAny(c) ==
  /\ In(c, "quiet") /\ rate < RateLimit + 3
  /\ cacheCall' = [cacheCall EXCEPT ![c].pc = "count"]
  /\ UNCHANGED <<gpuVars, jobVars, rateVars>>

RateRead(c) ==
  /\ In(c, "quiet")
  /\ (IF Live(rateEnd) THEN rate ELSE 0) < RateLimit
  /\ cacheCall' = [cacheCall EXCEPT ![c].pc = "count"]
  /\ UNCHANGED <<gpuVars, jobVars, rateVars>>

RateCount(c) ==
  /\ In(c, "count")
  /\ rate' = (IF Live(rateEnd) THEN rate ELSE 0) + 1
  /\ rateEnd' = now + RateTTL
  /\ cacheCall' = [cacheCall EXCEPT ![c] = Quiet]
  /\ UNCHANGED <<gpuVars, jobVars>>

----------------------------------------------------------------------------
CacheServiceNext ==
  \/ Later /\ UNCHANGED cacheVars
  \/ /\ UNCHANGED now
     /\ \/ \E c \in Callers :
             \/ \E g \in GPUs, up \in BOOLEAN : SetGPU(c, g, up)
             \/ SetGPUAdd(c) \/ SetGPURenew(c) \/ SetGPURemove(c)
             \/ \E st \in {"running", "completed"} : SetJobStatus(c, st)
             \/ SetJobActive(c)
             \/ RateRead(c) \/ RateCount(c)
        \/ \E g \in GPUs : InvalidateGPU(g)
        \/ InvalidateUser

----------------------------------------------------------------------------
\* gpus:available does not list a GPU that its own key says is taken, unless
\* the call that said so has not finished, two calls wrote the GPU at the
\* same time, or a set command failed.
ListedIsAvailable ==
  \A g \in Members(available, availableLapse) :
    Live(gpuKey[g]) /\ ~gpuValue[g] =>
      Busy(g) # {} \/ g \in contended \/ g \in skipped

\* CheckRateLimit reads before it counts, so requests that overlap pass the
\* limit, but by no more than the requests that were reading at once.
OvershootBounded == rate <= RateLimit + Cardinality(Callers) - 1

\* The copies and counters of the cache are off by no more than the calls
\* that are under way.
CacheSound == ListedIsAvailable /\ OvershootBounded
=============================================================================
