------------------------------- MODULE MCEdge -------------------------------
(***************************************************************************)
(* The components at the platform's edge share no state with each other,   *)
(* so one run takes them one at a time: `focus' is chosen at the start and *)
(* the component it names moves.                                           *)
(***************************************************************************)
EXTENDS SessionStore, CacheService, Hub, SimpleGateway, RentalClient, Balancer,
        Pricing, Monitor, KratosCache, Settings, TaskFeed, TLC

VARIABLE focus

Focuses == {"sessions", "limiter", "gpus", "jobs", "hub", "simple", "client",
            "balancer", "pricing", "monitor", "kratos", "settings", "feed"}

edgeVars == <<focus, now, storeVars, limiterVars, cacheVars, hubVars, simpleVars,
              rentalClientVars, balancerVars, pricingVars, monitorVars, kratosVars,
              settingsVars, feedVars>>

\* What a configuration may list: models that contain one another, a family
\* of which only some are listed, and with or without a default.
SomeRates == [k \in {{"geforce", "rtx-40", "4090"}, {"geforce", "rtx-40", "4080"},
                     {"geforce", "rtx-40", "4080", "super"}, {"apple", "m2", "max"}} |->
               CASE k = {"geforce", "rtx-40", "4090"} -> 5
                 [] k = {"geforce", "rtx-40", "4080"} -> 4
                 [] k = {"apple", "m2", "max"} -> 3
                 [] OTHER -> 6]
MCTables ==
  {SomeRates,
   [k \in DOMAIN SomeRates \cup {Default} |->
      IF k = Default THEN 2 ELSE SomeRates[k]]}

\* Listed models, one that is part of several keys, other spellings that only
\* the families know, one whose family key is not listed, a model nothing
\* knows, and the empty name, which every key contains.
MCModelNames ==
  {{"geforce", "rtx-40", "4090"}, {"geforce", "rtx-40", "4080"},
   {"geforce", "rtx-40"}, {"rtx 40", "4090"}, {"rtx 40", "4070"}, {"m2", "m3", "max"}, {"arc"}, {}}

\* A session whose cookie has its ID in front, and one whose cookie has not.
MCCookieID == [s \in {"i1", "i2"} |-> IF s = "i1" THEN "i1" ELSE "sealed"]

\* An escrow that takes the whole of a new wallet, and one that adds to it.
MCEscrows == {-1, 2}

\* Callers of Redis are alike, and so are sessions.
MCSymmetry == Permutations(Callers) \cup Permutations(Sessions)

EdgeInit ==
  /\ focus \in Focuses
  /\ SessionStoreInit /\ CacheServiceInit /\ HubInit /\ SimpleInit
  /\ RentalClientInit /\ BalancerInit /\ PricingInit /\ MonitorInit
  /\ KratosInit /\ SettingsInit /\ TaskFeedInit
  /\ focus # "pricing" => table = SomeRates /\ watched = {}
  /\ focus # "settings" => file.state = "absent"
  /\ focus # "feed" => link = "up"

daemonVars == <<settingsVars, feedVars>>
otherVars == <<pricingVars, monitorVars, kratosVars, daemonVars>>

\* The session store and the limiter beside it, and the GPU copies and the
\* rest of the cache, use different keys and move apart.  The clock ticks once
\* for the session store: each lifetime is then over, or not yet.
StoreMoves ==
  /\ \/ focus = "sessions" /\ UNCHANGED limiterVars
     \/ /\ focus = "limiter"
        /\ UNCHANGED <<sessionKey, expiresAt, userSet, userSetLapse, created, deleted,
                       overtaken>>
  /\ SessionStoreNext
  /\ focus = "sessions" => now' <= 1
  /\ UNCHANGED <<cacheVars, hubVars, simpleVars, rentalClientVars, balancerVars, otherVars>>

CacheMoves ==
  /\ \/ focus = "gpus" /\ UNCHANGED <<jobVars, rateVars>>
     \/ focus = "jobs" /\ UNCHANGED gpuVars
  /\ CacheServiceNext
  /\ UNCHANGED <<storeVars, limiterVars, hubVars, simpleVars, rentalClientVars,
                 balancerVars, otherVars>>

HubMoves ==
  /\ focus = "hub" /\ HubNext
  /\ UNCHANGED <<now, storeVars, limiterVars, cacheVars, simpleVars,
                 rentalClientVars, balancerVars, otherVars>>

\* The requests of the stand-alone gateway are alike, and so are its users and
\* its GPUs: the requests come in order, and the first names one of each.
InOrder ==
  /\ \A q, r \in SimpleRequests : q < r /\ handler[r].at # "new" => handler[q].at # "new"
  /\ handler[1].user # "bob" /\ handler[1].gpu # "y"

SimpleMoves ==
  /\ focus = "simple" /\ SimpleNext /\ InOrder'
  /\ UNCHANGED <<now, storeVars, limiterVars, cacheVars, hubVars,
                 rentalClientVars, balancerVars, otherVars>>

ClientMoves ==
  /\ focus = "client" /\ RentalClientNext
  /\ UNCHANGED <<now, storeVars, limiterVars, cacheVars, hubVars, simpleVars,
                 balancerVars, otherVars>>

BalancerMoves ==
  /\ focus = "balancer" /\ BalancerNext
  /\ UNCHANGED <<now, storeVars, limiterVars, cacheVars, hubVars, simpleVars,
                 rentalClientVars, otherVars>>

PricingMoves ==
  /\ focus = "pricing" /\ PricingNext
  /\ UNCHANGED <<now, storeVars, limiterVars, cacheVars, hubVars, simpleVars,
                 rentalClientVars, balancerVars, monitorVars, kratosVars, daemonVars>>

MonitorMoves ==
  /\ focus = "monitor" /\ MonitorNext
  /\ UNCHANGED <<now, storeVars, limiterVars, cacheVars, hubVars, simpleVars,
                 rentalClientVars, balancerVars, pricingVars, kratosVars, daemonVars>>

KratosMoves ==
  /\ focus = "kratos" /\ KratosNext
  /\ UNCHANGED <<now, storeVars, limiterVars, cacheVars, hubVars, simpleVars,
                 rentalClientVars, balancerVars, pricingVars, monitorVars, daemonVars>>

\* The daemon's configuration and its connection.
DaemonMoves ==
  /\ \/ focus = "settings" /\ SettingsNext /\ UNCHANGED feedVars
     \/ focus = "feed" /\ TaskFeedNext /\ UNCHANGED settingsVars
  /\ UNCHANGED <<now, storeVars, limiterVars, cacheVars, hubVars, simpleVars,
                 rentalClientVars, balancerVars, pricingVars, monitorVars, kratosVars>>

EdgeNext ==
  /\ \/ StoreMoves \/ CacheMoves \/ HubMoves \/ SimpleMoves \/ ClientMoves
     \/ BalancerMoves \/ PricingMoves \/ MonitorMoves \/ KratosMoves \/ DaemonMoves
  /\ UNCHANGED focus

EdgeSpec == EdgeInit /\ [][EdgeNext]_edgeVars

\* What the session store, the rate limiters and the caches keep in Redis
\* agrees with what their callers were told, whichever command of a call is
\* the last to run.
RedisSound == StoreSound /\ CacheSound /\ KnownWasVouched

\* Connections that come and go by themselves harm neither the gateway's hub
\* nor the monitoring service.
SocketsSound == LeavingIsSafe /\ FeedSound

\* The daemon runs as its owner configured it and keeps listening for tasks.
DaemonSound == SettingsSound /\ FeedAlive
=============================================================================
