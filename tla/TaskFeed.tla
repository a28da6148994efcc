------------------------------ MODULE TaskFeed ------------------------------
(***************************************************************************)
(* The provider daemon's NATS client: a connection that reconnects for     *)
(* ever, a pull subscription and the goroutines that fetch tasks from it.  *)
(* Every startSubscription that succeeds replaces the subscription and     *)
(* starts one more fetch loop: at the start of the daemon, when NATS calls *)
(* the reconnect handler, and when a loop finds the subscription invalid.  *)
(* What becomes of a task that was fetched is in Dispatch and Executor.    *)
(***************************************************************************)
EXTENDS Naturals, FiniteSets

CONSTANT FetchLoops   \* bound: goroutines of messageFetchLoop

ASSUME TaskFeedAssumption == IsFiniteSet(FetchLoops)

VARIABLES
  link,         \* the connection: down, up, closed
  subscription, \* c.subscription: none, valid, invalid
  callback,     \* a call of the reconnect handler is due
  loop,         \* each fetch loop
  mainLine,     \* the main goroutine: starting, serving, draining, exited
  subscribed    \* how often startSubscription succeeded

feedVars == <<link, subscription, callback, loop, mainLine, subscribed>>

TaskFeedTypeOK ==
  /\ link \in {"down", "up", "closed"}
  /\ subscription \in {"none", "valid", "invalid"}
  /\ callback \in BOOLEAN
  /\ loop \in [FetchLoops -> {"off", "look", "renew", "fetch", "handle", "ended"}]
  /\ mainLine \in {"starting", "serving", "draining", "exited"}
  /\ subscribed \in 0..Cardinality(FetchLoops)

\* NewClient has returned; with RetryOnFailedConnect also without a
\* connection.
TaskFeedInit ==
  /\ link \in {"up", "down"}
  /\ subscription = "none" /\ callback = FALSE
  /\ loop = [l \in FetchLoops |-> "off"]
  /\ mainLine = "starting" /\ subscribed = 0

Looping == {l \in FetchLoops : loop[l] \in {"look", "renew", "fetch", "handle"}}
Handling == {l \in FetchLoops : loop[l] = "handle"}
Unstarted == {l \in FetchLoops : loop[l] = "off"}

\* A client that starts its loop before it subscribes.
SubscribeAnyway(loops) ==
  /\ \E l \in Unstarted : loop' = [loops EXCEPT ![l] = "look"]
  /\ \/ link = "up" /\ subscription' = "valid" /\ subscribed' = subscribed + 1
     \/ subscription' = "none" /\ UNCHANGED subscribed

\* startSubscription in a goroutine that leaves the loops as in `loops':
\* PullSubscribe needs an answer of the server.
StartSubscription(loops) ==
  /\ link = "up"
  /\ subscription' = "valid"
  /\ \E l \in Unstarted : loop' = [loops EXCEPT ![l] = "look"]
  /\ subscribed' = subscribed + 1

\* A failure leaves nil in c.subscription, also when there was a valid one.
SubscriptionFails(loops) ==
  /\ subscription' = "none" /\ loop' = loops
  /\ UNCHANGED subscribed

----------------------------------------------------------------------------
\* The connection (external).  The subscription outlives a disconnection; the
\* server may end it.
LinkChanges ==
  /\ mainLine # "exited"
  /\ \/ link = "up" /\ link' = "down" /\ UNCHANGED <<callback, subscription>>
     \/ link = "down" /\ link' = "up" /\ callback' = TRUE /\ UNCHANGED subscription
     \/ subscription = "valid" /\ subscription' = "invalid" /\ UNCHANGED <<link, callback>>
  /\ UNCHANGED <<loop, mainLine, subscribed>>

\* StartListening.  Without a subscription the daemon exits.
StartListening ==
  /\ mainLine = "starting"
  /\ \/ StartSubscription(loop) /\ mainLine' = "serving"
     \/ SubscriptionFails(loop) /\ mainLine' = "exited"
  /\ UNCHANGED <<link, callback>>

\* The reconnect handler, in a goroutine of the NATS library.
Resubscribe ==
  /\ callback /\ mainLine # "exited"
  /\ callback' = FALSE
  /\ \/ StartSubscription(loop)
     \/ SubscriptionFails(loop)
  /\ UNCHANGED <<link, mainLine>>

----------------------------------------------------------------------------
(* messageFetchLoop.                                                       *)

\* A loop that gives up without a subscription.
LookOnce(l) ==
  /\ loop[l] = "look" /\ mainLine # "exited"
  /\ loop' = [loop EXCEPT ![l] = IF mainLine = "draining" \/ subscription # "valid"
                                 THEN "ended" ELSE "fetch"]
  /\ UNCHANGED <<link, subscription, callback, mainLine, subscribed>>

Look(l) ==
  /\ loop[l] = "look" /\ mainLine # "exited"
  /\ loop' = [loop EXCEPT ![l] = IF mainLine = "draining" THEN "ended"
                                 ELSE IF subscription = "valid" THEN "fetch" ELSE "renew"]
  /\ UNCHANGED <<link, subscription, callback, mainLine, subscribed>>

\* It sleeps, subscribes again, which starts another loop, and goes on itself.
Renew(l) ==
  LET goesOn == [loop EXCEPT ![l] = "look"] IN
  /\ loop[l] = "renew" /\ mainLine # "exited"
  /\ \/ StartSubscription(goesOn)
     \/ SubscriptionFails(goesOn)
  /\ UNCHANGED <<link, callback, mainLine>>

\* Fetch of one message: it comes, or a timeout or an error does.
Fetch(l) ==
  /\ loop[l] = "fetch" /\ mainLine # "exited"
  /\ \/ /\ link = "up" /\ subscription = "valid"
        /\ loop' = [loop EXCEPT ![l] = "handle"]
     \/ loop' = [loop EXCEPT ![l] = "look"]
  /\ UNCHANGED <<link, subscription, callback, mainLine, subscribed>>

\* handleMessage returns.
Handled(l) ==
  /\ loop[l] = "handle" /\ mainLine # "exited"
  /\ loop' = [loop EXCEPT ![l] = "look"]
  /\ UNCHANGED <<link, subscription, callback, mainLine, subscribed>>

----------------------------------------------------------------------------
\* The signal: Stop closes the channel the loops look at, then drains the
\* subscription and the connection, and the process ends.
StopFeed ==
  /\ mainLine = "serving"
  /\ mainLine' = "draining"
  /\ subscription' = IF subscription = "valid" THEN "invalid" ELSE subscription
  /\ UNCHANGED <<link, callback, loop, subscribed>>

FeedClosed ==
  /\ mainLine = "draining"
  /\ mainLine' = "exited" /\ link' = "closed"
  /\ UNCHANGED <<subscription, callback, loop, subscribed>>

TaskFeedNext ==
  \/ LinkChanges \/ StartListening \/ Resubscribe \/ StopFeed \/ FeedClosed
  \/ \E l \in FetchLoops : Look(l) \/ Renew(l) \/ Fetch(l) \/ Handled(l)

----------------------------------------------------------------------------
\* A daemon that serves is never deaf: some loop goes on through every loss of
\* the connection or the subscription.  And it takes no more tasks at a time
\* than it has subscribed: one ("one task at a time") until the first
\* reconnection, one more after each.
FeedAlive ==
  /\ mainLine = "serving" => Looping # {}
  /\ Cardinality(Handling) <= subscribed
=============================================================================
