------------------------------ MODULE Monitor ------------------------------
(***************************************************************************)
(* The gpu-monitoring-service: a collector that refreshes the GPU records, *)
(* a broadcaster that sends them to every websocket viewer once a second,  *)
(* and a handler per viewer that greets it with the records and then reads *)
(* until the connection ends.  clientsMu guards the map of viewers and is  *)
(* held over a whole broadcast; dataMu guards the map of records, but what *)
(* viewers are sent is encoded after it was released.  One GPU, whose      *)
(* record has two fields that an update of it sets one after the other.    *)
(***************************************************************************)
EXTENDS Naturals

CONSTANT Viewers     \* websocket connections

VARIABLES
  feedClients,   \* the clients map
  feedHandler,   \* where handleWebSocket is, for each viewer
  open,          \* viewers whose connection the service has not closed
  peer,          \* the viewer's side: reading, not reading, or gone
  writers,       \* who is inside WriteJSON, for each viewer
  caster,        \* the broadcaster: where it is ...
  todo,          \* ... the viewers it has still to write to ...
  held,          \* ... the record its message points to ...
  firstField,    \* ... and the field it has encoded of it
  gpu,           \* the record in gpuData: two fields
  updating,      \* the collector holds dataMu
  inPlace,       \* an update wrote into the record the message points to
  restField,     \* the field a REST request, which holds dataMu, has encoded
  torn,          \* whether a REST answer, or the last message, mixed two updates
  crashed        \* the broadcaster panicked

viewerVars == <<feedClients, feedHandler, open, peer>>
casterVars == <<caster, todo, held, firstField, inPlace>>
dataVars == <<gpu, updating, restField>>
monitorVars == <<viewerVars, writers, casterVars, dataVars, torn, crashed>>

Record(v) == [a |-> v, b |-> v]
NoRest == 2
NoMessage == [live |-> FALSE, rec |-> Record(0)]

MonitorInit ==
  /\ feedClients = {} /\ feedHandler = [v \in Viewers |-> "none"] /\ open = {}
  /\ peer = [v \in Viewers |-> "well"] /\ writers = [v \in Viewers |-> {}]
  /\ caster = "idle" /\ todo = {} /\ held = NoMessage
  /\ firstField = 0 /\ inPlace = FALSE
  /\ gpu = Record(0) /\ updating = FALSE /\ restField = NoRest
  /\ torn = {} /\ crashed = FALSE

clientsMuFree == caster # "sending"

----------------------------------------------------------------------------
(* handleWebSocket.                                                        *)

Upgrade(v) ==
  /\ feedHandler[v] = "none" /\ clientsMuFree
  /\ feedClients' = feedClients \cup {v} /\ open' = open \cup {v}
  /\ feedHandler' = [feedHandler EXCEPT ![v] = "greet"]
  /\ UNCHANGED <<peer, writers, casterVars, dataVars, torn, crashed>>

\* The viewer is in the map, so a broadcast may be writing to it.
Greet(v) ==
  /\ feedHandler[v] = "greet" /\ ~updating
  /\ feedHandler' = [feedHandler EXCEPT ![v] = "greeting"]
  /\ writers' = [writers EXCEPT ![v] = @ \cup {"handler"}]
  /\ UNCHANGED <<feedClients, open, peer, casterVars, dataVars, torn, crashed>>

\* The error of the write is ignored; a viewer that does not read blocks it.
Greeted(v) ==
  /\ feedHandler[v] = "greeting" /\ (peer[v] # "stuck" \/ v \notin open)
  /\ feedHandler' = [feedHandler EXCEPT ![v] = "read"]
  /\ writers' = [writers EXCEPT ![v] = @ \ {"handler"}]
  /\ UNCHANGED <<feedClients, open, peer, casterVars, dataVars, torn, crashed>>

\* The connection panics when it notices two writers.  In the handler the
\* HTTP server recovers, before the deferred removal was set up; in the
\* broadcaster nothing does.
Overlap(v) ==
  /\ writers[v] = {"handler", "caster"}
  /\ \/ /\ feedHandler' = [feedHandler EXCEPT ![v] = "panicked"]
        /\ writers' = [writers EXCEPT ![v] = {"caster"}]
        /\ UNCHANGED crashed
     \/ crashed' = TRUE /\ UNCHANGED <<feedHandler, writers>>
  /\ UNCHANGED <<feedClients, open, peer, casterVars, dataVars, torn>>

FeedReadFails(v) ==
  /\ feedHandler[v] = "read" /\ (peer[v] = "gone" \/ v \notin open)
  /\ feedHandler' = [feedHandler EXCEPT ![v] = "leave"]
  /\ UNCHANGED <<feedClients, open, peer, writers, casterVars, dataVars, torn, crashed>>

\* A handler that only closes its connection.
LeaveListed(v) ==
  /\ feedHandler[v] = "leave" /\ clientsMuFree
  /\ open' = open \ {v}
  /\ feedHandler' = [feedHandler EXCEPT ![v] = "left"]
  /\ UNCHANGED <<feedClients, peer, writers, casterVars, dataVars, torn, crashed>>

Leave(v) ==
  /\ feedHandler[v] = "leave" /\ clientsMuFree
  /\ feedClients' = feedClients \ {v} /\ open' = open \ {v}
  /\ feedHandler' = [feedHandler EXCEPT ![v] = "left"]
  /\ UNCHANGED <<peer, writers, casterVars, dataVars, torn, crashed>>

\* The viewer stops reading, reads again, or goes away.
PeerChanges(v) ==
  /\ feedHandler[v] # "none" /\ peer[v] # "gone"
  /\ \E p \in {"well", "stuck", "gone"} \ {peer[v]} : peer' = [peer EXCEPT ![v] = p]
  /\ UNCHANGED <<feedClients, feedHandler, open, writers, casterVars, dataVars, torn, crashed>>

----------------------------------------------------------------------------
(* broadcastData and broadcast.                                            *)

\* The copy of the map points to the records themselves.
Copy ==
  /\ caster = "idle" /\ feedClients # {} /\ ~updating
  /\ caster' = "copied" /\ held' = [live |-> TRUE, rec |-> gpu]
  /\ UNCHANGED <<todo, firstField, inPlace, viewerVars, writers, dataVars, torn, crashed>>

Broadcast ==
  /\ caster = "copied"
  /\ caster' = "sending" /\ todo' = feedClients
  /\ UNCHANGED <<held, firstField, inPlace, viewerVars, writers, dataVars, torn, crashed>>

Seen == IF held.live THEN gpu ELSE held.rec

WriteBegin(v) ==
  /\ caster = "sending" /\ v \in todo
  /\ \A u \in Viewers : "caster" \notin writers[u]
  /\ writers' = [writers EXCEPT ![v] = @ \cup {"caster"}]
  /\ firstField' = Seen.a
  /\ UNCHANGED <<caster, todo, held, inPlace, viewerVars, dataVars, torn, crashed>>

\* A write fails on a closed connection and may fail once the viewer is gone;
\* it has no deadline.
WriteEnd(v) ==
  /\ "caster" \in writers[v]
  /\ \/ /\ peer[v] # "stuck" /\ v \in open
        /\ torn' = IF firstField # Seen.b THEN torn \cup {"viewer"} ELSE torn
        /\ UNCHANGED <<feedClients, open>>
     \/ /\ peer[v] = "gone" \/ v \notin open
        /\ feedClients' = feedClients \ {v} /\ open' = open \ {v}
        /\ UNCHANGED torn
  /\ writers' = [writers EXCEPT ![v] = @ \ {"caster"}]
  /\ todo' = todo \ {v}
  /\ UNCHANGED <<feedHandler, peer, caster, held, firstField, inPlace, dataVars, crashed>>

BroadcastEnd ==
  /\ caster = "sending" /\ todo = {}
  /\ caster' = "idle" /\ held' = NoMessage /\ firstField' = 0 /\ inPlace' = FALSE
  /\ torn' = torn \ {"viewer"}
  /\ UNCHANGED <<todo, viewerVars, writers, dataVars, crashed>>

----------------------------------------------------------------------------
(* updateGPUData and the REST handlers.                                    *)

\* An update that does not wait for the readers.
UpdateBeginUnlocked ==
  /\ ~updating
  /\ updating' = TRUE
  /\ gpu' = [gpu EXCEPT !.a = (@ + 1) % 2]
  /\ inPlace' = (inPlace \/ held.live)
  /\ UNCHANGED <<caster, todo, held, firstField, restField, viewerVars, writers, torn, crashed>>

\* nvidia-smi answered: the record in the map is written in place.
UpdateBegin ==
  /\ ~updating /\ restField = NoRest
  /\ updating' = TRUE
  /\ gpu' = [gpu EXCEPT !.a = (@ + 1) % 2]
  /\ inPlace' = (inPlace \/ held.live)
  /\ UNCHANGED <<caster, todo, held, firstField, restField, viewerVars, writers, torn, crashed>>

UpdateFinish ==
  /\ updating
  /\ updating' = FALSE
  /\ gpu' = Record(gpu.a)
  /\ UNCHANGED <<casterVars, restField, viewerVars, writers, torn, crashed>>

\* It failed: mock records replace those in the map, and a message that is
\* being sent keeps the old ones.
MockUpdate ==
  /\ ~updating /\ restField = NoRest
  /\ gpu' = Record((gpu.a + 1) % 2)
  /\ held' = IF held.live THEN [live |-> FALSE, rec |-> gpu] ELSE held
  /\ UNCHANGED <<caster, todo, firstField, inPlace, updating, restField, viewerVars,
                 writers, torn, crashed>>

\* handleGetGPUs, handleGetGPU, handleGetStats and handleGetAllocations encode
\* while they hold the read lock.
RestBegin ==
  /\ ~updating /\ restField = NoRest
  /\ restField' = gpu.a
  /\ UNCHANGED <<gpu, updating, casterVars, viewerVars, writers, torn, crashed>>

RestEnd ==
  /\ restField # NoRest
  /\ restField' = NoRest
  /\ torn' = IF restField # gpu.b THEN torn \cup {"rest"} ELSE torn
  /\ UNCHANGED <<gpu, updating, casterVars, viewerVars, writers, crashed>>

----------------------------------------------------------------------------
MonitorNext ==
  /\ ~crashed
  /\ \/ \E v \in Viewers :
          \/ Upgrade(v) \/ Greet(v) \/ Greeted(v) \/ Overlap(v) \/ FeedReadFails(v)
          \/ Leave(v) \/ PeerChanges(v) \/ WriteBegin(v) \/ WriteEnd(v)
     \/ Copy \/ Broadcast \/ BroadcastEnd
     \/ UpdateBegin \/ UpdateFinish \/ MockUpdate \/ RestBegin \/ RestEnd

----------------------------------------------------------------------------
\* A viewer whose handler returned is no longer in the map and its connection
\* is closed, unless the handler panicked because a broadcast reached the
\* viewer while it was being greeted: then it stays until a write fails.
NoDeadViewers ==
  \A v \in Viewers : feedHandler[v] = "left" => v \notin feedClients /\ v \notin open

\* An answer never mixes two updates when it is given under the lock, and a
\* message to the viewers mixes them only when an update wrote into the
\* records it points to after the map was copied.
AnswersWhole == "rest" \notin torn /\ ("viewer" \in torn => inPlace)

\* The feed neither keeps viewers that left nor mixes records it could keep
\* apart.
FeedSound == NoDeadViewers /\ AnswersWhole
=============================================================================
