------------------------------- MODULE Hub -------------------------------
(***************************************************************************)
(* The websocket hub of the API gateway: the goroutine of Run, the readers *)
(* and writers of the connections, and callers of BroadcastToUser, around  *)
(* a map of clients, a read-write lock and one buffered channel per        *)
(* client.  A message is a place in a buffer.  A step is what one of them  *)
(* does between two points where another may run.                          *)
(*                                                                         *)
(* A send on a closed channel, a second close, and a map that is iterated  *)
(* while it is written end the process: `panicked' says so.                *)
(***************************************************************************)
EXTENDS Naturals, FiniteSets

CONSTANTS
  Clients,       \* connections, all of one user
  SendCap,       \* capacity of a client's Send channel
  BroadcastCap,  \* capacity of the hub's broadcast channel
  UserCasts      \* concurrent calls of BroadcastToUser

ASSUME HubAssumption == SendCap \in Nat /\ BroadcastCap \in Nat

VARIABLES
  clients,       \* the hub's map
  buffered,      \* messages in each client's Send channel
  closed,        \* clients whose Send channel is closed
  broadcast,     \* messages in the hub's broadcast channel
  run,           \* "select", "fanout" under the read lock, or "stopped"
  fanout,        \* clients that Run's loop has still to visit
  cast,          \* clients each BroadcastToUser has still to visit, while it
                 \* holds the read lock
  casting,       \* the callers that hold the read lock
  reader,        \* "new", "joining", "reading", "pinging", "leaving", "gone"
  writer,        \* "off", "on", "gone"
  dropped,       \* clients that Run dropped because their buffer was full
  panicked

hubVars == <<clients, buffered, closed, broadcast, run, fanout, cast, casting,
             reader, writer, dropped, panicked>>

HubTypeOK ==
  /\ clients \subseteq Clients /\ closed \subseteq Clients
  /\ buffered \in [Clients -> 0..SendCap]
  /\ broadcast \in 0..BroadcastCap
  /\ run \in {"select", "fanout", "stopped"} /\ fanout \subseteq Clients
  /\ cast \in [UserCasts -> SUBSET Clients] /\ casting \subseteq UserCasts
  /\ reader \in [Clients -> {"new", "joining", "reading", "pinging", "leaving", "gone"}]
  /\ writer \in [Clients -> {"off", "on", "gone"}]
  /\ dropped \subseteq closed /\ panicked \in BOOLEAN

HubInit ==
  /\ clients = {} /\ closed = {} /\ dropped = {} /\ panicked = FALSE
  /\ buffered = [c \in Clients |-> 0] /\ broadcast = 0
  /\ run = "select" /\ fanout = {}
  /\ cast = [u \in UserCasts |-> {}] /\ casting = {}
  /\ reader = [c \in Clients |-> "new"] /\ writer = [c \in Clients |-> "off"]

----------------------------------------------------------------------------
(* Run.                                                                    *)

\* A connection starts its pumps and offers itself on the register channel.
Connect(c) ==
  /\ reader[c] = "new"
  /\ reader' = [reader EXCEPT ![c] = "joining"]
  /\ UNCHANGED <<clients, buffered, closed, broadcast, run, fanout, cast,
                 casting, writer, dropped, panicked>>

\* The write lock is free when no one holds the read lock.
Register(c) ==
  /\ run = "select" /\ reader[c] = "joining" /\ casting = {}
  /\ clients' = clients \cup {c}
  /\ reader' = [reader EXCEPT ![c] = "reading"]
  /\ writer' = [writer EXCEPT ![c] = "on"]
  /\ UNCHANGED <<buffered, closed, broadcast, run, fanout, cast, casting,
                 dropped, panicked>>

\* Unregistration under the read lock, as in the broadcast case.
UnregisterShared(c) ==
  /\ run = "select" /\ reader[c] = "leaving"
  /\ reader' = [reader EXCEPT ![c] = "gone"]
  /\ clients' = clients \ {c}
  /\ closed' = IF c \in clients THEN closed \cup {c} ELSE closed
  /\ UNCHANGED <<buffered, broadcast, run, fanout, cast, casting, writer,
                 dropped, panicked>>

\* A client that Run has dropped is no longer in the map: its channel is
\* not closed again.
Unregister(c) ==
  /\ run = "select" /\ reader[c] = "leaving" /\ casting = {}
  /\ reader' = [reader EXCEPT ![c] = "gone"]
  /\ clients' = clients \ {c}
  /\ closed' = IF c \in clients THEN closed \cup {c} ELSE closed
  /\ UNCHANGED <<buffered, broadcast, run, fanout, cast, casting, writer,
                 dropped, panicked>>

\* The broadcast case takes the read lock, beside the callers that hold it.
TakeBroadcast ==
  /\ run = "select" /\ broadcast > 0
  /\ broadcast' = broadcast - 1
  /\ run' = "fanout" /\ fanout' = clients
  /\ UNCHANGED <<clients, buffered, closed, cast, casting, reader, writer,
                 dropped, panicked>>

\* A client with a full buffer is closed and deleted: a reader blocked in a
\* send to it panics, and a caller that is iterating the map may.
Visit(c) ==
  /\ run = "fanout" /\ c \in fanout
  /\ fanout' = fanout \ {c}
  /\ IF buffered[c] < SendCap
       THEN /\ buffered' = [buffered EXCEPT ![c] = @ + 1]
            /\ UNCHANGED <<clients, closed, dropped, panicked>>
       ELSE /\ closed' = closed \cup {c} /\ dropped' = dropped \cup {c}
            /\ clients' = clients \ {c}
            /\ \/ panicked' = (reader[c] = "pinging")
               \/ casting # {} /\ panicked' = TRUE
            /\ UNCHANGED buffered
  /\ UNCHANGED <<broadcast, run, cast, casting, reader, writer>>

FanoutDone ==
  /\ run = "fanout" /\ fanout = {}
  /\ run' = "select"
  /\ UNCHANGED <<clients, buffered, closed, broadcast, fanout, cast, casting,
                 reader, writer, dropped, panicked>>

\* ctx.Done: Run returns and no one takes what is offered to it any more.
Stop ==
  /\ run = "select"
  /\ run' = "stopped"
  /\ UNCHANGED <<clients, buffered, closed, broadcast, fanout, cast, casting,
                 reader, writer, dropped, panicked>>

----------------------------------------------------------------------------
(* BroadcastToAll and BroadcastToUser, which the Send functions call.      *)

BroadcastToAll ==
  /\ broadcast < BroadcastCap
  /\ broadcast' = broadcast + 1
  /\ UNCHANGED <<clients, buffered, closed, run, fanout, cast, casting, reader,
                 writer, dropped, panicked>>

BroadcastToUser(u) ==
  /\ u \notin casting
  /\ casting' = casting \cup {u}
  /\ cast' = [cast EXCEPT ![u] = clients]
  /\ UNCHANGED <<clients, buffered, closed, broadcast, run, fanout, reader,
                 writer, dropped, panicked>>

\* The iterator may still hold a client that Run has deleted meanwhile.
CastVisit(u, c) ==
  /\ u \in casting /\ c \in cast[u]
  /\ cast' = [cast EXCEPT ![u] = @ \ {c}]
  /\ \/ /\ c \in closed /\ panicked' = TRUE /\ UNCHANGED buffered
     \/ /\ c \notin clients /\ UNCHANGED <<panicked, buffered>>
     \/ /\ c \notin closed /\ UNCHANGED panicked
        /\ buffered' = IF buffered[c] < SendCap
                         THEN [buffered EXCEPT ![c] = @ + 1] ELSE buffered
  /\ UNCHANGED <<clients, closed, broadcast, run, fanout, casting, reader,
                 writer, dropped>>

CastDone(u) ==
  /\ u \in casting /\ cast[u] = {}
  /\ casting' = casting \ {u}
  /\ UNCHANGED <<clients, buffered, closed, broadcast, run, fanout, cast,
                 reader, writer, dropped, panicked>>

----------------------------------------------------------------------------
(* The pumps of a connection.                                              *)

\* ReadPump hands a ping to handleMessage, which sends to the client's own
\* channel and waits for room.
Ping(c) ==
  /\ reader[c] = "reading"
  /\ reader' = [reader EXCEPT ![c] = "pinging"]
  /\ UNCHANGED <<clients, buffered, closed, broadcast, run, fanout, cast,
                 casting, writer, dropped, panicked>>

Pong(c) ==
  /\ reader[c] = "pinging"
  /\ \/ c \in closed /\ panicked' = TRUE /\ UNCHANGED <<buffered, reader>>
     \/ /\ c \notin closed /\ buffered[c] < SendCap
        /\ buffered' = [buffered EXCEPT ![c] = @ + 1]
        /\ reader' = [reader EXCEPT ![c] = "reading"]
        /\ UNCHANGED panicked
  /\ UNCHANGED <<clients, closed, broadcast, run, fanout, cast, casting,
                 writer, dropped>>

\* ReadMessage fails: the peer left, no pong came in time, or the writer
\* closed the connection.  The reader then offers to unregister.
ReadFails(c) ==
  /\ reader[c] = "reading"
  /\ reader' = [reader EXCEPT ![c] = "leaving"]
  /\ UNCHANGED <<clients, buffered, closed, broadcast, run, fanout, cast,
                 casting, writer, dropped, panicked>>

\* WritePump writes everything that is queued as one frame.
Flush(c) ==
  /\ writer[c] = "on" /\ buffered[c] > 0
  /\ buffered' = [buffered EXCEPT ![c] = 0]
  /\ UNCHANGED <<clients, closed, broadcast, run, fanout, cast, casting,
                 reader, writer, dropped, panicked>>

\* It ends when the channel is closed and empty, or a write or ping fails.
WriterEnds(c) ==
  /\ writer[c] = "on"
  /\ writer' = [writer EXCEPT ![c] = "gone"]
  /\ UNCHANGED <<clients, buffered, closed, broadcast, run, fanout, cast,
                 casting, reader, dropped, panicked>>

HubNext ==
  /\ ~panicked
  /\ \/ TakeBroadcast \/ FanoutDone \/ Stop \/ BroadcastToAll
     \/ \E c \in Clients :
          \/ Connect(c) \/ Register(c) \/ Unregister(c) \/ Visit(c)
          \/ Ping(c) \/ Pong(c) \/ ReadFails(c) \/ Flush(c) \/ WriterEnds(c)
     \/ \E u \in UserCasts :
          \/ BroadcastToUser(u) \/ CastDone(u)
          \/ \E c \in Clients : CastVisit(u, c)

----------------------------------------------------------------------------
\* The process ends only through a client that Run dropped for being slow:
\* clients that leave by themselves, at any moment of any broadcast, never
\* have their channel closed while someone may still send to it.
LeavingIsSafe == panicked => dropped # {}
=============================================================================
