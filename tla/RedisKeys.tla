----------------------------- MODULE RedisKeys -----------------------------
(***************************************************************************)
(* What the services that keep state in Redis rely on (external): each     *)
(* command is atomic, a key may have a time to live, and a key whose time  *)
(* has come is absent.  A key is modelled by the instant it lapses at:     *)
(* Absent when there is none, Forever when it has no time to live.         *)
(***************************************************************************)
EXTENDS Naturals, FiniteSets

CONSTANTS
  MaxTime,  \* bound on the clock
  Callers   \* concurrent requests of a service that uses Redis

ASSUME RedisAssumption == MaxTime \in Nat /\ Callers # {} /\ IsFiniteSet(Callers)

VARIABLE now

Absent == 0
\* Later than any time to live can end.
Forever == 1000 + MaxTime
Durations == 0..999
Instants == 0..Forever

Live(lapse) == lapse > now
\* A set whose key has lapsed has no members.
Members(set, lapse) == IF Live(lapse) THEN set ELSE {}
\* The key after SADD: a set that SADD creates has no time to live.
AddLapse(lapse) == IF Live(lapse) THEN lapse ELSE Forever
\* The key after EXPIRE: nothing happens to an absent one.
ExpireLapse(lapse, ttl) == IF Live(lapse) THEN now + ttl ELSE lapse

Later == now < MaxTime /\ now' = now + 1
=============================================================================
