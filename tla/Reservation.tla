---------------------------- MODULE Reservation ----------------------------
(* What a renter may rely on of rental-service: leases that are made, begun *)
(* and ended in one step each, the market's free GPUs and the balances.     *)
(* As long as no request overlapped another one, a lease is only made of a  *)
(* free GPU by a user whose balance covers the hours asked for, and ends    *)
(* once.  (Who asks for no hours, or for fewer, needs no balance: the hours *)
(* are the renter's word and not a limit.)  After an overlap the same GPU   *)
(* may be leased twice and a lease end again, each time for its full price; *)
(* but every lease still goes forward and is charged to its own user, by    *)
(* the time since its own start.  Rental is shown to implement it.          *)
EXTENDS Integers

CONSTANTS Users, GPUs, Leases, Price, Hours, InitialBalance

VARIABLES free,      \* GPUs on offer
          balance,   \* of the users
          lease,     \* leases that were made: status, user, GPU, start and hours
          now,       \* the clock
          alone      \* no request overlapped another one so far

vars == <<free, balance, lease, now, alone>>

Init ==
  /\ free = GPUs
  /\ balance = [u \in Users |-> InitialBalance]
  /\ lease = [i \in {} |-> 0]
  /\ now = 0
  /\ alone = TRUE

Made == DOMAIN lease

(* createRental.                                                            *)
Make(i, u, g, h) ==
  /\ i \notin Made
  /\ alone => g \in free /\ balance[u] >= h * Price[g]
  /\ lease' = [k \in Made \cup {i} |-> IF k # i THEN lease[k] ELSE
                 [status |-> "pending", user |-> u, gpu |-> g, start |-> 0,
                  hours |-> h]]
  /\ free' = free \ {g}
  /\ UNCHANGED <<balance, now, alone>>

(* startRental.                                                             *)
Begin(i) ==
  /\ i \in Made /\ lease[i].status = "pending"
  /\ lease' = [lease EXCEPT ![i].status = "running", ![i].start = now]
  /\ UNCHANGED <<free, balance, now, alone>>

(* stopRental.                                                              *)
End(i) ==
  LET x == lease[i] IN
  /\ i \in Made
  /\ x.status = "running" \/ (x.status = "completed" /\ ~alone)
  /\ lease' = [lease EXCEPT ![i].status = "completed"]
  /\ free' = free \cup {x.gpu}
  /\ balance' = [balance EXCEPT ![x.user] = @ - (now - x.start) * Price[x.gpu]]
  /\ UNCHANGED <<now, alone>>

Tick ==
  /\ now' = now + 1
  /\ UNCHANGED <<free, balance, lease, alone>>

Overlap ==
  /\ alone' = FALSE
  /\ UNCHANGED <<free, balance, lease, now>>

Next ==
  \/ \E i \in Leases : \/ \E u \in Users, g \in GPUs, h \in Hours : Make(i, u, g, h)
                       \/ Begin(i) \/ End(i)
  \/ Tick \/ Overlap

Spec == Init /\ [][Next]_vars
=============================================================================
