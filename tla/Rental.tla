------------------------------- MODULE Rental -------------------------------
(***************************************************************************)
(* rental-service: reservations of GPU instances.                          *)
(*                                                                         *)
(* Requests run concurrently against PostgreSQL at READ COMMITTED, the     *)
(* isolation level of a transaction that does not ask for another one.     *)
(* The writes of a transaction are one step, its commit: no other request  *)
(* sees them earlier, and none of them depends on a value that another     *)
(* transaction could change while this one waits for a row, except through *)
(* the WHERE of a statement, which is evaluated again after the wait.      *)
(* What a handler read before is in its copies and may be old.             *)
(*                                                                         *)
(* A rental is named by the request that created it.                       *)
(***************************************************************************)
EXTENDS Integers

CONSTANTS Users,
          GPUs,             \* rows of table gpu_instances
          MaxRequests,      \* bound: requests the service receives
          MaxTime,          \* bound: hours the clock runs
          Price,            \* price_per_hour of a GPU
          Hours,            \* durations a renter asks for, of either sign
          InitialBalance,   \* users.balance when the model starts
          Faults            \* kinds of fault: "store"

Requests == 1 .. MaxRequests

Rentals == Requests

ASSUME RentalAssumption ==
  /\ Users # {} /\ GPUs # {}
  /\ MaxRequests \in Nat /\ MaxTime \in Nat
  /\ Price \in [GPUs -> Nat \ {0}]
  /\ Hours \subseteq Int
  /\ InitialBalance \in Nat
  /\ Faults \subseteq {"store"}

VARIABLES gpu,       \* gpu_instances.status
          balance,   \* users.balance
          rental,    \* table gpu_rentals
          now,       \* the clock
          pc,        \* the statement or transaction request r runs next
          arg,       \* the request's arguments
          since,     \* copy of start_time that stopRental read
          stops,     \* history: transactions of stopRental that stopped a rental
          serial     \* history: no request has arrived while another one ran

vars == <<gpu, balance, rental, now, pc, arg, since, stops, serial>>

AnyUser == CHOOSE u \in Users : TRUE
AnyGPU  == CHOOSE g \in GPUs : TRUE

RentalRow == [status : {"none", "pending", "running", "completed"},
              user : Users, gpu : GPUs, start : Nat,
              connected : BOOLEAN]

NoRental == [status |-> "none", user |-> AnyUser, gpu |-> AnyGPU,
             start |-> 0, connected |-> FALSE]

Args == [op : {"create", "start", "stop"}, user : Users, gpu : GPUs,
         hours : Int, rental : Rentals]

Calls == {"CheckGPU", "CheckBalance", "Reserve", "StartRental",
          "GetRental", "StopRental"}

(* The tables, the clock and the handlers' copies keep their types; a stop *)
(* never credits the renter.                                               *)
TypeOK ==
  /\ gpu \in [GPUs -> {"available", "busy"}]
  /\ balance \in [Users -> {b \in Int : b <= InitialBalance}]
  /\ rental \in [Rentals -> RentalRow]
  /\ now \in Nat
  /\ pc \in [Requests -> Calls \cup {"idle", "done"}]
  /\ arg \in [Requests -> Args]
  /\ since \in [Requests -> Nat]
  /\ stops \in [Rentals -> Nat]
  /\ serial \in BOOLEAN

Init ==
  /\ gpu = [g \in GPUs |-> "available"]
  /\ balance = [u \in Users |-> InitialBalance]
  /\ rental = [i \in Rentals |-> NoRental]
  /\ now = 0
  /\ pc = [r \in Requests |-> "idle"]
  /\ arg = [r \in Requests |-> [op |-> "create", user |-> AnyUser,
                                gpu |-> AnyGPU, hours |-> 0, rental |-> r]]
  /\ since = [r \in Requests |-> 0]
  /\ stops = [i \in Rentals |-> 0]
  /\ serial = TRUE

Open(i) == rental[i].status \in {"pending", "running"}

Running(r) == pc[r] \in Calls

Goto(r, c) == pc' = [pc EXCEPT ![r] = c] /\ UNCHANGED arg

Return(r) == Goto(r, "done")
-----------------------------------------------------------------------------
(* A client sends a request.  A rental is named only once it exists; any   *)
(* user may name any rental.                                               *)
Entry == [create |-> "CheckGPU", start |-> "StartRental", stop |-> "GetRental"]

Receive(r, o, u, g, h, i) ==
  /\ pc[r] = "idle"
  /\ \A q \in Requests : q < r => pc[q] # "idle"
  /\ pc' = [pc EXCEPT ![r] = Entry[o]]
  /\ arg' = [arg EXCEPT ![r] = [op |-> o, user |-> u, gpu |-> g, hours |-> h,
                                rental |-> i]]
  /\ serial' = (serial /\ \A q \in Requests : ~Running(q))
  /\ UNCHANGED <<gpu, balance, rental, now, since, stops>>

Arrive(r) ==
  \E u \in Users :
    \/ \E g \in GPUs, h \in Hours : Receive(r, "create", u, g, h, r)
    \/ \E i \in Rentals, o \in {"start", "stop"} :
          /\ rental[i].status # "none"
          /\ Receive(r, o, u, AnyGPU, 0, i)
-----------------------------------------------------------------------------
(* createRental: two reads outside the transaction, then the transaction.  *)

(* Mutant of CheckGPU: the status is not looked at.                        *)
CheckGPUAny(r) ==
  /\ pc[r] = "CheckGPU"
  /\ Goto(r, "CheckBalance")
  /\ UNCHANGED <<gpu, balance, rental, now, since, stops, serial>>

CheckGPU(r) ==
  /\ pc[r] = "CheckGPU"
  /\ IF gpu[arg[r].gpu] = "available" THEN Goto(r, "CheckBalance") ELSE Return(r)
  /\ UNCHANGED <<gpu, balance, rental, now, since, stops, serial>>

(* Nothing asks whether the hours are positive: for no hours, or fewer,    *)
(* an empty account is enough.                                             *)
EstimatedCost(h, g) == h * Price[g]

CheckBalance(r) ==
  /\ pc[r] = "CheckBalance"
  /\ IF balance[arg[r].user] < EstimatedCost(arg[r].hours, arg[r].gpu)
     THEN Return(r)
     ELSE Goto(r, "Reserve")
  /\ UNCHANGED <<gpu, balance, rental, now, since, stops, serial>>

Reserve(r) ==
  /\ pc[r] = "Reserve"
  /\ rental' = [rental EXCEPT ![r] =
                  [NoRental EXCEPT !.status = "pending", !.user = arg[r].user,
                                   !.gpu = arg[r].gpu]]
  /\ gpu' = [gpu EXCEPT ![arg[r].gpu] = "busy"]
  /\ Return(r)
  /\ UNCHANGED <<balance, now, since, stops, serial>>

(* startRental: the first UPDATE may match no row, which is not looked at; *)
(* the second one matches by id alone.                                     *)
(* Mutant of StartRental: the WHERE does not ask for status pending.       *)
StartRentalAny(r) ==
  LET i == arg[r].rental
  IN /\ pc[r] = "StartRental"
     /\ rental' = [rental EXCEPT ![i].status = "running", ![i].start = now]
     /\ Return(r)
     /\ UNCHANGED <<gpu, balance, now, since, stops, serial>>

StartRental(r) ==
  LET i == arg[r].rental
      matches == rental[i].user = arg[r].user /\ rental[i].status = "pending"
  IN /\ pc[r] = "StartRental"
     /\ rental' = [rental EXCEPT
                     ![i].status = IF matches THEN "running" ELSE @,
                     ![i].start = IF matches THEN now ELSE @,
                     ![i].connected = TRUE]
     /\ Return(r)
     /\ UNCHANGED <<gpu, balance, now, since, stops, serial>>

(* Mutant of GetRental: the status is not asked for.                       *)
GetRentalAny(r) ==
  LET row == rental[arg[r].rental]
  IN /\ pc[r] = "GetRental"
     /\ since' = [since EXCEPT ![r] = row.start]
     /\ Goto(r, "StopRental")
     /\ UNCHANGED <<gpu, balance, rental, now, stops, serial>>

(* Mutant of GetRental: another user's rental is stopped, too.              *)
GetRentalOfAnyone(r) ==
  LET row == rental[arg[r].rental]
  IN /\ pc[r] = "GetRental"
     /\ IF row.status = "running"
        THEN /\ since' = [since EXCEPT ![r] = row.start]
             /\ Goto(r, "StopRental")
        ELSE UNCHANGED since /\ Return(r)
     /\ UNCHANGED <<gpu, balance, rental, now, stops, serial>>

(* stopRental: a read without a row lock, then three UPDATEs by id.  The   *)
(* GPU and the price of a rental never change, so they need no copy.       *)
GetRental(r) ==
  LET row == rental[arg[r].rental]
  IN /\ pc[r] = "GetRental"
     /\ IF row.user = arg[r].user /\ row.status = "running"
        THEN /\ since' = [since EXCEPT ![r] = row.start]
             /\ Goto(r, "StopRental")
        ELSE UNCHANGED since /\ Return(r)
     /\ UNCHANGED <<gpu, balance, rental, now, stops, serial>>

(* Mutant of StopRental: the GPU is not made available again.              *)
StopRentalBusy(r) ==
  LET i == arg[r].rental
  IN /\ pc[r] = "StopRental"
     /\ rental' = [rental EXCEPT ![i].status = "completed"]
     /\ stops' = [stops EXCEPT ![i] = @ + 1]
     /\ Return(r)
     /\ UNCHANGED <<gpu, balance, now, since, serial>>

StopRental(r) ==
  LET i == arg[r].rental
      g == rental[i].gpu
  IN /\ pc[r] = "StopRental"
     /\ rental' = [rental EXCEPT ![i].status = "completed"]
     /\ gpu' = [gpu EXCEPT ![g] = "available"]
     /\ balance' = [balance EXCEPT ![arg[r].user] =
                      @ - EstimatedCost(now - since[r], g)]
     /\ stops' = [stops EXCEPT ![i] = @ + 1]
     /\ Return(r)
     /\ UNCHANGED <<now, since, serial>>
-----------------------------------------------------------------------------
(* A statement or the commit fails, or the process dies: the transaction   *)
(* is rolled back and the request is over.                                 *)
Fail(r) ==
  /\ "store" \in Faults
  /\ Running(r)
  /\ Return(r)
  /\ UNCHANGED <<gpu, balance, rental, now, since, stops, serial>>

Tick ==
  /\ now < MaxTime
  /\ now' = now + 1
  /\ UNCHANGED <<gpu, balance, rental, pc, arg, since, stops, serial>>

(* The bounds are reached.                                                 *)
Quiet ==
  /\ now = MaxTime
  /\ \A r \in Requests : pc[r] = "done"
  /\ UNCHANGED vars

Handler(r) ==
  \/ CheckGPU(r) \/ CheckBalance(r) \/ Reserve(r)
  \/ StartRental(r)
  \/ GetRental(r) \/ StopRental(r)

Next ==
  \/ \E r \in Requests : Arrive(r) \/ Handler(r) \/ Fail(r)
  \/ Tick
  \/ Quiet

Spec == Init /\ [][Next]_vars
-----------------------------------------------------------------------------
(* No GPU is taken out of the market for nothing: one that is busy has a   *)
(* rental that is open, however requests overlap and wherever they fail.   *)
NoGPUStranded ==
  \A g \in GPUs : gpu[g] = "busy" => \E i \in Rentals : Open(i) /\ rental[i].gpu = g

Forward(i) ==
  /\ rental[i].status = "running" =>
       /\ rental'[i].status \in {"running", "completed"}
       /\ rental'[i].start = rental[i].start
  /\ rental[i].status = "completed" => rental'[i].status = "completed"

(* A rental only goes forward, from pending to running to completed, also  *)
(* when starts and stops of it overlap, and keeps its start time once it   *)
(* runs, so that what is charged is the time since its one start.          *)
StatusForward == [][\A i \in Rentals : Forward(i)]_rental

(* docs/STATUS.md on rental-service: "Rental creation with PostgreSQL      *)
(* transaction (availability + balance check, fund lock, GPU status        *)
(* update)": a GPU has one open rental at most, and is then busy.          *)
OneRentalPerGPU ==
  \A i \in Rentals : Open(i) =>
    /\ gpu[rental[i].gpu] = "busy"
    /\ \A k \in Rentals : Open(k) /\ rental[k].gpu = rental[i].gpu => k = i

(* The GPU is exclusive as long as requests did not overlap: no rollback   *)
(* in the middle of a request, repeated start or repeated stop shares it.  *)
ExclusiveGPU == serial => OneRentalPerGPU

(* A rental is stopped, and charged, once, as long as requests did not     *)
(* overlap: a repeated stop is refused ("Rental not found or not running").*)
StoppedOnce == serial => \A i \in Rentals : stops[i] <= 1

(* Without overlap a GPU serves one renter, who is charged for it once.    *)
SerialRentals == ExclusiveGPU /\ StoppedOnce

(* The table's rows as leases: what was agreed, when it began and how far   *)
(* it is.  The hours are those of the request that created the rental; no   *)
(* row keeps them.                                                          *)
AsLease(row, h) == [status |-> row.status, user |-> row.user, gpu |-> row.gpu,
                    start |-> row.start, hours |-> h]

Book == [i \in {k \in Rentals : rental[k].status # "none"} |->
           AsLease(rental[i], arg[i].hours)]

OnOffer == {g \in GPUs : gpu[g] = "available"}

Agreed == INSTANCE Reservation
  WITH Leases <- Rentals, free <- OnOffer, lease <- Book, alone <- serial

(* The reads and transactions of a request amount to one step of a lease,   *)
(* with its guards as long as requests do not overlap; and whatever         *)
(* overlaps, a lease goes forward and each stop charges its own renter by   *)
(* the time since its one start, in the step that frees its GPU.            *)
ImplementsReservation == Agreed!Spec
=============================================================================
