------------------------------ MODULE Pricing ------------------------------
(***************************************************************************)
(* What a rental costs: the pricing engine's choice of a base rate, the    *)
(* quote it makes of one, the rates a session keeps of the quote, the      *)
(* usage updates that add to its running cost and the bill at its end.     *)
(*                                                                         *)
(* A model name is the set of words in it and one name contains another    *)
(* when it has all its words.  VRAM and power are counted in units of      *)
(* which there are UnitsPer in a GB and in a kW.  Hourly quotes are kept   *)
(* times UnitsPer, bills times its square and sixty and the fee and the    *)
(* earnings also times a hundred, so that no amount is rounded (the code   *)
(* computes in decimals).                                                  *)
(***************************************************************************)
EXTENDS Integers, Sequences, FiniteSets

CONSTANTS
  Tables,        \* the base-rate tables a configuration may hold
  ModelNames,    \* the GPU models requests name
  VRAMs, Powers, \* what requests ask for and daemons report, in units
  UnitsPer,      \* units in a GB and in a kW
  VRAMRatePerGB, PowerMultiplier, PlatformFeePercent, \* the configuration
  MaximumSessionHours,
  MaxMinutes,    \* bound: how long a session lasts
  MaxReadings    \* bound: usage updates of a session that change its cost

ASSUME PricingAssumption ==
  /\ UnitsPer \in Nat \ {0} /\ MaxMinutes \in Nat /\ MaxReadings \in Nat
  /\ VRAMs \subseteq Nat /\ Powers \subseteq Nat
  /\ VRAMRatePerGB \in Nat /\ PowerMultiplier \in Nat
  /\ \A t \in Tables : \A k \in DOMAIN t : t[k] \in Nat

VARIABLES
  table,         \* Engine.baseRates
  estimate,      \* the last answer of POST /pricing/calculate
  rental,        \* the priced part of a rental_sessions row
  watched,       \* a model name ...
  quotes         \* ... and the base rates it was quoted so far

pricingVars == <<table, estimate, rental, watched, quotes>>

Default == {"default"}
NoEstimate == [answer |-> "none", quotes |-> {}]
Unpowered == -1     \* ActualPowerW is nil
NoRental == [phase |-> "none", vram |-> 0, estPower |-> 0, power |-> Unpowered,
             hourlyRate |-> 0, vramRate |-> 0, powerRate |-> 0, locked |-> 0,
             minutes |-> 0, readings |-> 0, total |-> 0, charged |-> 0,
             billedPower |-> 0, fee |-> 0, earnings |-> 0]

PricingInit ==
  /\ table \in Tables
  /\ estimate = NoEstimate /\ rental = NoRental
  /\ watched \in ModelNames /\ quotes = {}

----------------------------------------------------------------------------
(* The base rate.                                                          *)

\* getGPUFamilyRate, in its order: the words that open a family and, inside
\* it, the words of a model, the words it must not have and the key it is
\* priced by.  A name that opens a family but is none of its models goes on.
Families == <<
  [opens |-> {"rtx-40", "rtx 40"},
   models |-> <<[has |-> {"4090"}, not |-> {}, key |-> {"geforce", "rtx-40", "4090"}],
                [has |-> {"4080"}, not |-> {}, key |-> {"geforce", "rtx-40", "4080"}],
                [has |-> {"4070"}, not |-> {}, key |-> {"geforce", "rtx-40", "4070"}]>>],
  [opens |-> {"rtx-30", "rtx 30"},
   models |-> <<[has |-> {"3090"}, not |-> {}, key |-> {"geforce", "rtx-30", "3090"}],
                [has |-> {"3080"}, not |-> {}, key |-> {"geforce", "rtx-30", "3080"}]>>],
  [opens |-> {"tesla", "a100", "h100"},
   models |-> <<[has |-> {"h100"}, not |-> {}, key |-> {"nvidia", "tesla", "h100"}],
                [has |-> {"a100"}, not |-> {}, key |-> {"nvidia", "tesla", "a100"}],
                [has |-> {"v100"}, not |-> {}, key |-> {"nvidia", "tesla", "v100"}]>>],
  [opens |-> {"apple", "m1", "m2", "m3"},
   models |-> <<[has |-> {"m3", "ultra"}, not |-> {}, key |-> {"apple", "m3", "ultra"}],
                [has |-> {"m3", "max"}, not |-> {}, key |-> {"apple", "m3", "max"}],
                [has |-> {"m2", "ultra"}, not |-> {"m3"}, key |-> {"apple", "m2", "ultra"}],
                [has |-> {"m2", "max"}, not |-> {"m3"}, key |-> {"apple", "m2", "max"}],
                [has |-> {"m1", "ultra"}, not |-> {"m2", "m3"}, key |-> {"apple", "m1", "ultra"}],
                [has |-> {"m1", "max"}, not |-> {"m2", "m3"}, key |-> {"apple", "m1", "max"}]>>],
  [opens |-> {"amd", "radeon"},
   models |-> <<[has |-> {"7900"}, not |-> {}, key |-> {"amd", "radeon", "7900"}],
                [has |-> {"6900"}, not |-> {}, key |-> {"amd", "radeon", "6900"}]>>]>>

FamilyHits(name) ==
  {h \in (1..Len(Families)) \X (1..6) :
     /\ Families[h[1]].opens \cap name # {}
     /\ h[2] <= Len(Families[h[1]].models)
     /\ Families[h[1]].models[h[2]].has \subseteq name
     /\ Families[h[1]].models[h[2]].not \cap name = {}}

\* The first hit decides, and a key the table lacks reads as zero.
FamilyRate(name) ==
  LET hits == FamilyHits(name)
      First(h) == \A g \in hits : h[1] < g[1] \/ (h[1] = g[1] /\ h[2] <= g[2])
      hit == CHOOSE h \in hits : First(h)
      key == Families[hit[1]].models[hit[2]].key
  IN IF hits # {} /\ key \in DOMAIN table THEN table[key] ELSE 0

Partial(name) == {k \in DOMAIN table : k \subseteq name \/ name \subseteq k}

\* An engine without the exact match.
BaseRateLoose(name) ==
  IF Partial(name) # {} THEN {table[k] : k \in Partial(name)}
  ELSE IF FamilyRate(name) # 0 THEN {FamilyRate(name)}
  ELSE {table[k] : k \in {Default} \cap DOMAIN table}

\* getBaseRate: the rates it may return, none when it fails.  The partial
\* match takes whichever key the iteration over the map meets first.
BaseRate(name) ==
  IF name \in DOMAIN table THEN {table[name]}
  ELSE IF Partial(name) # {} THEN {table[k] : k \in Partial(name)}
  ELSE IF FamilyRate(name) # 0 THEN {FamilyRate(name)}
  ELSE {table[k] : k \in {Default} \cap DOMAIN table}

\* getDynamicPricingFactors: constants, so the 50 % floor never applies.
DemandMultiplier == 1
SupplyBonus == 0

Adjusted(base) ==
  LET rate == base * DemandMultiplier - base * SupplyBonus
  IN IF 2 * rate < base THEN base \div 2 ELSE rate

\* CalculatePricing: what an hour costs (times UnitsPer), and the quote of so
\* many hours.  The renter is quoted the fee on top of the subtotal and the
\* provider the subtotal less the fee.
VRAMHourlyRate(vram) == VRAMRatePerGB * vram
PowerHourlyRate(power) == PowerMultiplier * power
TotalHourlyRate(base, vram, power) ==
  Adjusted(base) * UnitsPer + VRAMHourlyRate(vram) + PowerHourlyRate(power)

Quote(base, r) ==
  LET subtotal == r.hours * TotalHourlyRate(base, r.vram, r.power)
  IN [total |-> subtotal * (100 + PlatformFeePercent),
      earnings |-> subtotal * (100 - PlatformFeePercent)]

----------------------------------------------------------------------------
(* The estimate a client may ask for.                                      *)

\* The handler hands the service a pointer to its struct, which is no
\* map[string]interface{}: nothing of the body arrives, and the defaults are
\* filled in.
Converted(body) == [model |-> {}, vram |-> 0, totalVram |-> 0, power |-> 0, hours |-> 1]

\* ValidatePricingRequest.
Validates(r) ==
  /\ r.model # {}
  /\ r.vram > 0 /\ r.totalVram > 0 /\ r.vram <= r.totalVram
  /\ r.power > 0
  /\ r.hours > 0 /\ r.hours <= MaximumSessionHours

Estimate(name, vram, power) ==
  LET r == Converted([model |-> name, vram |-> vram, power |-> power]) IN
  /\ estimate = NoEstimate     \* bound: asked for once
  /\ estimate' = IF Validates(r)
                   THEN [answer |-> "priced",
                         quotes |-> {Quote(base, r) : base \in BaseRate(r.model)}]
                   ELSE [answer |-> "invalid", quotes |-> {}]
  /\ UNCHANGED <<table, rental, watched, quotes>>

\* GetPricingRates shows every key but the default.
ShownRates == [k \in DOMAIN table \ {Default} |-> table[k]]

----------------------------------------------------------------------------
(* The session.                                                            *)

\* StartRentalSession prices without validating.  Without VRAM the share of
\* the VRAM divides by zero and the handler panics before it changed
\* anything; without a rate it returns the error.  (Billing models the funds
\* it checks and locks.)  VRAMRate and PowerRate are
\* the quote's rates for the VRAM and the power asked for.
StartSession(name, vram, power) ==
  /\ rental.phase = "none"
  /\ vram > 0
  /\ \E base \in BaseRate(name) :
       /\ rental' = [NoRental EXCEPT
            !.phase = "active", !.vram = vram, !.estPower = power,
            !.hourlyRate = Adjusted(base), !.vramRate = VRAMHourlyRate(vram),
            !.powerRate = PowerHourlyRate(power),
            !.locked = TotalHourlyRate(base, vram, power)]
       /\ quotes' = IF name = watched THEN quotes \cup {base} ELSE quotes
  /\ UNCHANGED <<table, estimate, watched>>

\* A bill that takes the watts for kilowatts.
CostWatts(s, power, minutes) ==
  minutes * (s.hourlyRate * UnitsPer * UnitsPer + s.vramRate * s.vram
             + s.powerRate * power * UnitsPer)

\* CalculateCurrentCost, and the cost of a period in ProcessUsageUpdate: the
\* session's rates times its VRAM and its power once more.
Cost(s, power, minutes) ==
  minutes * (s.hourlyRate * UnitsPer * UnitsPer + s.vramRate * s.vram
             + s.powerRate * power)

\* ProcessUsageUpdate bills a minute when the power differs from the last
\* reading, whatever the session's status.
UsageUpdate(power) ==
  /\ rental.phase \in {"active", "ended"} /\ rental.readings < MaxReadings
  /\ rental' = IF power = rental.power THEN rental
               ELSE [rental EXCEPT !.power = power, !.readings = @ + 1,
                                   !.total = @ + Cost(rental, power, 1)]
  /\ UNCHANGED <<table, estimate, watched, quotes>>

TimePasses ==
  /\ rental.phase = "active" /\ rental.minutes < MaxMinutes
  /\ rental' = [rental EXCEPT !.minutes = @ + 30]
  /\ UNCHANGED <<table, estimate, watched, quotes>>

\* EndRentalSession replaces the running total, which is charged.  The fee is
\* 5 % whatever the configuration says.
EndSession ==
  /\ rental.phase = "active"
  /\ LET power == IF rental.power = Unpowered THEN rental.estPower ELSE rental.power
         cost == Cost(rental, power, rental.minutes)
     IN rental' = [rental EXCEPT !.phase = "ended", !.billedPower = power,
                     !.total = cost, !.charged = cost, !.fee = 5 * cost,
                     !.earnings = 95 * cost]
  /\ UNCHANGED <<table, estimate, watched, quotes>>

\* The next rental.
NextSession ==
  /\ rental.phase = "ended"
  /\ rental' = NoRental
  /\ UNCHANGED <<table, estimate, watched, quotes>>

PricingNext ==
  \/ \E m \in ModelNames, v \in VRAMs, p \in Powers :
       Estimate(m, v, p) \/ StartSession(m, v, p)
  \/ \E p \in Powers : UsageUpdate(p)
  \/ TimePasses \/ EndSession \/ NextSession

----------------------------------------------------------------------------
\* A model that GET /pricing/rates shows is always quoted the rate shown,
\* whatever other keys its name contains or is part of.  Quotes of one model
\* can only differ when the table does not list it and several keys of
\* different rates resemble it.
QuotesAgree ==
  /\ watched \in DOMAIN ShownRates => quotes \subseteq {ShownRates[watched]}
  /\ Cardinality(quotes) > 1 =>
       /\ watched \notin DOMAIN table
       /\ \E j, k \in Partial(watched) : table[j] # table[k]

\* The funds locked at the start (an hour's quote) cover the charge of a
\* session of at most an hour, as long as it has no more than one GB and
\* draws no more than one kW: beyond that the bill, which multiplies by the
\* VRAM and by the power a second time, outgrows the quote.
HourCovered ==
  /\ rental.phase = "ended" /\ rental.minutes <= 60
  /\ rental.vram <= UnitsPer /\ rental.billedPower <= UnitsPer
  => rental.charged <= 60 * UnitsPer * rental.locked

\* Prices are predictable: one model has one quote, and the quote bounds the
\* charge.
PricesSound == QuotesAgree /\ HourCovered
=============================================================================
