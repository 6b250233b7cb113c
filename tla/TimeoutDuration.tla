--------------------------- MODULE TimeoutDuration ---------------------------
(* The exponential timeout of a round (exp_duration.go): the countdown reads  *)
(* duration, base and exponent field by field under the read lock while       *)
(* UpdateParams writes the three fields of a new epoch's configuration.       *)
(* Fixed-width integers keep a width, smaller than 64 bits.                   *)
EXTENDS Integers, FiniteSetsExt

CONSTANTS Params,     \* parameter sets that UpdateParams may install
          MaxInt,     \* math.MaxInt64
          MaxPower,   \* math.MaxUint32
          UpperBound, \* maxExponentUpperbound
          LastRound   \* bound on rounds

VARIABLES params,  \* the fields of ExpTimeoutDuration
          mu,      \* "free", "read" or "write"
          writer,  \* the fields SetParams still has to write
          reader,  \* the fields GetTimeoutDuration has read
          valid    \* history: the parameter sets in force during the read

durationVars == <<params, mu, writer, reader, valid>>

Fields == {"duration", "base", "maxExponent"}

(* A duration is an int64, an exponent a uint8, a base a float64: a fraction, *)
(* of either sign, as checkExpParams bounds its power from above only.        *)
ASSUME ParamsAssumption ==
  /\ MaxInt \in Nat
  /\ Params \subseteq [duration : 0 .. MaxInt, base : [num : Int, den : Nat \ {0}],
                       maxExponent : Nat]

(* math.Pow of an integer. *)
Power(n, e) == IF e = 0 THEN 1 ELSE n ^ e

(* A power of a natural number is one.                                        *)
ASSUME PowerAssumption ==
  \A p \in Params : \A e \in 0 .. p.maxExponent :
    /\ Power(p.base.den, e) \in Nat \ {0}
    /\ p.base.num >= 0 => Power(p.base.num, e) \in Nat

NoFields == [f \in {} |-> 0]

(* checkExpParams *)
Valid(p) ==
  /\ p.maxExponent < UpperBound
  /\ Power(p.base.num, p.maxExponent) < MaxPower * Power(p.base.den, p.maxExponent)

(* The capped exponent for a round and the round of highestQuorumCert. *)
Exponent(p, current, highest) ==
  IF highest < current THEN Min({current - highest - 1, p.maxExponent}) ELSE 0

(* The conversion of a float64 to an int64 drops the fraction.                *)
Truncated(n, d) == IF n >= 0 THEN n \div d ELSE -((-n) \div d)

Multiplier(p, e) == Truncated(Power(p.base.num, e), Power(p.base.den, e))

(* The product of two int64. *)
Signed(n) == ((n + MaxInt + 1) % (2 * (MaxInt + 1))) - (MaxInt + 1)

(* Plausible mistake: no saturation. *)
DurationWrapped(p, current, highest) ==
  Signed(p.duration * Multiplier(p, Exponent(p, current, highest)))

(* GetTimeoutDuration behind its lock. *)
Duration(p, current, highest) ==
  LET multiplier == Multiplier(p, Exponent(p, current, highest))
  IN IF multiplier > 0 /\ p.duration > MaxInt \div multiplier
     THEN MaxInt
     ELSE Signed(p.duration * multiplier)

-----------------------------------------------------------------------------

DurationInit ==
  /\ params \in {p \in Params : Valid(p)}
  /\ mu = "free"
  /\ writer = NoFields
  /\ reader = NoFields
  /\ valid = {}

LockRead ==
  /\ mu = "free" /\ reader = NoFields /\ valid = {}
  /\ mu' = "read"
  /\ valid' = {params}
  /\ UNCHANGED <<params, writer, reader>>

(* The reader copies the fields in any order. *)
Read(f) ==
  /\ valid # {} /\ f \notin DOMAIN reader
  /\ reader' = [g \in DOMAIN reader \cup {f} |->
                 IF g = f THEN params[f] ELSE reader[g]]
  /\ mu' = IF DOMAIN reader' = Fields /\ mu = "read" THEN "free" ELSE mu
  /\ UNCHANGED <<params, writer, valid>>

(* The countdown has armed its timer with the result. *)
Armed ==
  /\ DOMAIN reader = Fields
  /\ reader' = NoFields /\ valid' = {}
  /\ UNCHANGED <<params, mu, writer>>

(* SetParams: an invalid set is refused before anything is written. *)
SetParams(p) ==
  /\ Valid(p)
  /\ mu = "free"
  /\ mu' = "write" /\ writer' = p
  /\ UNCHANGED <<params, reader, valid>>

WriteField(f) ==
  /\ f \in DOMAIN writer
  /\ params' = [params EXCEPT ![f] = writer[f]]
  /\ writer' = [g \in DOMAIN writer \ {f} |-> writer[g]]
  /\ mu' = IF writer' = NoFields THEN "free" ELSE mu
  /\ UNCHANGED <<reader, valid>>

DurationNext ==
  \/ LockRead
  \/ Armed
  \/ \E f \in Fields : Read(f) \/ WriteField(f)
  \/ \E p \in Params : SetParams(p)

DurationSpec == DurationInit /\ [][DurationNext]_durationVars

-----------------------------------------------------------------------------

(* The types; outside a write the parameters are one of the valid sets, so    *)
(* that base^maxExponent stays below 2^32 ("an invalid set is rejected        *)
(* before the current one is touched").                                       *)
ParamsInForce ==
  /\ mu \in {"free", "read", "write"}
  /\ DOMAIN writer \subseteq Fields /\ DOMAIN reader \subseteq Fields
  /\ writer = NoFields => params \in Params /\ Valid(params)

(* What GetTimeoutDuration computes from is one parameter set that was in     *)
(* force when it read, never a mixture, although fields are read and written  *)
(* one at a time.                                                             *)
ReadsOneParameterSet ==
  DOMAIN reader = Fields => reader \in valid

(* The exact product of a duration and the whole part of a power, capped at   *)
(* MaxInt64.                                                                  *)
Exact(p, current, highest) ==
  Min({MaxInt, p.duration * Multiplier(p, Min({p.maxExponent, Max({0, current - highest - 1})}))})

(* What the countdown is armed with, and what the parameters in force give    *)
(* for any two rounds, is the exact product, capped at MaxInt64, of the       *)
(* duration and the whole part of the base to the power of the missed rounds, *)
(* capped at maxExponent, although GetTimeoutDuration computes in int64 and   *)
(* SetParams writes field by field: the timeout never wraps "around to a      *)
(* negative timeout, which would retrigger the timer immediately". This holds *)
(* of bases that are not negative. SetParams takes a negative base too, whose *)
(* odd powers do give a negative timeout.                                     *)
DurationIsExact ==
  /\ ParamsInForce /\ ReadsOneParameterSet
  /\ \A current, highest \in 0 .. LastRound :
       /\ writer = NoFields /\ params.base.num >= 0 =>
            Duration(params, current, highest) = Exact(params, current, highest)
       /\ DOMAIN reader = Fields /\ reader.base.num >= 0 =>
            \E p \in valid : Duration(reader, current, highest) = Exact(p, current, highest)

-----------------------------------------------------------------------------
(* The inductive invariant behind the theorems of CountdownTimerProofs.       *)

(* The read lock and the write lock exclude each other. While fields are      *)
(* read, the parameters are the set that was in force when the lock was       *)
(* taken; while they are written, the fields that are left and those that are *)
(* written make up the new set.                                               *)
LockedFields ==
  /\ mu \in {"free", "read", "write"}
  /\ DOMAIN writer \subseteq Fields /\ DOMAIN reader \subseteq Fields
  /\ writer = [f \in DOMAIN writer |-> writer[f]] /\ reader = [f \in DOMAIN reader |-> reader[f]]
  /\ params = [f \in Fields |-> params[f]]
  /\ (mu = "write") <=> (DOMAIN writer # {})
  /\ (mu = "read") <=> (valid # {} /\ DOMAIN reader # Fields)
  /\ DOMAIN reader # {} => valid # {}
  /\ valid # {} =>
       \E p \in Params :
         /\ Valid(p) /\ valid = {p}
         /\ mu = "read" => params = p
         /\ \A f \in DOMAIN reader : reader[f] = p[f]
  /\ \E p \in Params :
       /\ Valid(p)
       /\ \A f \in Fields : (IF f \in DOMAIN writer THEN writer[f] ELSE params[f]) = p[f]

=============================================================================
