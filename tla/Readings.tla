------------------------------- MODULE Readings ------------------------------
(***************************************************************************)
(* The energy register that the CSMS reads out of a station's message        *)
(* (energy_from_samples in src/src/csms/events.rs): which of its samples      *)
(* counts, and what it is in Wh.                                             *)
(*                                                                          *)
(* A unit is what the CSMS takes it for; the three energy units are ten to   *)
(* the power of 0, Kilo and Mega apart, scaled like the width of a Decimal.  *)
(***************************************************************************)
EXTENDS Decimals, Sequences, SequencesExt, FiniteSets, FiniteSetsExt

CONSTANTS
  SamplePool,   \* the samples of a message: [measurand, unit, multiplier, context, value, unreadable]
  MaxSamples,   \* bound: how many samples a message carries
  Kilo, Mega,   \* the 3 and the 6 of unit_exponent
  NoReading     \* None

ASSUME ReadingsAssumption == MaxSamples \in Nat /\ Kilo \in Nat /\ Mega \in Nat

VARIABLES message,   \* what the message is: see Purposes
          samples    \* the samples it carries, in order

readingVars == <<message, samples>>

(* observe: the opening reading of a transaction is the first one, every     *)
(* other the last, and the ends of a transaction have a context of their own. *)
Purposes == {"Started", "Updated", "Ended", "MeterValues"}
Prefer_first(purpose) == "First"  \* mutant: whichever comes first
Prefer(purpose) == IF purpose = "Started" THEN "First" ELSE "Last"
PreferredContext(purpose) ==
  CASE purpose = "Started" -> "Transaction.Begin"
    [] purpose = "Ended"   -> "Transaction.End"
    [] OTHER               -> "None"

readingInit == message \in Purposes /\ samples = << >>
readingNext ==
  /\ Len(samples) < MaxSamples
  /\ \E s \in SamplePool : samples' = Append(samples, s)
  /\ UNCHANGED message

---------------------------------------------------------------------------

unit_exponent(unit) ==
  CASE unit \in {"None", "Wh"} -> 0
    [] unit = "kWh"            -> Kilo
    [] unit = "MWh"            -> Mega

Warn(state, kind) == [state EXCEPT !.warnings = Append(@, kind)]
Keep(slot, reading) == IF slot = NoReading \/ Prefer(message) = "Last" THEN reading ELSE slot

(* The multiplier first, then the unit. *)
converted(sample) ==
  LET scaled == checked_pow10(sample.value, sample.multiplier)
  IN IF scaled = NoDecimal THEN NoDecimal ELSE checked_pow10(scaled, unit_exponent(sample.unit))

Noted(state, sample) ==
  LET reading == [wh |-> converted(sample), context |-> sample.context]
      in_context == PreferredContext(message) # "None" /\ sample.context = PreferredContext(message)
  IN [state EXCEPT !.best = Keep(@, reading), !.best_in_context = IF in_context THEN Keep(@, reading) ELSE @]

(* One sample: skipped, reported, or kept in the slots it belongs to. *)
examine(state, sample) ==
  IF sample.measurand \notin {"None", "Energy"} THEN state
  ELSE IF sample.value = NoDecimal THEN IF sample.unreadable THEN Warn(state, "UnreadableReading") ELSE state
  ELSE IF sample.unit = "Other" THEN Warn(state, "UnknownEnergyUnit")
  ELSE IF converted(sample) = NoDecimal THEN Warn(state, "UnrepresentableReading")
  ELSE Noted(state, sample)

energy_from_samples ==
  LET end == FoldLeft(examine, [best |-> NoReading, best_in_context |-> NoReading, warnings |-> << >>], samples)
  IN [reading |-> IF end.best_in_context # NoReading THEN end.best_in_context ELSE end.best,
      warnings |-> end.warnings]

---------------------------------------------------------------------------

(* The energy samples, those whose number can be read in Wh, and those of    *)
(* them that name the end of the transaction the message is about.           *)
Registers == {i \in DOMAIN samples : samples[i].measurand \in {"None", "Energy"}
                                     /\ (samples[i].value # NoDecimal \/ samples[i].unreadable)}
Usable == {i \in Registers : samples[i].value # NoDecimal /\ samples[i].unit # "Other"
                             /\ converted(samples[i]) # NoDecimal}
AtTheEnd == {i \in Usable : PreferredContext(message) # "None" /\ samples[i].context = PreferredContext(message)}

(* What is billed is the reading of the right end of the transaction: the    *)
(* first of an opening message and the last of any other, of the samples     *)
(* that name that end if there is one, of all the readable ones otherwise,   *)
(* and it is the number the meter wrote, exactly, in Wh.                     *)
RightReading ==
  LET candidates == IF AtTheEnd # {} THEN AtTheEnd ELSE Usable
      chosen == samples[IF message = "Started" THEN Min(candidates) ELSE Max(candidates)]
      shift == chosen.multiplier + unit_exponent(chosen.unit)
      reading == energy_from_samples.reading
  IN IF Usable = {} THEN reading = NoReading
     ELSE /\ reading.context = chosen.context
          /\ Num(reading.wh) * 10 ^ larger(0, -shift) = Num(chosen.value) * 10 ^ larger(0, shift)

(* Nothing goes missing in silence: every energy sample is either readable   *)
(* or named by exactly one warning, and a sample after it is read all the    *)
(* same.                                                                     *)
NoneDropped == Len(energy_from_samples.warnings) = Cardinality(Registers \ Usable)

(* A message's energy is that of the right sample, and no sample is passed    *)
(* over in silence.                                                          *)
ReadingExact == RightReading /\ NoneDropped
=============================================================================
