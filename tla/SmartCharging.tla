---------------------------- MODULE SmartCharging ---------------------------
(***************************************************************************)
(* The charging profiles of a station and the composite schedule over them  *)
(* (src/src/station/smart_charging.rs).                                     *)
(*                                                                          *)
(* Instants are small numbers and a recurring schedule repeats every Day.    *)
(* Limits are integers, in thousandths of their unit: CONVERSION_SCALE is    *)
(* then the unit's.  Overflow of the 19 digits of a Decimal is left out.     *)
(***************************************************************************)
EXTENDS Integers, Sequences, FiniteSetsExt, Functions

CONSTANTS
  Pool,        \* the profiles that SetChargingProfile brings
  Day,         \* Recurrency::Daily in seconds
  Voltage, Phases,   \* Supply
  Windows,     \* the GetCompositeSchedule requests: [evse_id, from, duration, rate_unit, tx, tx_start]
  MaxAnchors,  \* how many repetitions of a schedule boundaries looks at (4096)
  MaxProfiles, \* bound: how many profiles are installed at once
  Absent

ASSUME SmartChargingAssumption ==
  /\ Day \in Nat \ {0} /\ Voltage \in Nat /\ Phases \in Nat /\ MaxAnchors \in Nat /\ MaxProfiles \in Nat
  /\ Absent \notin Int /\ Absent \notin Int \X (Int \cup {Absent})
  /\ \A p \in Pool :
       /\ p.stack_level \in Nat /\ p.start \in Int \cup {Absent} /\ p.duration \in Nat \cup {Absent}
       /\ p.valid_from \in Int \cup {Absent} /\ p.valid_to \in Int \cup {Absent}
       /\ Len(p.periods) \in Nat /\ DOMAIN p.periods = 1 .. Len(p.periods)
       /\ \A i \in DOMAIN p.periods : /\ p.periods[i].start_period \in Nat /\ p.periods[i].limit \in Int
                                      /\ p.periods[i].number_phases \in Int \cup {Absent}
       /\ \A i \in 1 .. Len(p.periods) - 1 : p.periods[i].start_period <= p.periods[i + 1].start_period
  /\ \A w \in Windows : w.from \in Int /\ w.duration \in Nat /\ w.tx_start \in Int \cup {Absent}

VARIABLE profiles    \* ProfileStore::profiles, in the order they were installed

scInit == profiles = << >>

---------------------------------------------------------------------------
(* install, clear and clear_transaction *)

(* The profiles that are in kept, in their order. *)
retain(kept) ==
  LET left_of[i \in 0 .. Len(profiles)] ==
        IF i = 0 THEN << >> ELSE IF profiles[i] \in kept THEN Append(left_of[i - 1], profiles[i]) ELSE left_of[i - 1]
  IN left_of[Len(profiles)]

install(p) == profiles' = Append(retain({q \in Range(profiles) : q.id # p.id}), p)

Matches(wanted, field) == wanted = Absent \/ wanted = field
clear(id, evse, purpose, level) ==
  profiles' = retain({q \in Range(profiles) :
    ~(Matches(id, q.id) /\ Matches(evse, q.evse_id) /\ Matches(purpose, q.purpose) /\ Matches(level, q.stack_level))})

clear_transaction(tx) == profiles' = retain({q \in Range(profiles) : q.transaction_id # tx})

scNext ==
  \/ \E p \in Pool : Len(profiles) < MaxProfiles /\ install(p)
  \/ \E p \in Range(profiles) :
       \/ clear(p.id, Absent, Absent, Absent)
       \/ clear(Absent, p.evse_id, p.purpose, Absent)
       \/ clear(Absent, Absent, Absent, p.stack_level)
       \/ p.transaction_id # Absent /\ clear_transaction(p.transaction_id)

scSpec == scInit /\ [][scNext]_profiles

---------------------------------------------------------------------------
(* One profile at one instant. *)

valid_at(p, at) ==
  /\ p.valid_from = Absent \/ p.valid_from <= at
  /\ p.valid_to = Absent \/ at < p.valid_to

(* Where a profile's schedule is anchored; Absent when nothing anchors it. *)
Anchor(p, w) == IF p.kind = "Relative" THEN w.tx_start ELSE p.start

offset_at(p, at, w) ==
  LET start == Anchor(p, w)
  IN IF start = Absent \/ at < start THEN Absent
     ELSE IF p.kind = "Recurring" THEN (at - start) % Day ELSE at - start

(* Schedule::period_at: the last step that began by then. *)
period_at(p, offset) ==
  LET begun == {i \in DOMAIN p.periods : p.periods[i].start_period <= offset}
  IN IF offset = Absent \/ begun = {} \/ (p.duration # Absent /\ offset >= p.duration) THEN Absent
     ELSE p.periods[Max(begun)]

Period(p, at, w) == IF valid_at(p, at) THEN period_at(p, offset_at(p, at, w)) ELSE Absent

---------------------------------------------------------------------------
(* Supply::convert *)

HalfEven(a, b) ==
  LET q == a \div b  r == a % b
  IN IF 2 * r > b \/ (2 * r = b /\ q % 2 = 1) THEN q + 1 ELSE q

Most(a, b) == IF a >= b THEN a ELSE b
convert(limit, unit, to, phases) ==
  LET factor == Voltage * Most(IF phases = Absent THEN Phases ELSE phases, 1)
  IN IF unit = to THEN limit
     ELSE IF to = "W" THEN limit * factor
     ELSE IF factor = 0 THEN Absent ELSE HalfEven(limit, factor)

---------------------------------------------------------------------------
(* The limit at one instant, a pair of the limit and the phases. *)

PerTransaction == {"TxProfile", "PriorityCharging"}
(* The indices of the profiles that a request is about. *)
applicable(w) ==
  {i \in DOMAIN profiles :
    /\ profiles[i].evse_id \in {0, w.evse_id}
    /\ profiles[i].purpose \in PerTransaction => w.tx # Absent /\ profiles[i].transaction_id \in {w.tx, Absent}}

(* Of the profiles of a purpose that say something, the highest level leads, *)
(* and the one installed last of those with the same level.                  *)
Saying(ps, purpose, at, w) == {i \in ps : profiles[i].purpose = purpose /\ Period(profiles[i], at, w) # Absent}
Leader(S) == Max({i \in S : \A j \in S : profiles[j].stack_level <= profiles[i].stack_level})
(* What a profile allows, in the unit that was asked for. *)
Allowed(p, at, w) ==
  LET period == Period(p, at, w) IN convert(period.limit, p.rate_unit, w.rate_unit, period.number_phases)
leading(ps, purpose, at, w) ==
  LET saying == Saying(ps, purpose, at, w)
      lead == profiles[Leader(saying)]
  IN IF saying = {} THEN Absent
     ELSE IF Allowed(lead, at, w) = Absent THEN Absent
     ELSE <<Allowed(lead, at, w), Period(lead, at, w).number_phases>>

Lowest(x, y) == IF x = Absent THEN y ELSE IF y = Absent THEN x ELSE IF x[1] <= y[1] THEN x ELSE y
OrElse1(x, y) == IF x = Absent THEN y ELSE x

limit_at(ps, at, w) ==
  LET lead(purpose) == leading(ps, purpose, at, w)
      session == OrElse1(lead("PriorityCharging"), OrElse1(lead("TxProfile"), lead("TxDefaultProfile")))
      capped == Lowest(Lowest(session, lead("ChargingStationMaxProfile")), lead("ChargingStationExternalConstraints"))
      generation == lead("LocalGeneration")
  IN IF generation = Absent THEN capped
     ELSE IF capped = Absent THEN generation
     ELSE <<capped[1] + generation[1], capped[2]>>

---------------------------------------------------------------------------
(* The composite schedule: the limit is computed at the boundaries only. *)

(* Of a schedule that repeats, the repetitions from the one that the window   *)
(* begins in, as many as boundaries looks at.                                *)
Anchors(p, w, end) ==
  LET start == Anchor(p, w)
      skipped == (w.from - start) \div Day
  IN IF start = Absent THEN {}
     ELSE IF p.kind # "Recurring" THEN {start}
     ELSE {a \in {start + k * Day : k \in skipped .. skipped + MaxAnchors - 1} : a < end}

Changes_open(p, w) ==  \* mutant: the end of a schedule is not a boundary
  ({p.valid_from, p.valid_to} \ {Absent})
  \cup UNION {{a + p.periods[i].start_period : i \in DOMAIN p.periods} : a \in Anchors(p, w, w.from + w.duration)}
(* Where the limit of one profile may change. *)
Changes(p, w) ==
  ({p.valid_from, p.valid_to} \ {Absent})
  \cup UNION {{a + p.periods[i].start_period : i \in DOMAIN p.periods} \cup {a + d : d \in {p.duration} \ {Absent}}
             : a \in Anchors(p, w, w.from + w.duration)}
boundaries(ps, w) ==
  {w.from} \cup {at \in UNION {Changes(profiles[i], w) : i \in ps} : w.from <= at /\ at < w.from + w.duration}

same_step(previous, next) == previous.limit = next.limit

(* A step that says what the one before said is merged with it, and a       *)
(* stretch without a limit at the very beginning is left out.                *)
Merged(steps, step) ==
  IF IF steps = << >> THEN step.limit = Absent ELSE same_step(steps[Len(steps)], step) THEN steps
  ELSE Append(steps, step)

(* The boundaries in ascending order, from the start of the window to its end. *)
composite(w) ==
  LET ps == applicable(w)
      points == boundaries(ps, w)
      step(n) == [start_period |-> n, limit |-> limit_at(ps, w.from + n, w)]
      upto[n \in 0 .. w.duration] ==
        LET before == IF n = 0 THEN << >> ELSE upto[n - 1]
        IN IF w.from + n \in points THEN Merged(before, step(n)) ELSE before
  IN upto[w.duration]

---------------------------------------------------------------------------

In(steps, offset) ==
  LET begun == {i \in DOMAIN steps : steps[i].start_period <= offset}
  IN IF begun = {} THEN Absent ELSE steps[Max(begun)].limit

ExactAt(w, offset) == In(composite(w), offset) = limit_at(applicable(w), w.from + offset, w)

(* Every instant at which the effective limit could change is a boundary     *)
(* (boundaries): the composite schedule is the limit at every instant.       *)
CompositeExactAlways == \A w \in Windows : \A offset \in 0 .. w.duration - 1 : ExactAt(w, offset)

(* A schedule that repeats, as far as boundaries looks at it: to the last    *)
(* repetition it counts, and only where a repetition begins with a step.     *)
LookedAt(p, w, at) ==
  p.kind = "Recurring" /\ p.start # Absent =>
    /\ at < p.start + ((w.from - p.start) \div Day + MaxAnchors) * Day
    /\ Len(p.periods) > 0 => p.periods[1].start_period = 0
Foreseen(w, offset) == \A i \in applicable(w) : LookedAt(profiles[i], w, w.from + offset)

(* Whatever profiles are installed, the composite schedule is right at every *)
(* instant of the window and not only at the boundaries it was computed at:  *)
(* no limit is carried into a stretch it does not apply to, and none is      *)
(* missed (boundaries, limit_at and the merging in composite).  It holds to  *)
(* the last repetition that boundaries counts, and for repeating schedules   *)
(* that have a step at their beginning.                                      *)
CompositeExact ==
  profiles # << >> => \A w \in Windows : \A offset \in 0 .. w.duration - 1 :
    Foreseen(w, offset) => ExactAt(w, offset)

Tops(purpose, at, w) == Saying({i \in DOMAIN profiles : profiles[i].evse_id \in {0, w.evse_id}}, purpose, at, w)

(* While a profile of the station's own ceiling has something to say, no     *)
(* other profile, of whatever level, purpose or unit, lifts the composite    *)
(* above the highest level's limit by more than the site generates, and it   *)
(* always says something (limit_at's minimum over the purposes).  A supply   *)
(* without a voltage converts no limit, and then the ceiling limits nothing. *)
CeilingHolds ==
  profiles # << >> => \A w \in Windows : \A offset \in 0 .. w.duration - 1 :
    LET at == w.from + offset
        tops == Tops("ChargingStationMaxProfile", at, w)
        limit == In(composite(w), offset)
        generators == Tops("LocalGeneration", at, w)
        generation == IF generators = {} THEN 0 ELSE Max({Allowed(profiles[i], at, w) : i \in generators})
    IN Voltage # 0 /\ tops # {} /\ Foreseen(w, offset) =>
         /\ limit # Absent
         /\ \E i \in tops : /\ \A j \in tops : profiles[j].stack_level <= profiles[i].stack_level
                            /\ limit[1] <= Allowed(profiles[i], at, w) + generation

(* The schedule a CSMS is shown for a window holds at each of its instants,  *)
(* and the station's ceiling holds over it.                                  *)
ScheduleExact == CompositeExact /\ CeilingHolds
=============================================================================
