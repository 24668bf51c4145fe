------------------------------ MODULE MCBlocks ------------------------------
(***************************************************************************)
(* The function blocks that run without the engine, checked side by side:   *)
(* they share no state, so a behaviour is a behaviour of one of them, and    *)
(* block says of which.                                                      *)
(***************************************************************************)
EXTENDS Billing, Authorization, SmartCharging, LocalController, WsCodec, Readings, DeviceModel, SignedFrames

VARIABLE block

blocks == <<block, billingVars, authVars, profiles, lcVars, wsVars, left, right, readingVars, model, signedVars>>

PowerPath == {{"PowerPathClosed"}}
(* A pulled cable is the first of them, a revoked authorization the second. *)
Stops == {{"EVConnected", "PowerPathClosed"}}
Meters == {EventKind}

Ok == [status |-> "Accepted", expires |-> Never]
Brief == [status |-> "Accepted", expires |-> 1]
Barred == [status |-> "Blocked", expires |-> Never]
Verdicts == {Brief, Barred}

List(type, version_, entries_) == [type |-> type, version |-> version_, entries |-> entries_]
(* Snapshots and patches that add, replace and delete tokens, some of which  *)
(* the list does not hold when they arrive late, and one that deletes a      *)
(* token and names it again.                                                 *)
Lists == {List("Full", 1, <<<<"a", Ok>>, <<"b", Barred>>>>),
          List("Full", 3, <<<<"c", Ok>>>>),
          List("Differential", 2, <<<<"b", Ok>>, <<"c", Barred>>, <<"a", Never>>>>),
          List("Differential", 3, <<<<"a", Brief>>, <<"c", Never>>>>),
          List("Differential", 4, <<<<"c", Ok>>, <<"d", Never>>>>),
          List("Differential", 5, <<<<"b", Never>>>>),
          List("Differential", 6, <<<<"a", Never>>, <<"c", Ok>>, <<"a", Barred>>>>)}

Step(at, limit) == [start_period |-> at, limit |-> limit, number_phases |-> Absent]
Base == [id |-> 1, stack_level |-> 0, purpose |-> "TxDefaultProfile", kind |-> "Absolute", valid_from |-> Absent,
         valid_to |-> Absent, transaction_id |-> Absent, evse_id |-> 0, start |-> 0, duration |-> Absent,
         rate_unit |-> "A", periods |-> <<Step(0, 16), Step(2, 10)>>]
(* Profiles whose edges fall into the windows: one step after another, a     *)
(* schedule that ends, one that is not valid yet or no more, ones that       *)
(* repeat, with and without a step at the beginning, one of each purpose,    *)
(* one in watts, two of the same level.                                      *)
Installed ==
  { Base,
    [Base EXCEPT !.id = 2, !.stack_level = 1, !.duration = 2, !.start = 1, !.periods = <<Step(0, 20)>>],
    [Base EXCEPT !.id = 2, !.stack_level = 1, !.kind = "Recurring", !.duration = 1, !.start = 2,
                 !.periods = <<Step(0, 6)>>],
    [Base EXCEPT !.kind = "Recurring", !.periods = <<Step(1, 16)>>],
    [Base EXCEPT !.id = 3, !.purpose = "ChargingStationMaxProfile", !.stack_level = 1, !.valid_from = 2,
                 !.valid_to = 5, !.duration = 4, !.rate_unit = "W", !.periods = <<Step(0, 13), Step(3, 50)>>],
    [Base EXCEPT !.id = 4, !.purpose = "ChargingStationMaxProfile", !.periods = <<Step(1, 12)>>],
    [Base EXCEPT !.id = 5, !.purpose = "TxProfile", !.kind = "Relative", !.transaction_id = "tx", !.evse_id = 1,
                 !.periods = <<Step(0, 14), [Step(1, 7) EXCEPT !.number_phases = 1]>>],
    [Base EXCEPT !.id = 6, !.purpose = "LocalGeneration", !.valid_to = 3, !.periods = <<Step(0, 5)>>],
    [Base EXCEPT !.id = 7, !.purpose = "ChargingStationExternalConstraints", !.kind = "Recurring", !.start = 1,
                 !.rate_unit = "W", !.periods = <<Step(0, 30), Step(2, 8)>>],
    [Base EXCEPT !.id = 8, !.purpose = "PriorityCharging", !.transaction_id = "tx", !.start = 3,
                 !.duration = 1, !.periods = <<Step(0, 25)>>] }

Window(from, unit, running) ==
  [evse_id |-> 1, from |-> from, duration |-> 5, rate_unit |-> unit,
   tx |-> IF running = Absent THEN Absent ELSE "tx", tx_start |-> running]
Asked == {Window(0, "A", Absent), Window(1, "W", 2), Window(2, "A", 0), [Window(3, "A", 1) EXCEPT !.evse_id = 2]}

Talk(kind, verdict_) == [kind |-> kind, verdict |-> verdict_]
Texts == {Talk("Call", "Forward"), Talk("Call", "Reject"), Talk("Send", "Reject"), Talk("Result", "Forward"), Talk("Result", "Drop"), Talk("Ping", "Forward"), Talk("Binary", "Forward")}

(* The ends of the range, halves, and trailing zeros. *)
Edges == {-128, -127, -125, -100, -51, -50, -15, -5, -3, -1, 0, 1, 2, 3, 5, 7, 10, 15, 25, 49, 50, 99, 100, 120, 125, 127}

Sample(unit, multiplier, context, n, scale) ==
  [measurand |-> "None", unit |-> unit, multiplier |-> multiplier, context |-> context,
   value |-> Decimal(n, scale), unreadable |-> FALSE]
Shown ==
  {Sample("None", 0, "Transaction.Begin", 7, 0), Sample("kWh", 0, "Transaction.Begin", 12, 1),
   Sample("Wh", -1, "Transaction.End", 125, 0), Sample("kWh", -1, "Sample.Periodic", 15, 2),
   Sample("MWh", 1, "Transaction.End", 3, 0), Sample("Wh", 1, "None", 99, 1), Sample("Other", 0, "Transaction.End", 1, 0),
   [Sample("Wh", 0, "Transaction.Begin", 50, 0) EXCEPT !.measurand = "Power"],
   [Sample("Wh", 0, "Transaction.End", 0, 0) EXCEPT !.value = NoDecimal, !.unreadable = TRUE],
   [Sample("Wh", 0, "Transaction.End", 0, 0) EXCEPT !.value = NoDecimal]}

Extension(kind, server, client, server_bits, client_bits) ==
  Element(kind, Params(server, client), server_bits, client_bits)
(* An offer to be declined before one that is taken, one that asks for       *)
(* windows to be reset, and none at all.                                     *)
Offered ==
  {<< >>,
   <<Extension("Other", FALSE, FALSE, NoParams, NoParams), Extension("Deflate", TRUE, FALSE, NoParams, 10)>>,
   <<Extension("Deflate", FALSE, FALSE, 9, NoParams), Extension("Deflate", FALSE, TRUE, NoParams, NoParams)>>}
Replies ==
  {NoParams, Extension("Deflate", FALSE, TRUE, NoParams, NoParams), Extension("Deflate", TRUE, FALSE, 10, NoParams),
   Extension("Deflate", FALSE, FALSE, NoParams, 9), Extension("Other", FALSE, FALSE, NoParams, NoParams)}

Setting(text, words, whole, number) == [text |-> text, words |-> words, whole |-> whole, number |-> number, instant |-> FALSE]
(* Numbers, the least integer of the width, words from and outside the lists *)
(* and one of them with a blank.                                             *)
Wished == {Setting("2", {"2"}, 2, 2), Setting("9.0", {"9.0"}, Unread, 9), Setting("9", {"9"}, 9, 9), Setting("-128", {"-128"}, -128, Unread),
           Setting("Gps,Ntp", {"Gps", "Ntp"}, Unread, Unread), Setting(" Gps", {"Gps"}, Unread, Unread),
           Setting("true", {"true"}, Unread, Unread)}
Declaration(name, variable, spec) ==
  [component |-> [name |-> name, evse |-> Unread], variable |-> [name |-> variable, instance |-> Unread], spec |-> spec]
Writable(spec) == [spec EXCEPT !.mutability = "ReadWrite"]
(* Power is declared twice, the second time with a value beyond its limits,  *)
(* and the source of the time as a list and as one of two options.           *)
Own == {Declaration("Heater", "Power", Writable([VariableSpec("Integer") EXCEPT !.min_limit = 1, !.max_limit = 3])),
        Declaration("Heater", "Power", Writable([VariableSpec("Integer") EXCEPT !.min_limit = 5, !.values = [a \in {"Actual"} |-> Setting("2", {"2"}, 2, 2)]])),
        Declaration("ClockCtrlr", "TimeSource", Writable([VariableSpec("OptionList") EXCEPT !.values_list = {"Gps", "Ntp"}])),
        Declaration("Heater", "Temperature", supports(Writable([VariableSpec("Decimal") EXCEPT !.max_limit = 3]), "Target")),
        Declaration("SecurityCtrlr", "BasicAuthPassword", [VariableSpec("String") EXCEPT !.mutability = "WriteOnly"]),
        Declaration("SecurityCtrlr", "Active", [VariableSpec("Boolean") EXCEPT !.constant = TRUE]),
        Declaration("ClockCtrlr", "TimeSource",
                    Writable([VariableSpec("SequenceList") EXCEPT !.values_list = {"Gps", "Ntp"}, !.reboot_required = TRUE]))}
Line(variable, attribute, data_type) ==
  [variable |-> [name |-> variable, instance |-> Unread], attribute |-> attribute, data_type |-> data_type]
(* The rows of the appendix for the heater. *)
Appendix == "Heater" :> <<Line("Power", "None", "Decimal"), Line("Power", "MaxLimit", "Decimal"), Line("Power", "MaxSet", "Decimal"),
                          Line("Temperature", "MinSet", "Decimal"), Line("Temperature", "MaxSet", "Decimal")>>

Init ==
  /\ block \in {"billing", "authorization", "smart charging", "local controller", "websocket", "decimals", "readings", "device model", "signed frames"}
  /\ AuthInit /\ scInit /\ lcInit /\ dmInit
  /\ BillingInit /\ (block # "billing" => sequenced)
  /\ wsInit /\ (block # "websocket" => role = "Client" /\ native /\ params["Client"] = NoParams)
  /\ decInit /\ (block # "decimals" => left = ZERO)
  /\ readingInit /\ (block # "readings" => message = "Started")
  /\ signedInit
  /\ block # "signed frames" => incoming = Message("CallError", NoAction, Unprotected("p")) /\ request_action = NoAction

Next ==
  \/ block = "billing" /\ BillingNext /\ UNCHANGED <<block, authVars, profiles, lcVars, wsVars, left, right, readingVars, model, signedVars>>
  \/ block = "authorization" /\ AuthNext /\ UNCHANGED <<block, billingVars, profiles, lcVars, wsVars, left, right, readingVars, model, signedVars>>
  \/ block = "smart charging" /\ scNext /\ UNCHANGED <<block, billingVars, authVars, lcVars, wsVars, left, right, readingVars, model, signedVars>>
  \/ block = "local controller" /\ lcNext /\ UNCHANGED <<block, billingVars, authVars, profiles, wsVars, left, right, readingVars, model, signedVars>>
  \/ block = "websocket" /\ wsNext /\ UNCHANGED <<block, billingVars, authVars, profiles, lcVars, left, right, readingVars, model, signedVars>>
  \/ block = "decimals" /\ decNext /\ UNCHANGED <<block, billingVars, authVars, profiles, lcVars, wsVars, readingVars, model, signedVars>>
  \/ block = "readings" /\ readingNext /\ UNCHANGED <<block, billingVars, authVars, profiles, lcVars, wsVars, left, right, model, signedVars>>
  \/ block = "device model" /\ dmNext /\ UNCHANGED <<block, billingVars, authVars, profiles, lcVars, wsVars, left, right, readingVars, signedVars>>
  \/ block = "signed frames" /\ signedNext /\ UNCHANGED <<block, billingVars, authVars, profiles, lcVars, wsVars, left, right, readingVars, model>>

Spec == Init /\ [][Next]_blocks
=============================================================================
