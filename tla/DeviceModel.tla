----------------------------- MODULE DeviceModel -----------------------------
(***************************************************************************)
(* The station's registry of components and variables                        *)
(* (src/src/station/device_model.rs): declared by the application or from     *)
(* the standard's catalogue, written by SetVariables, read by GetVariables    *)
(* and listed, page by page, by the reports.                                 *)
(*                                                                          *)
(* A text value is what the checks tell apart: the text, its trimmed words    *)
(* between the commas, the whole number that i64 reads in it and the number   *)
(* that Decimal does (Unread when they read none), and whether it is an       *)
(* instant.                                                                  *)
(***************************************************************************)
EXTENDS Integers, Sequences, SequencesExt, FiniteSets

CONSTANTS
  Declarations,  \* what the application declares: [component, variable, spec]
  Catalogue,     \* the standard's rows: component name -> sequence of [variable, attribute, data_type]
  Settings,      \* the values a CSMS writes: [text, words, whole, number, instant]
  PageSizes,     \* the sizes a report is paged by
  Unread,        \* None: no number, no limit
  Unset          \* no value: an attribute without one, read as an empty string

VARIABLE model   \* components: component -> variable -> spec

DataTypes == {"String", "Decimal", "Integer", "DateTime", "Boolean", "OptionList", "SequenceList", "MemberList"}
Attributes == {"Actual", "Target", "MinSet", "MaxSet"}
readable(mutability) == mutability # "WriteOnly"
writable(mutability) == mutability # "ReadOnly"

(* VariableSpec::new, and what its builders add to it. *)
VariableSpec(data_type) ==
  [data_type |-> data_type, mutability |-> "ReadOnly", values_list |-> {}, min_limit |-> Unread, max_limit |-> Unread,
   constant |-> FALSE, reboot_required |-> FALSE, values |-> [a \in {"Actual"} |-> Unset]]
supported(spec) == DOMAIN spec.values
supports(spec, attribute) ==
  [spec EXCEPT !.values = [a \in supported(spec) \cup {attribute} |-> IF a \in supported(spec) THEN spec.values[a] ELSE Unset]]

(* A declaration has these fields and supports Actual (VariableSpec::new);    *)
(* what values it brings is the application's business.                      *)
IsSpec(spec) ==
  /\ spec = [data_type |-> spec.data_type, mutability |-> spec.mutability, values_list |-> spec.values_list,
             min_limit |-> spec.min_limit, max_limit |-> spec.max_limit, constant |-> spec.constant,
             reboot_required |-> spec.reboot_required, values |-> spec.values]
  /\ spec.values = [a \in DOMAIN spec.values |-> spec.values[a]]
  /\ "Actual" \in supported(spec)

ASSUME DeviceModelAssumption ==
  /\ PageSizes \subseteq Int
  /\ \A d \in Declarations : IsSpec(d.spec)
  /\ \A name \in DOMAIN Catalogue : Len(Catalogue[name]) \in Nat /\ DOMAIN Catalogue[name] = 1 .. Len(Catalogue[name])

dmInit == model = << >>

Known(components, c, v) == c \in DOMAIN components /\ v \in DOMAIN components[c]
With(components, c, v, spec) ==
  LET variables == IF c \in DOMAIN components THEN components[c] ELSE << >>
  IN [k \in DOMAIN components \cup {c} |->
       IF k = c THEN [n \in DOMAIN variables \cup {v} |-> IF n = v THEN spec ELSE variables[n]] ELSE components[k]]
declare(d) == model' = With(model, d.component, d.variable, d.spec)

---------------------------------------------------------------------------

(* One row of the catalogue. A row that names an attribute this library      *)
(* knows is one more attribute of a variable that is there already; a row    *)
(* that names another one ("MaxLimit", "Set") is taken for the variable.     *)
OtherAttribute(row) == row.attribute \in Attributes \ {"Actual"}

(* In the standard's catalogue (standard/components.rs) the row that is a     *)
(* variable comes before the rows that are attributes of it.                 *)
AttributesLast(rows) ==
  \A i, j \in 1 .. Len(rows) :
    i < j /\ rows[i].variable = rows[j].variable /\ OtherAttribute(rows[i]) => OtherAttribute(rows[j])
ASSUME CatalogueAssumption == \A name \in DOMAIN Catalogue : AttributesLast(Catalogue[name])

Row(components, c, row) ==
  LET spec == VariableSpec(row.data_type)
  IN IF OtherAttribute(row) /\ Known(components, c, row.variable)
     THEN With(components, c, row.variable, supports(components[c][row.variable], row.attribute))
     ELSE With(components, c, row.variable, IF OtherAttribute(row) THEN supports(spec, row.attribute) ELSE spec)
Standard(name) ==
  LET rows == Catalogue[name]
      upto[n \in 0 .. Len(rows)] == IF n = 0 THEN model ELSE Row(upto[n - 1], [name |-> name, evse |-> Unread], rows[n])
  IN upto[Len(rows)]
declare_standard(name) == model' = Standard(name)

---------------------------------------------------------------------------

get_variable(c, v, attribute) ==
  IF c \notin DOMAIN model THEN "UnknownComponent"
  ELSE IF v \notin DOMAIN model[c] THEN "UnknownVariable"
  ELSE IF ~readable(model[c][v].mutability) THEN "Rejected"
  ELSE IF attribute \notin supported(model[c][v]) THEN "NotSupportedAttributeType"
  ELSE "Accepted"

accepts(data_type, value, values_list) ==
  CASE data_type = "String"     -> TRUE
    [] data_type = "Boolean"    -> value.text \in {"true", "false"}
    [] data_type = "Integer"    -> value.whole # Unread
    [] data_type = "Decimal"    -> value.number # Unread
    [] data_type = "DateTime"   -> value.instant
    [] data_type = "OptionList" -> values_list = {} \/ value.text \in values_list
    [] OTHER                    -> values_list = {} \/ value.words \subseteq values_list
Beyond(spec, number) ==
  \/ spec.min_limit # Unread /\ number < spec.min_limit
  \/ spec.max_limit # Unread /\ number > spec.max_limit

(* The limits are compared with the number that Decimal reads: the least     *)
(* integer of the width is none, and is outside no limits.                   *)
outside(spec, text) == spec.data_type \in {"Integer", "Decimal"} /\ text.number # Unread /\ Beyond(spec, text.number)

set_status(c, v, attribute, text) ==
  IF c \notin DOMAIN model THEN "UnknownComponent"
  ELSE IF v \notin DOMAIN model[c] THEN "UnknownVariable"
  ELSE LET spec == model[c][v]
       IN IF ~writable(spec.mutability) \/ spec.constant THEN "Rejected"
          ELSE IF attribute \notin supported(spec) THEN "NotSupportedAttributeType"
          ELSE IF ~accepts(spec.data_type, text, spec.values_list) \/ outside(spec, text) THEN "Rejected"
          ELSE IF spec.reboot_required THEN "RebootRequired"
          ELSE "Accepted"
Stored == {"Accepted", "RebootRequired"}
set_variable(c, v, attribute, text) ==
  /\ set_status(c, v, attribute, text) \in Stored
  /\ model' = With(model, c, v, [model[c][v] EXCEPT !.values[attribute] = text])

---------------------------------------------------------------------------

is_summary_variable(name) == name \in {"AvailabilityState", "Active", "Problem", "Tripped", "Overload", "Fallback"}
(* Every supported attribute, with its value unless the variable is not to   *)
(* be read.                                                                  *)
Datum(c, v) ==
  LET spec == model[c][v]
  IN [component |-> c, variable |-> v, mutability |-> spec.mutability,
      attributes |-> [a \in supported(spec) |-> IF readable(spec.mutability) THEN spec.values[a] ELSE Unset]]
Registered == UNION {{c} \X DOMAIN model[c] : c \in DOMAIN model}
(* In some order, which is the order of the keys in the code. *)
report(base, component_filter, variable_filter) ==
  LET included(c, v) ==
        /\ component_filter # Unread => c.name = component_filter
        /\ variable_filter # Unread => v.name = variable_filter
        /\ base = "ConfigurationInventory" => writable(model[c][v].mutability)
        /\ base = "SummaryInventory" => is_summary_variable(v.name)
  IN SetToSeq({Datum(e[1], e[2]) : e \in {e \in Registered : included(e[1], e[2])}})

larger_one(n) == IF n > 1 THEN n ELSE 1
paginate_full(data, per_page) ==  \* mutant: a full page is taken for one that is continued
  LET size == larger_one(per_page)
      pages == larger_one((Len(data) + size - 1) \div size)
      chunk(i) == SubSeq(data, (i - 1) * size + 1, IF i * size < Len(data) THEN i * size ELSE Len(data))
  IN [i \in 1 .. pages |-> [seq_no |-> i - 1, tbc |-> Len(chunk(i)) = size, data |-> chunk(i)]]
(* Pages of at most per_page entries; an empty report is one empty page. *)
paginate(data, per_page) ==
  LET size == larger_one(per_page)
      pages == larger_one((Len(data) + size - 1) \div size)
      chunk(i) == SubSeq(data, (i - 1) * size + 1, IF i * size < Len(data) THEN i * size ELSE Len(data))
  IN [i \in 1 .. pages |-> [seq_no |-> i - 1, tbc |-> i < pages, data |-> chunk(i)]]

dmNext ==
  \/ \E d \in Declarations : declare(d)
  \/ \E name \in DOMAIN Catalogue : declare_standard(name)
  \/ \E c \in DOMAIN model : \E v \in DOMAIN model[c], attribute \in Attributes, text \in Settings : set_variable(c, v, attribute, text)

dmSpec == dmInit /\ [][dmNext]_model

---------------------------------------------------------------------------

Bases == {"FullInventory", "ConfigurationInventory", "SummaryInventory"}

(* A report, GetVariables and SetVariables tell one story: what the full     *)
(* inventory lists is what get answers for and nothing else, with the same   *)
(* value; a write-only value is in neither; an attribute no report lists     *)
(* cannot be written; and the configuration inventory holds every variable   *)
(* that can be.                                                              *)
ReportAgrees ==
  LET listed == ToSet(report("FullInventory", Unread, Unread))
      configuration == ToSet(report("ConfigurationInventory", Unread, Unread))
  IN /\ \A c \in DOMAIN model : \A v \in DOMAIN model[c] : Cardinality({d \in listed : d.component = c /\ d.variable = v}) = 1
     /\ \A d \in listed : \A a \in Attributes :
          LET answer == get_variable(d.component, d.variable, a)
          IN /\ answer = "Accepted" => a \in DOMAIN d.attributes /\ d.attributes[a] = model[d.component][d.variable].values[a]
             /\ answer = "NotSupportedAttributeType" => a \notin DOMAIN d.attributes
             /\ answer = "Rejected" => \A b \in DOMAIN d.attributes : d.attributes[b] = Unset
             /\ (\E text \in Settings : set_status(d.component, d.variable, a, text) \in Stored) =>
                  a \in DOMAIN d.attributes /\ d \in configuration

(* A value that a declaration of the variable brought: declare checks none.  *)
Declared(c, v, a, value) ==
  \E d \in Declarations : /\ d.component = c /\ d.variable = v
                          /\ a \in supported(d.spec) /\ d.spec.values[a] = value
SetHere(c, v) ==
  {a \in supported(model[c][v]) : model[c][v].values[a] # Unset /\ ~Declared(c, v, a, model[c][v].values[a])}
Suits(spec, value) ==
  /\ accepts(spec.data_type, value, spec.values_list)
  /\ spec.data_type \in {"Integer", "Decimal"} /\ value.number # Unread => ~Beyond(spec, value.number)

(* A value that no declaration brought is one of its variable's type and     *)
(* within its limits as they now are, however often the variable was         *)
(* declared again, by the application or from the catalogue, with another     *)
(* type, other limits and other attributes (set, declare, declare_standard). *)
(* The limits are those of the number that Decimal reads.                    *)
ValuesFit ==
  \A c \in DOMAIN model : \A v \in DOMAIN model[c] : \A a \in SetHere(c, v) :
    Suits(model[c][v], model[c][v].values[a])

(* set enforces "the declared type and the declared limits": what it stores  *)
(* in a variable of whole numbers is within the limits.                      *)
LimitsEnforced ==
  \A c \in DOMAIN model : \A v \in DOMAIN model[c] : \A a \in SetHere(c, v) :
    model[c][v].data_type = "Integer" => ~Beyond(model[c][v], model[c][v].values[a].whole)

(* A report sent page by page is the report: nothing is lost or told twice   *)
(* at the edge of a page, the pages are numbered from zero without a gap,     *)
(* none is empty but that of an empty report, and only the last one says     *)
(* that nothing follows.                                                     *)
PagesWhole ==
  \A base \in Bases, per_page \in PageSizes :
    LET data == report(base, Unread, Unread)
        pages == paginate(data, per_page)
    IN /\ FlattenSeq([i \in DOMAIN pages |-> pages[i].data]) = data
       /\ \A i \in DOMAIN pages : /\ pages[i].seq_no = i - 1
                                  /\ Len(pages[i].data) <= larger_one(per_page)
                                  /\ pages[i].data = << >> => data = << >>
                                  /\ pages[i].tbc = (i # Len(pages))

(* Whatever the application has declared before, a component taken from the  *)
(* catalogue supports every attribute that the rows of the standard name and *)
(* this library knows.                                                       *)
CatalogueComplete ==
  \A name \in DOMAIN Catalogue :
    LET c == [name |-> name, evse |-> Unread]
        components == Standard(name)
    IN \A i \in DOMAIN Catalogue[name] :
         LET row == Catalogue[name][i]
             spec == components[c][row.variable]
         IN /\ row.attribute \in Attributes => row.attribute \in supported(spec)
            /\ "Actual" \in supported(spec)

(* Whatever was declared, written and taken from the catalogue, the reports   *)
(* list all of it, page by page, as get and set know it, and what was written *)
(* fits.                                                                     *)
InventoryWhole == model # << >> => ReportAgrees /\ ValuesFit /\ PagesWhole /\ CatalogueComplete
=============================================================================
