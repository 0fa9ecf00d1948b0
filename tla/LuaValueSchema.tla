--------------------------- MODULE LuaValueSchema --------------------------
(***************************************************************************)
(* Values that cross the border between components and Lua, the schemas    *)
(* that describe them, and the limits on both: what the factories of       *)
(* schemas accept, the validation of a value, the worst case a schema      *)
(* admits, and the conversion of a value to Lua and back.                  *)
(*                                                                         *)
(* A text (a string, a field name, an enum entry) is a number, in byte     *)
(* order, with a length; an optional bound is a set with at most one       *)
(* member. The counters of a conversion only grow and all its failures     *)
(* have one status, so that it succeeds if and only if its totals fit.     *)
(* Bounds of numbers are finite here, descriptions are valid text, and no  *)
(* Lua table contains itself.                                              *)
(***************************************************************************)
EXTENDS Integers, SequencesExt, FiniteSetsExt

CONSTANTS
  Bytes,            \* length of each text
  Ceilings,         \* the fixed limits on schemas and on validation
  Limits,           \* of LuaExecutionLimits, those on values
  SizeofLuaValue

ASSUME ValueAssumption == SizeofLuaValue \in Nat \ {0}

Total(f) == SumFunction(f)

Largest(s) == Max(s \union {0})

--------------------------------------------------------------------------------
(* Schemas *)

Children(s) ==
  CASE s.kind = "Array" -> <<s.item>>
    [] s.kind = "Object" -> [i \in DOMAIN s.fields |-> s.fields[i].schema]
    [] OTHER -> <<>>

RECURSIVE NodeCount(_)
NodeCount(s) == 1 + Total([i \in DOMAIN Children(s) |-> NodeCount(Children(s)[i])])

RECURSIVE ContainerDepth(_)
ContainerDepth(s) ==
  IF s.kind \notin {"Array", "Object"} THEN 0
  ELSE 1 + Largest({ContainerDepth(c) : c \in ToSet(Children(s))})

RECURSIVE EnumBytes(_)
EnumBytes(s) ==
  LET own == IF s.kind # "String" THEN {} ELSE s.enumeration
  IN  MapThenSumSet(LAMBDA entries : Total([i \in DOMAIN entries |-> Bytes[entries[i]]]), own)
      + Total([i \in DOMAIN Children(s) |-> EnumBytes(Children(s)[i])])

\* The checks of the factory of each kind.
FactoryAccepts(s) ==
  CASE s.kind \in {"Integer", "Number"} ->
         \A low \in s.minimum, high \in s.maximum : low <= high
    [] s.kind = "String" ->
         /\ s.minimumBytes <= s.maximumBytes
         /\ s.maximumBytes <= Ceilings.stringBytes
         /\ \A entries \in s.enumeration :
              Len(entries) \in 1..Ceilings.enumEntries /\ IsInjective(entries)
    [] s.kind = "Array" ->
         s.minimumItems <= s.maximumItems /\ s.maximumItems <= Ceilings.arrayItems
    [] s.kind = "Object" ->
         LET names == [i \in DOMAIN s.fields |-> s.fields[i].name]
         IN  /\ Len(names) <= Ceilings.fields /\ IsInjective(names)
             /\ \A i \in DOMAIN names : Bytes[names[i]] <= Ceilings.nameBytes
    [] OTHER -> TRUE

\* finish_node: the ceilings on the expanded tree.
Finishes(s) ==
  /\ s.description <= Ceilings.descriptionBytes
  /\ NodeCount(s) <= Ceilings.nodes
  /\ ContainerDepth(s) <= Ceilings.containerNesting
  /\ EnumBytes(s) <= Ceilings.enumBytes

\* Every node of a schema was made by a factory.
RECURSIVE WellFormed(_)
WellFormed(s) ==
  FactoryAccepts(s) /\ Finishes(s) /\ \A c \in ToSet(Children(s)) : WellFormed(c)

--------------------------------------------------------------------------------
(* Validation *)

Visited(n) == [error |-> "None", nodes |-> n]
Failed(code) == [error |-> code, nodes |-> 0]

Within(number, s) ==
  (\A low \in s.minimum : number >= low) /\ (\A high \in s.maximum : number <= high)

LengthFits(n, low, high) == low <= n /\ n <= high

RECURSIVE Visit(_, _, _)

\* visit_object: declared fields and present keys are merged in byte order.
RECURSIVE Merge(_, _, _, _)
Merge(fields, keys, v, visited) ==
  LET unknown == keys # <<>> /\ (fields = <<>> \/ Head(keys) < Head(fields).name)
      absent == keys = <<>> \/ Head(fields).name < Head(keys)
  IN  CASE visited.error # "None" \/ (fields = <<>> /\ keys = <<>>) -> visited
        [] OTHER ->
             IF unknown THEN Failed("UnknownField")
             ELSE IF ~absent
             THEN Merge(Tail(fields), Tail(keys), v,
                        Visit(Head(fields).schema, v.fields[Head(keys)], visited.nodes))
             ELSE IF Head(fields).required THEN Failed("MissingField")
             ELSE Merge(Tail(fields), keys, v, visited)

VisitArray(s, v, nodes) ==
  FoldLeft(LAMBDA r, item : IF r.error # "None" THEN r ELSE Visit(s.item, item, r.nodes),
           Visited(nodes), v.items)

\* SchemaWalk::visit: the first failure, or the nodes visited so far.
Visit(s, v, before) ==
  LET nodes == before + 1
  IN  CASE nodes > Ceilings.valueNodes -> Failed("Limit")
        [] nodes <= Ceilings.valueNodes /\ v.kind # s.kind -> Failed("Kind")
        [] OTHER ->
             CASE s.kind = "Boolean" -> Visited(nodes)
               [] s.kind = "Integer" ->
                    IF Within(v.number, s) THEN Visited(nodes) ELSE Failed("Range")
               [] s.kind = "Number" ->
                    IF ~v.finite THEN Failed("Kind")
                    ELSE IF Within(v.number, s) THEN Visited(nodes) ELSE Failed("Range")
               [] s.kind = "String" ->
                    IF /\ LengthFits(Bytes[v.text], s.minimumBytes, s.maximumBytes)
                       /\ \A entries \in s.enumeration : v.text \in ToSet(entries)
                    THEN Visited(nodes) ELSE Failed("Range")
               [] s.kind = "Array" ->
                    IF LengthFits(Len(v.items), s.minimumItems, s.maximumItems)
                    THEN VisitArray(s, v, nodes) ELSE Failed("Range")
               [] s.kind = "Object" ->
                    IF \E key \in DOMAIN v.fields : Bytes[key] > Ceilings.nameBytes
                    THEN Failed("Limit")
                    ELSE Merge(s.fields, SetToSortSeq(DOMAIN v.fields, <), v, Visited(nodes))

Valid(s, v) == Visit(s, v, 0).error = "None"

--------------------------------------------------------------------------------
(* Registration against the limits of the runner *)

\* schema_worst_case: entries, buffered bytes and the longest text.
RECURSIVE WorstCase(_)
WorstCase(s) ==
  LET children == [i \in DOMAIN Children(s) |-> WorstCase(Children(s)[i])]
      count == IF s.kind = "Array" THEN s.maximumItems ELSE 1
      name(i) == IF s.kind = "Object" THEN Bytes[s.fields[i].name] ELSE 0
      own == IF s.kind = "String" THEN s.maximumBytes ELSE 0
  IN  [entries |-> Total([i \in DOMAIN children |-> count * (1 + children[i].entries)]),
       bytes |-> SizeofLuaValue + own
                 + Total([i \in DOMAIN children |-> name(i) + count * children[i].bytes]),
       text |-> Largest({own} \union UNION {{name(i), children[i].text} : i \in DOMAIN children})]

\* Mutant of DepthFits: the depth of the innermost table, as it is read.
DepthReads(s) == ContainerDepth(s) <= Limits.tableDepth + 1

DepthFits(s) == ContainerDepth(s) <= Limits.tableDepth

\* validate_schema_against_limits
SchemaFits(s) ==
  /\ DepthFits(s)
  /\ WorstCase(s).entries <= Limits.tableEntries
  /\ WorstCase(s).text <= Limits.stringBytes
  /\ WorstCase(s).bytes <= Limits.bufferedBytes

--------------------------------------------------------------------------------
(* Totals of a value *)

Parts(v) ==
  CASE v.kind = "Array" -> v.items
    [] v.kind = "Object" -> v.fields
    [] OTHER -> <<>>

KeyBytes(v) ==
  IF v.kind # "Object" THEN 0 ELSE Total([key \in DOMAIN v.fields |-> Bytes[key]])

OwnBytes(v) == IF v.kind = "String" THEN Bytes[v.text] ELSE 0

RECURSIVE Entries(_)
Entries(v) == Total([p \in DOMAIN Parts(v) |-> 1 + Entries(Parts(v)[p])])

RECURSIVE BufferedBytes(_)
BufferedBytes(v) ==
  SizeofLuaValue + OwnBytes(v) + KeyBytes(v)
    + Total([p \in DOMAIN Parts(v) |-> BufferedBytes(Parts(v)[p])])

RECURSIVE Deepest(_)
Deepest(v) == Largest({1 + Deepest(Parts(v)[p]) : p \in DOMAIN Parts(v)})

RECURSIVE LongestText(_)
LongestText(v) ==
  Largest({OwnBytes(v)} \union {LongestText(Parts(v)[p]) : p \in DOMAIN Parts(v)}
          \union IF v.kind = "Object" THEN {Bytes[key] : key \in DOMAIN v.fields} ELSE {})

RECURSIVE AllFinite(_)
AllFinite(v) ==
  /\ v.kind = "Number" => v.finite
  /\ \A p \in DOMAIN Parts(v) : AllFinite(Parts(v)[p])

\* Tables inside each other; the depth of the innermost is one less.
RECURSIVE Tables(_)
Tables(v) ==
  IF v.kind \notin {"Array", "Object"} THEN 0
  ELSE 1 + Largest({Tables(Parts(v)[p]) : p \in DOMAIN Parts(v)})

--------------------------------------------------------------------------------
(* To Lua and back *)

\* consume_buffered_bytes over a value. All values that an execution shows and
\* reads share one budget, of which charged is spent; the other limits are of
\* one value.
BudgetHolds(v, charged) == charged + BufferedBytes(v) <= Limits.bufferedBytes

\* measure_lua_value: the check before a script sees a value.
Measures(v, charged) ==
  /\ Deepest(v) <= Limits.tableDepth
  /\ Entries(v) <= Limits.tableEntries
  /\ LongestText(v) <= Limits.stringBytes
  /\ BudgetHolds(v, charged)

\* push_lua_value: it can fail, too, for numbers that are not finite.
Pushes(v) ==
  /\ Deepest(v) <= Limits.tableDepth
  /\ Entries(v) <= Limits.tableEntries
  /\ LongestText(v) <= Limits.stringBytes
  /\ AllFinite(v)

\* The Lua value: a table that comes from an array is marked by a metatable.
RECURSIVE Pushed(_)
Pushed(v) ==
  LET parts == [p \in DOMAIN Parts(v) |-> Pushed(Parts(v)[p])]
  IN  CASE v.kind = "Array" -> [type |-> "table", array |-> TRUE, ints |-> parts, strings |-> <<>>]
        [] v.kind = "Object" -> [type |-> "table", array |-> FALSE, ints |-> <<>>, strings |-> parts]
        [] OTHER -> [type |-> "scalar", value |-> v]

\* read_lua_table: keys are all strings or all positions from one, and a marked
\* table is an array even when it is empty.
RECURSIVE WellKeyed(_)
WellKeyed(l) ==
  l.type = "table" =>
    /\ l.array \/ l.ints # <<>> => l.strings = <<>>
    /\ DOMAIN l.ints = 1..Cardinality(DOMAIN l.ints)
    /\ \A k \in DOMAIN l.ints : WellKeyed(l.ints[k])
    /\ \A k \in DOMAIN l.strings : WellKeyed(l.strings[k])

RECURSIVE Read(_)
Read(l) ==
  CASE l.type = "scalar" -> l.value
    [] l.type = "table" /\ (l.array \/ l.ints # <<>>) ->
         [kind |-> "Array", items |-> [k \in DOMAIN l.ints |-> Read(l.ints[k])]]
    [] OTHER -> [kind |-> "Object", fields |-> [k \in DOMAIN l.strings |-> Read(l.strings[k])]]

\* read_lua_value of the value a script proposes.
Reads(l, charged) ==
  /\ WellKeyed(l)
  /\ Tables(Read(l)) <= Limits.tableDepth + 1
  /\ Entries(Read(l)) <= Limits.tableEntries
  /\ LongestText(Read(l)) <= Limits.stringBytes
  /\ BudgetHolds(Read(l), charged)
  /\ AllFinite(Read(l))

--------------------------------------------------------------------------------
(* What validation and registration are for *)

RECURSIVE Nodes(_)
Nodes(v) == 1 + Total([p \in DOMAIN Parts(v) |-> Nodes(Parts(v)[p])])

\* The values a schema stands for.
RECURSIVE Conforms(_, _)
Conforms(s, v) ==
  /\ v.kind = s.kind
  /\ s.kind \in {"Integer", "Number"} => Within(v.number, s)
  /\ s.kind = "Number" => v.finite
  /\ s.kind = "String" =>
       /\ LengthFits(Bytes[v.text], s.minimumBytes, s.maximumBytes)
       /\ \A entries \in s.enumeration : \E i \in DOMAIN entries : entries[i] = v.text
  /\ s.kind = "Array" =>
       /\ LengthFits(Len(v.items), s.minimumItems, s.maximumItems)
       /\ \A i \in DOMAIN v.items : Conforms(s.item, v.items[i])
  /\ s.kind = "Object" =>
       /\ \A key \in DOMAIN v.fields : \E i \in DOMAIN s.fields : s.fields[i].name = key
       /\ \A f \in ToSet(s.fields) :
            IF f.name \in DOMAIN v.fields THEN Conforms(f.schema, v.fields[f.name])
            ELSE ~f.required

\* A value is valid if and only if it is one the schema stands for, unless it
\* has more nodes than validation visits.
ValidationIsExact(s, values) ==
  \A v \in values : Valid(s, v) <=> (Conforms(s, v) /\ Nodes(v) <= Ceilings.valueNodes)

\* A script is shown a value and proposes it back as it is, in an execution
\* that has spent charged bytes before.
RoundTrips(v, charged) ==
  /\ Measures(v, charged) /\ Pushes(v)
  /\ Reads(Pushed(v), charged + BufferedBytes(v)) /\ Read(Pushed(v)) = v

\* A script can be shown every value a schema admits. It can propose the value
\* back, unchanged, if and only if the budget holds the value twice, and so
\* whenever it holds the worst case of the schema twice: no other limit stops a
\* value that is admitted. One larger than half the budget is shown and cannot
\* come back in the same execution.
AdmittedValuesPass(s, values) ==
  \A v \in {x \in values : Valid(s, x)} :
    /\ Measures(v, 0) /\ Pushes(v)
    /\ \A charged \in 0..Limits.bufferedBytes :
         LET left == Limits.bufferedBytes - charged
         IN  /\ RoundTrips(v, charged) <=> 2 * BufferedBytes(v) <= left
             /\ 2 * WorstCase(s).bytes <= left => RoundTrips(v, charged)
============================================================================
