---------------------------- MODULE MCLuaScripts ---------------------------
(* TLC instance of LuaLifecycleSystem. *)
EXTENDS LuaLifecycleSystem

CONSTANTS main, other

AllLevels == [c \in Components |-> "Level"]
LevelAndMode ==
  LET first == CHOOSE c \in Components : TRUE
  IN  [c \in Components |-> IF c = first THEN "Level" ELSE "Mode"]

Script(name, text, readable) == [name |-> name, text |-> text, readable |-> readable]

\* One script; two, which is one too many unless the name is fixed; and one
\* that is readable next to one that is not.
Edits ==
  { {},
    {Script(main, "A", TRUE)},
    {Script(main, "B", TRUE), Script(other, "A", TRUE)},
    {Script(main, "B", FALSE), Script(other, "A", TRUE)} }

--------------------------------------------------------------------------------
(* Described values. A text is its number; 3 is too long for a field name. *)

SmallBytes == <<0, 1, 3>>

SmallCeilings ==
  [nodes |-> 4, containerNesting |-> 3, fields |-> 2, arrayItems |-> 3, stringBytes |-> 3,
   enumEntries |-> 2, enumBytes |-> 3, descriptionBytes |-> 1, nameBytes |-> 2, valueNodes |-> 5]

SmallLimits == [tableDepth |-> 2, tableEntries |-> 4, stringBytes |-> 2, bufferedBytes |-> 12]

Bounded(kind, low, high) == [kind |-> kind, description |-> 0, minimum |-> low, maximum |-> high]
Text(low, high, enumeration) ==
  [kind |-> "String", description |-> 0, minimumBytes |-> low, maximumBytes |-> high,
   enumeration |-> enumeration]
ArrayOf(item, low, high) ==
  [kind |-> "Array", description |-> 0, item |-> item, minimumItems |-> low, maximumItems |-> high]
ObjectOf(fields) ==
  [kind |-> "Object", description |-> 0, fields |-> SortSeq(fields, LAMBDA x, y : x.name < y.name)]
Field(name, schema, required) == [name |-> name, schema |-> schema, required |-> required]

LeafSchemas ==
  {[kind |-> "Boolean", description |-> d] : d \in {0, 2}}
    \union {Bounded("Integer", {1}, {1}), Bounded("Integer", {1}, {0}), Bounded("Number", {}, {0})}
    \union {Text(0, 1, {}), Text(1, 3, {}), Text(0, 3, {<<1, 3>>}), Text(0, 1, {<<2, 2>>}), Text(2, 1, {})}

ShortSchemas == {Bounded("Integer", {}, {0}), Text(0, 1, {})}

FlatSchemas ==
  {ArrayOf(item, b[1], b[2]) : item \in LeafSchemas, b \in {<<0, 0>>, <<0, 2>>, <<1, 3>>}}
    \union {ObjectOf(<<>>)}
    \union {ObjectOf(<<Field(n, leaf, r)>>) : n \in 1..3, leaf \in LeafSchemas, r \in BOOLEAN}
    \union {ObjectOf(<<Field(m, left, r), Field(n, right, TRUE)>>) :
              m \in 1..2, n \in 1..2, left \in ShortSchemas, right \in LeafSchemas, r \in BOOLEAN}

DeepSchemas ==
  LET inner == {ArrayOf(leaf, 0, 2) : leaf \in ShortSchemas}
                 \union {ObjectOf(<<Field(1, leaf, FALSE)>>) : leaf \in ShortSchemas}
      middle == {ArrayOf(s, 0, n) : s \in inner, n \in 1..2}
                  \union {ObjectOf(<<Field(2, s, TRUE)>>) : s \in inner}
  IN  middle \union {ArrayOf(s, 0, 1) : s \in middle}

SomeSchemas == LeafSchemas \union FlatSchemas \union DeepSchemas

LeafValues ==
  {[kind |-> "Boolean"], [kind |-> "Integer", number |-> 0], [kind |-> "Integer", number |-> 1],
   [kind |-> "Number", number |-> 0, finite |-> TRUE], [kind |-> "Number", number |-> 0, finite |-> FALSE]}
    \union {[kind |-> "String", text |-> t] : t \in 1..3}

Composed(items, length, names) ==
  {[kind |-> "Array", items |-> q] : q \in BoundedSeq(items, length)}
    \union {[kind |-> "Object", fields |-> f] : f \in UNION {[d -> items] : d \in SUBSET names}}

SomeValues ==
  LET few == {[kind |-> "Integer", number |-> 0], [kind |-> "String", text |-> 2]}
      flat == Composed(LeafValues, 2, {1, 2}) \union Composed({[kind |-> "Boolean"]}, 3, {3})
      deep == Composed(Composed(few, 2, {1}), 2, {2})
  IN  LeafValues \union flat \union deep \union Composed(deep, 1, {})
============================================================================
