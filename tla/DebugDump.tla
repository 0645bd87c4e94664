------------------------------ MODULE DebugDump ------------------------------
(***************************************************************************)
(* debug-dump.js: the textual representation of a value for the logs.  A   *)
(* value is a number, another leaf, or an object of a container type; the  *)
(* objects may contain one another, and themselves, in any way.  The set   *)
(* of the objects being visited is one mutable set that is passed down, so *)
(* whatever gets it returns it as well.  A text is a tree here.            *)
(***************************************************************************)
EXTENDS Integers, Sequences, SequencesExt

CONSTANTS
  Objects,
  BIT_LENGTHS,  \* <<8, 32, 64>>
  Significand,  \* 53: how many significant bits a number has
  Numbers,      \* the integers that occur
  MaxItems      \* how many items an object has

VARIABLES
  graph,        \* each object's type and items
  logged        \* the object that has been dumped, and its text

vars == <<graph, logged>>

\* References to objects, and the leaves.
Ref(o) == [kind |-> "object", object |-> o]
Leaf == [kind |-> "leaf"]
Values == {Ref(o) : o \in Objects} \cup {Leaf}

Text(is, items) == [is |-> is, items |-> items]

-----------------------------------------------------------------------------
\* An integer n >= 0 as a JavaScript number: the nearest multiple of its last
\* significant bit, an even multiple of two equally near.
LastBit(n) ==
  2^(CHOOSE k \in 0 .. Last(BIT_LENGTHS) :
       n < 2^(k + Significand) /\ (k = 0 \/ n >= 2^(k - 1 + Significand)))

ToNumber(n) ==
  LET unit == LastBit(n)
      down == unit * (n \div unit)
      rest == 2 * (n - down)
  IN IF rest < unit \/ (rest = unit /\ (n \div unit) % 2 = 0) THEN down ELSE down + unit

NumbersAssumption ==
  /\ Significand \in Nat
  \* What occurs is a number already.
  /\ \A n \in Numbers : LET size == IF n < 0 THEN 0 - n ELSE n IN ToNumber(size) = size

GuessIntegerBitLength(value) ==
  LET fits == {i \in DOMAIN BIT_LENGTHS :
                 0 - 2^(BIT_LENGTHS[i] - 1) <= value /\ value < 2^BIT_LENGTHS[i]}
  IN IF fits = {} THEN 0
     ELSE BIT_LENGTHS[CHOOSE i \in fits : \A j \in fits : i <= j]

\* The value in hexadecimal digits, or as it is.  The sum of a negative one and
\* 2^bitLength is again a JavaScript number, and so a rounded one.
DumpNumber(value) ==
  LET bitLength == GuessIntegerBitLength(value)
  IN IF bitLength = 0 THEN [digits |-> 0, value |-> value]
     ELSE [digits |-> bitLength \div 4,
           value |-> IF value < 0 THEN ToNumber(value + 2^bitLength) ELSE value]

\* Strings, functions and bytes; and DOM nodes, disposables and chrome, whose
\* items mean nothing in a log.
DumpLeaf == Text("leaf", <<>>)
Circular == Text("circular", <<>>)

\* The functions below call dump again for the items: it is their first argument.

\* dumpSequenceItems: the items in turn; the set goes through their hands.
DumpSequenceItems(dump, items, parents) ==
  FoldLeft(LAMBDA done, item :
             LET next == dump[item, done.parents]
             IN [texts |-> Append(done.texts, next.text), parents |-> next.parents],
           [texts |-> <<>>, parents |-> parents], items)

DumpArray(dump, items, parents) == DumpSequenceItems(dump, items, parents)
DumpSet(dump, items, parents) == DumpSequenceItems(dump, items, parents)

\* dumpMappingItems: pairs of key and value; the keys of an object are strings,
\* those of a map any values.
DumpMappingItems(dump, pairs, parents) ==
  DumpSequenceItems(dump, FlattenSeq(pairs), parents)
DumpMap(dump, items, parents) ==
  DumpMappingItems(dump, [i \in DOMAIN items |-> <<items[i], items[i]>>], parents)
DumpObject(dump, items, parents) ==
  DumpMappingItems(dump, [i \in DOMAIN items |-> <<Leaf, items[i]>>], parents)

DumpContainerRecursively(dump, o, parents) ==
  LET items == graph[o].items
  IN CASE graph[o].type = "array" -> DumpArray(dump, items, parents)
       [] graph[o].type = "map" -> DumpMap(dump, items, parents)
       [] graph[o].type = "set" -> DumpSet(dump, items, parents)
       [] OTHER -> DumpObject(dump, items, parents)

\* Mutant: what has been visited once is taken for a cycle.
DumpVisitedOnce(dump, o, parents) ==
  LET r == DumpContainerRecursively(dump, o, parents \cup {o})
  IN [text |-> Text(graph[o].type, r.texts), parents |-> r.parents]

\* An object is in the set while its items are dumped, and not after.
DumpVisited(dump, o, parents) ==
  LET r == DumpContainerRecursively(dump, o, parents \cup {o})
  IN [text |-> Text(graph[o].type, r.texts), parents |-> r.parents \ {o}]

Dump[value \in Values, parents \in SUBSET Objects] ==
  CASE value.kind = "leaf" -> [text |-> DumpLeaf, parents |-> parents]
    [] value.kind = "object" /\ value.object \in parents ->
         [text |-> Circular, parents |-> parents]
    [] OTHER -> DumpVisited(Dump, value.object, parents)

DebugDumpFull(value) == Dump[value, {}].text

-----------------------------------------------------------------------------
Init ==
  /\ graph \in [Objects -> [type : {"array", "map", "set", "object"},
                            items : UNION {[1 .. n -> Values] : n \in 0 .. MaxItems}]]
  /\ logged = <<>>

Log(o) ==
  /\ logged = <<>>
  /\ logged' = <<o, DebugDumpFull(Ref(o))>>
  /\ UNCHANGED graph

Next == \E o \in Objects : Log(o)

Spec == Init /\ [][Next]_vars

-----------------------------------------------------------------------------
\* The reference: every path through the objects is followed until it comes
\* back to an object it has passed.
Unfold[value \in Values, path \in SUBSET Objects] ==
  IF value.kind # "object" THEN DumpLeaf
  ELSE IF value.object \in path THEN Circular
  ELSE LET o == value.object
           below(v) == Unfold[v, path \cup {o}]
           items == graph[o].items
           width == IF graph[o].type \in {"array", "set"} THEN 1 ELSE 2
           key(v) == IF graph[o].type = "map" THEN below(v) ELSE DumpLeaf
       IN Text(graph[o].type,
               [i \in 1 .. width * Len(items) |->
                  IF width = 2 /\ i % 2 = 1 THEN key(items[(i + 1) \div 2])
                  ELSE below(items[(i + width - 1) \div width])])

\* The digits are as many as announced, so that the padding before them has a
\* length, a negative number has its sign in the first of them, and they are its
\* two's complement, or where this has more bits than a number can hold, the
\* nearest number: below -2^31 several integers share one text.
NumberShown(n) ==
  LET d == DumpNumber(n)
      end == 16^d.digits
      complement == IF n < 0 THEN n + end ELSE n
  IN IF d.digits = 0 THEN d.value = n
     ELSE /\ d.value \in 0 .. end - 1
          /\ n < 0 => 2 * d.value >= end
          /\ 2 * (d.value - complement) \in 0 - LastBit(complement) .. LastBit(complement)

\* A dump ends, and shows an object in full wherever it is reached, several
\* times too, except where it contains itself; and integers as NumberShown says.
DumpUnfolds ==
  logged # <<>> =>
    /\ logged[2] = Unfold[Ref(logged[1]), {}]
    /\ \A n \in Numbers : NumberShown(n)
=============================================================================
