--------------------------------- MODULE Wire ---------------------------------
(***************************************************************************)
(* The protobuf codec of the protocol (checks.pb.go): Marshal, Size and    *)
(* Unmarshal of every message, over the tables of Messages.                *)
(*                                                                         *)
(* A message is a record of its type and of its fields' values. Bytes are  *)
(* integers; a string and a floating point number are their bytes; a       *)
(* pointer is a sequence of at most one message, a slice is a sequence, nil*)
(* or not. Integers are those of TLC, between -2^31 and 2^31: as on the    *)
(* wire, the negative ones take ten bytes.                                 *)
(***************************************************************************)
EXTENDS Messages, Integers, Sequences, SequencesExt, FiniteSetsExt

Cases(type) == ToSet(UnmarshalOf[type])

\* The zero value of a field, as its case of Unmarshal sees it, and of a message.
RECURSIVE Zero(_)
ZeroField(case) ==
  CASE case[3] = "varint"  -> 0
    [] case[3] = "bool"    -> FALSE
    [] case[3] = "fixed64" -> [i \in 1..8 |-> 0]
    [] case[3] = "fixed32" -> [i \in 1..4 |-> 0]
    [] case[3] = "value"   -> Zero(case[4])
    [] OTHER               -> <<>>

Zero(type) ==
  [of |-> type,
   has |-> [name \in {case[2] : case \in Cases(type)} |->
              ZeroField(CHOOSE case \in Cases(type) : case[2] = name)]]

------------------------------------------------------------------------------
(* Marshal                                                                 *)

RECURSIVE Varint(_, _)
Varint(v, left) ==
  IF v \in 0..127 THEN <<v>>
  ELSE IF left = 1 THEN <<1>>
  ELSE <<128 + (v % 128)>> \o Varint(v \div 128, left - 1)

Mut_sovChecks(v) ==
  IF v < 0 THEN 10
  ELSE LET bits == IF v = 0 THEN 0 ELSE CHOOSE n \in 1..31 : v \div 2^(n - 1) = 1
       IN (bits + 6) \div 7

\* The length of the integer's binary form, in groups of seven bits.
sovChecks(v) ==
  IF v < 0 THEN 10
  ELSE LET bits == IF v = 0 THEN 1 ELSE CHOOSE n \in 1..31 : v \div 2^(n - 1) = 1
       IN (bits + 6) \div 7

\* The integer before what is written already, from as far back as sovChecks
\* says: with too much room zeros would follow it, with too little it would run
\* over what follows.
encodeVarintChecks(v, written) ==
  LET b == Varint(v, 10)
      room == sovChecks(v)
  IN b \o [i \in 1..(room - Len(b)) |-> 0]
       \o SubSeq(written, Max({0, Len(b) - room}) + 1, Len(written))

Delimited(b) == encodeVarintChecks(Len(b), b)

\* Minus zero is zero too.
IsZeroFloat(b) == /\ \A i \in 1..Len(b) - 1 : b[i] = 0
                  /\ b[Len(b)] \in {0, 128}

\* What is written of a field, each time after its tag.
RECURSIVE MarshalToSizedBuffer(_)
Contents(kind, v) ==
  CASE kind = "varint" -> IF v = 0 THEN <<>> ELSE <<encodeVarintChecks(v, <<>>)>>
    [] kind = "bool" -> IF v THEN <<<<1>>>> ELSE <<>>
    [] kind \in {"fixed64", "fixed32"} -> IF IsZeroFloat(v) THEN <<>> ELSE <<v>>
    [] kind = "string" -> IF v = <<>> THEN <<>> ELSE <<Delimited(v)>>
    [] kind = "strings" -> [i \in 1..Len(v) |-> Delimited(v[i])]
    [] kind = "packed" ->
         IF v = <<>> THEN <<>>
         ELSE <<Delimited(FlattenSeq([i \in 1..Len(v) |-> Varint(v[i], 10)]))>>
    [] kind = "value" -> <<Delimited(MarshalToSizedBuffer(v))>>
    [] kind \in {"pointer", "messages"} ->
         [i \in 1..Len(v) |-> Delimited(MarshalToSizedBuffer(v[i]))]

\* The fields as they are on the wire: the first that is written comes last.
Fields(m) ==
  FlattenSeq(Reverse(
    [k \in 1..Len(MarshalOf[m.of]) |->
       LET f == MarshalOf[m.of][k]
           contents == Contents(f[3], m.has[f[1]])
       IN [i \in 1..Len(contents) |-> f[2] \o contents[i]]]))

MarshalToSizedBuffer(m) == FlattenSeq(Fields(m))

Total(s) == FoldSeq(LAMBDA x, y : x + y, 0, s)

RECURSIVE Size(_)
Measure(extra, kind, v) ==
  LET Delimit(l) == extra + l + sovChecks(l) IN
  CASE kind = "varint" -> IF v = 0 THEN 0 ELSE extra + sovChecks(v)
    [] kind = "bool" -> IF v THEN extra ELSE 0
    [] kind = "fixed" -> IF IsZeroFloat(v) THEN 0 ELSE extra
    [] kind = "string" -> IF v = <<>> THEN 0 ELSE Delimit(Len(v))
    [] kind = "strings" -> Total([i \in 1..Len(v) |-> Delimit(Len(v[i]))])
    [] kind = "packed" ->
         IF v = <<>> THEN 0
         ELSE Delimit(Total([i \in 1..Len(v) |-> sovChecks(v[i])]))
    [] kind = "value" -> Delimit(Size(v))
    [] kind \in {"pointer", "messages"} -> Total([i \in 1..Len(v) |-> Delimit(Size(v[i]))])

Size(m) ==
  Total([k \in 1..Len(SizeOf[m.of]) |->
            LET f == SizeOf[m.of][k] IN Measure(f[2], f[3], m.has[f[1]])])

\* The buffer has Size bytes and is filled from its end, beyond its beginning if
\* they are too few; what is returned is its beginning, as many bytes as were
\* written.
Panics(m) == Size(m) < Len(MarshalToSizedBuffer(m))

Marshal(m) ==
  LET b == MarshalToSizedBuffer(m)
  IN SubSeq([i \in 1..Size(m) - Len(b) |-> 0] \o b, 1, Len(b))

------------------------------------------------------------------------------
(* Unmarshal: each reader returns a value and where it stopped, 0 for an   *)
(* error                                                                   *)

Error == [v |-> 0, next |-> 0]

\* Of more than four groups of seven bits, the fifth has what is left of 32 bits.
ReadVarint(b, i) ==
  LET ends == {j \in i..Min({i + 9, Len(b)}) : b[j] < 128}
      last == Min(ends)
      group(k) == IF i + k <= last THEN b[i + k] % 128 ELSE 0
      high == IF last = i + 9 THEN group(4) - 128 ELSE group(4)
  IN IF ends = {} THEN Error
     ELSE [v |-> group(0) + group(1) * 2^7 + group(2) * 2^14 + group(3) * 2^21 + high * 2^28,
           next |-> last + 1]

ReadFixed(b, i, n) ==
  IF i + n - 1 > Len(b) THEN Error ELSE [v |-> SubSeq(b, i, i + n - 1), next |-> i + n]

ReadDelimited(b, i) ==
  LET l == ReadVarint(b, i) IN
  IF l.next = 0 \/ l.v < 0 THEN Error ELSE ReadFixed(b, l.next, l.v)

\* The last element of packed integers may go on after their end.
RECURSIVE ReadPacked(_, _, _, _)
ReadPacked(b, i, end, read) ==
  IF i >= end THEN [v |-> read, next |-> i]
  ELSE LET e == ReadVarint(b, i) IN
       IF e.next = 0 THEN Error ELSE ReadPacked(b, e.next, end, Append(read, e.v))

\* Where the field, or the start or the end of a group, with this tag ends.
FieldEnd(b, wire, depth) ==
  LET wireType == wire.v % 8
      l == ReadVarint(b, wire.next)
  IN IF wire.next = 0 THEN 0
     ELSE CASE wireType = 0 -> l.next
            [] wireType = 1 -> wire.next + 8
            [] wireType = 2 -> IF l.next = 0 \/ l.v < 0 THEN 0 ELSE l.next + l.v
            [] wireType = 3 \/ (wireType = 4 /\ depth > 0) -> wire.next
            [] wireType = 5 -> wire.next + 4
            [] OTHER -> 0

Mut_skipChecks(b, i, depth) == FieldEnd(b, ReadVarint(b, i), depth)

\* A field that is not known, from its tag to its end: that of a group is the
\* end of the outermost one.
RECURSIVE skipChecks(_, _, _)
skipChecks(b, i, depth) ==
  LET wire == ReadVarint(b, i)
      next == FieldEnd(b, wire, depth)
      inner == CASE wire.v % 8 = 3 -> depth + 1 [] wire.v % 8 = 4 -> depth - 1 [] OTHER -> depth
  IN IF next = 0 \/ inner = 0 THEN next ELSE skipChecks(b, next, inner)

RECURSIVE UnmarshalInto(_, _, _)

\* A case of the switch, for a field that has the value old.
ReadField(case, wireType, b, i, old) ==
  LET kind == case[3]
      d == ReadDelimited(b, i)
      Nested(message, Set(_)) ==
        LET r == UnmarshalInto(message, d.v, 1) IN
        IF d.next = 0 \/ r.next = 0 THEN Error ELSE [v |-> Set(r.v), next |-> d.next]
  IN CASE kind = "varint" /\ wireType = 0 -> ReadVarint(b, i)
       [] kind = "bool" /\ wireType = 0 ->
            LET r == ReadVarint(b, i) IN [v |-> r.v # 0, next |-> r.next]
       [] kind = "fixed64" /\ wireType = 1 -> ReadFixed(b, i, 8)
       [] kind = "fixed32" /\ wireType = 5 -> ReadFixed(b, i, 4)
       [] kind = "string" /\ wireType = 2 -> d
       [] kind = "strings" /\ wireType = 2 -> [d EXCEPT !.v = Append(old, @)]
       [] kind = "packed" /\ wireType = 0 ->
            LET r == ReadVarint(b, i) IN [r EXCEPT !.v = Append(old, @)]
       [] kind = "packed" /\ wireType = 2 ->
            IF d.next = 0 THEN Error ELSE ReadPacked(b, d.next - Len(d.v), d.next, old)
       [] kind = "pointer" /\ wireType = 2 ->
            Nested(IF old = <<>> THEN Zero(case[4]) ELSE old[1], LAMBDA m : <<m>>)
       [] kind = "value" /\ wireType = 2 -> Nested(old, LAMBDA m : m)
       [] kind = "messages" /\ wireType = 2 ->
            Nested(Zero(case[4]), LAMBDA m : Append(old, m))
       [] OTHER -> Error

UnmarshalInto(m, b, i) ==
  LET wire == ReadVarint(b, i)
      fieldNum == wire.v \div 8
      wireType == wire.v % 8
      cases == {case \in Cases(m.of) : case[1] = fieldNum}
      case == CHOOSE case \in cases : TRUE
      field == ReadField(case, wireType, b, wire.next, m.has[case[2]])
      skipped == skipChecks(b, i, 0)
  IN IF i = Len(b) + 1 THEN [v |-> m, next |-> i]
     ELSE IF i > Len(b) \/ wire.next = 0 THEN Error
     ELSE IF wireType = 4 \/ fieldNum <= 0 THEN Error
     ELSE IF cases = {}
       THEN IF skipped = 0 \/ skipped > Len(b) + 1 THEN Error ELSE UnmarshalInto(m, b, skipped)
     ELSE IF field.next = 0 THEN Error
     ELSE UnmarshalInto([m EXCEPT !.has[case[2]] = field.v], b, field.next)

Unmarshal(type, b) == UnmarshalInto(Zero(type), b, 1)
------------------------------------------------------------------------------
(* Messages to try: with no field set, with all of them set, and with one  *)

\* In a full message, strings are short and messages are empty.
Full(type) ==
  [of |-> type,
   has |-> [name \in {case[2] : case \in Cases(type)} |->
     LET case == CHOOSE case \in Cases(type) : case[2] = name
     IN CASE case[3] = "varint"  -> case[1] - 5
          [] case[3] = "bool"    -> TRUE
          [] case[3] = "fixed64" -> [i \in 1..8 |-> i]
          [] case[3] = "fixed32" -> [i \in 1..4 |-> i]
          [] case[3] = "string"  -> <<case[1] % 256>>
          [] case[3] = "strings" -> <<<<1>>>>
          [] case[3] = "packed"  -> <<case[1], 0>>
          [] case[3] = "value"   -> Zero(case[4])
          [] OTHER               -> <<Zero(case[4])>>]]

\* Values of a field on both sides of where its form on the wire changes.
Values(case) ==
  CASE case[3] = "varint"  -> {1, 127, 128, 16384, 2^30 + 5, -1, -1001}
    [] case[3] = "bool"    -> {TRUE}
    [] case[3] = "fixed64" -> {[i \in 1..8 |-> 8 - i], [i \in 1..8 |-> 255]}
    [] case[3] = "fixed32" -> {[i \in 1..4 |-> i]}
    [] case[3] = "string"  -> {<<8>>, [i \in 1..127 |-> 18], [i \in 1..128 |-> i]}
    [] case[3] = "strings" -> {<<<<>>>>, <<<<1>>, <<>>, <<2>>>>}
    [] case[3] = "packed"  -> {<<0>>, <<-1, 300, 1>>}
    [] case[3] = "pointer" -> {<<Zero(case[4])>>, <<Full(case[4])>>}
    [] case[3] = "value"   -> {Full(case[4])}
    [] case[3] = "messages" -> {<<Zero(case[4])>>, <<Full(case[4]), Zero(case[4])>>}

Samples(type) ==
  {Zero(type), Full(type)} \cup
  UNION {{[Zero(type) EXCEPT !.has[case[2]] = v] : v \in Values(case)} : case \in Cases(type)}

VARIABLE wired    \* the message on the wire, if any

WireInit == wired = {}

Transmit == wired = {} /\ \E type \in DOMAIN UnmarshalOf :
                            \E m \in Samples(type) : wired' = {m}

------------------------------------------------------------------------------
(* Properties                                                              *)

\* What Marshal writes, Unmarshal reads: the three methods of a message, which
\* are generated apart, agree on the number, the kind and the length of every
\* field, and the buffer that Size asks for is filled to its last byte.
WireRoundTrip ==
  \A m \in wired : ~Panics(m) /\ Unmarshal(m.of, Marshal(m)) = [v |-> m, next |-> Size(m) + 1]

\* Fields of every wire type, with a number no message has, one of them a group
\* with a field in it.
UnknownFields == <<192, 62, 150, 1>> \o <<193, 62, 1, 2, 3, 4, 5, 6, 7, 8>>
                 \o <<194, 62, 2, 8, 1>> \o <<197, 62, 1, 2, 3, 4>>
                 \o <<195, 62, 8, 1, 196, 62>>

\* Two messages, one after the other, are one message with the fields of both.
RECURSIVE Merged(_, _)
Merged(m, n) ==
  [m EXCEPT !.has = [name \in DOMAIN m.has |->
    LET case == CHOOSE case \in Cases(m.of) : case[2] = name
        old == m.has[name]
        new == n.has[name]
    IN CASE case[3] = "value" -> Merged(old, new)
         [] case[3] = "pointer" /\ old # <<>> /\ new # <<>> -> <<Merged(old[1], new[1])>>
         [] case[3] \in {"strings", "packed", "messages"} -> old \o new
         [] OTHER -> IF new = ZeroField(case) THEN old ELSE new]]

\* A peer of another version may send fields this one does not know: they are
\* skipped, wherever they are. A message that comes in pieces is merged. One
\* that is cut is refused, unless it is cut between two fields.
WireTolerant ==
  \A m \in wired :
    LET b == Marshal(m)
        more == Unmarshal(m.of, Marshal(Full(m.of)) \o UnknownFields \o b)
        Boundaries == {Len(FlattenSeq(SubSeq(Fields(m), 1, n))) : n \in 0..Len(Fields(m))}
    IN /\ more.next # 0 /\ more.v = Merged(Full(m.of), m)
       /\ Len(b) <= 30 => \A n \in 0..Len(b) :
                            Unmarshal(m.of, SubSeq(b, 1, n)).next = 0 <=> n \notin Boundaries
==============================================================================
