------------------------------ MODULE ProtoCodec ------------------------------
(* The wire format of the RPCs, as the generated code of src/pb reads and writes it.  Every
   message has a Marshal, a Size and an Unmarshal function of its own, generated from its
   .proto file; the modules PbMaster, PbExecutor, ... hold what those functions do field by
   field, and this one what they do with a field.  A message travels from a sender to a
   receiver that may be one release older and not know one of its fields.

   A message is a function from field names to values: a 64-bit word, a BOOLEAN, a sequence
   of bytes, or a sequence of those; a pointer is a sequence of at most one message. *)
EXTENDS Integers, Sequences, SequencesExt, FiniteSets, TLC

CONSTANT Schema     \* message name -> <<Marshal table, Size table, Unmarshal table>>

VARIABLES
    phase,      \* "idle", "sent", "received" or "panic"
    type,       \* name of the message under way
    sent,       \* the message given to Marshal
    wire,       \* the bytes Marshal returned
    unknown,    \* fields the receiver's release does not know
    got         \* <<message>> that Unmarshal filled in, << >> if it returned an error

vars == <<phase, type, sent, wire, unknown, got>>

-------------------------------------------------------------------------------
(* 64-bit words, as ten base-128 digits, least significant first; the last digit is one bit. *)

Word(n) == [i \in 1..10 |-> IF i > 4 THEN 0 ELSE (n \div (128 ^ (i - 1))) % 128]

Zero64 == Word(0)

MinusOne == [i \in 1..10 |-> IF i = 10 THEN 1 ELSE 127]

\* The sign-extended smallest int32 and the smallest int64.
MinInt32 == <<0, 0, 0, 0, 120, 127, 127, 127, 127, 1>>
MinInt64 == <<0, 0, 0, 0, 0, 0, 0, 0, 0, 1>>

Top(v) == IF v = Zero64 THEN 1 ELSE CHOOSE i \in 1..10 : v[i] # 0 /\ \A j \in (i + 1)..10 : v[j] = 0

BitLen(d) == Cardinality({k \in 0..6 : 2 ^ k <= d})

Len64(v) == 7 * (Top(v) - 1) + BitLen(v[Top(v)])

\* What is left of a word in a field of Go type int32: the low 32 bits, sign-extended.
ToInt32(v) ==
    LET d == v[5] % 16 IN
    IF d < 8 THEN [v EXCEPT ![5] = d, ![6] = 0, ![7] = 0, ![8] = 0, ![9] = 0, ![10] = 0]
    ELSE [v EXCEPT ![5] = d + 112, ![6] = 127, ![7] = 127, ![8] = 127, ![9] = 127, ![10] = 1]

-------------------------------------------------------------------------------
(* Writing, from the end of the buffer towards its start: "rest" is what is already there. *)

sovNoOr(x) == (Len64(x) + 6) \div 7

sov(x) == (Len64([x EXCEPT ![1] = IF @ % 2 = 0 THEN @ + 1 ELSE @]) + 6) \div 7

VarintBytes(v) == [i \in 1..Top(v) |-> IF i < Top(v) THEN v[i] + 128 ELSE v[i]]

\* Moves back by sov(v) bytes and writes forward from there as long as digits remain.
encodeVarint(rest, v) ==
    LET buf == [i \in 1..sov(v) |-> 0] \o rest IN
    [i \in 1..Len(buf) |-> IF i <= Len(VarintBytes(v)) THEN VarintBytes(v)[i] ELSE buf[i]]

Delimited(payload, rest) == encodeVarint(payload \o rest, Word(Len(payload)))

RECURSIVE MarshalToSizedBuffer(_, _)
MarshalToSizedBuffer(T, m) ==
    LET Put(rest, row) ==
          LET v == m[row[2]] IN
          CASE row[3] = "varint"  -> IF v = Zero64 THEN rest ELSE <<row[1]>> \o encodeVarint(rest, v)
            [] row[3] = "bool"    -> IF v THEN <<row[1], 1>> \o rest ELSE rest
            [] row[3] = "bytes"   -> IF v = << >> THEN rest ELSE <<row[1]>> \o Delimited(v, rest)
            [] row[3] = "packed"  -> IF v = << >> THEN rest
                                     ELSE <<row[1]>> \o Delimited(FlattenSeq([i \in 1..Len(v) |-> VarintBytes(v[i])]), rest)
            [] row[3] = "strings" -> FoldRight(LAMBDA e, r : <<row[1]>> \o Delimited(e, r), v, rest)
            [] row[3] \in {"ptr", "msgs"} ->
                 FoldRight(LAMBDA e, r : <<row[1]>> \o Delimited(MarshalToSizedBuffer(row[4], e), r), v, rest)
    IN FoldLeft(Put, << >>, Schema[T][1])

DelimitedSize(l) == 1 + l + sov(Word(l))

\* A bool that is counted without its tag.
FieldSizeNoTag(shape, v, sizes) ==
    CASE shape = "varint"  -> IF v = Zero64 THEN 0 ELSE 1 + sov(v)
      [] shape = "bool"    -> IF v THEN 1 ELSE 0
      [] shape = "bytes"   -> IF v = << >> THEN 0 ELSE DelimitedSize(Len(v))
      [] OTHER             -> FoldLeft(LAMBDA n, l : n + DelimitedSize(l), 0, sizes)

\* "sizes" are the lengths of the strings or messages a repeated field holds, or the one
\* length of the packed block.
FieldSize(shape, v, sizes) ==
    CASE shape = "varint"  -> IF v = Zero64 THEN 0 ELSE 1 + sov(v)
      [] shape = "bool"    -> IF v THEN 2 ELSE 0
      [] shape = "bytes"   -> IF v = << >> THEN 0 ELSE DelimitedSize(Len(v))
      [] OTHER             -> FoldLeft(LAMBDA n, l : n + DelimitedSize(l), 0, sizes)

RECURSIVE Size(_, _)
Size(T, m) ==
    LET sizes(row, v) ==
          CASE row[2] = "strings" -> [i \in 1..Len(v) |-> Len(v[i])]
            [] row[2] = "packed"  -> IF v = << >> THEN << >>
                                     ELSE <<FoldLeft(LAMBDA n, e : n + sov(e), 0, v)>>
            [] row[2] \in {"ptr", "msgs"} -> [i \in 1..Len(v) |-> Size(row[3], v[i])]
            [] OTHER -> << >>
        Add(n, row) == n + FieldSize(row[2], m[row[1]], sizes(row, m[row[1]]))
    IN FoldLeft(Add, 0, Schema[T][2])

-------------------------------------------------------------------------------
(* Reading.  Each reader returns the bytes it leaves, or an error; the errors (truncated,
   overflow, bad length) all end the call and are not told apart. *)

Error == << >>

Drop(b, n) == SubSeq(b, n + 1, Len(b))

\* <<word, remaining bytes>>: a varint of at most ten bytes.
readVarint(b) ==
    LET ends == {k \in 1..10 : k <= Len(b) /\ b[k] < 128} IN
    IF ends = {} THEN Error
    ELSE LET k == CHOOSE k \in ends : \A j \in ends : k <= j IN
         << [i \in 1..10 |-> IF i > k THEN 0 ELSE IF i = 10 THEN b[i] % 2 ELSE b[i] % 128], Drop(b, k) >>

\* <<payload, remaining bytes>>: a length that is negative, overflows or passes the end fails.
readDelimited(b) ==
    LET r == readVarint(b) IN
    IF r = Error THEN Error
    ELSE LET n == r[1][1] + 128 * r[1][2] + 16384 * r[1][3] IN
         IF (\E i \in 4..10 : r[1][i] # 0) \/ n > Len(r[2]) THEN Error
         ELSE << SubSeq(r[2], 1, n), Drop(r[2], n) >>

\* <<remaining bytes>> after one field of a number the receiver does not know.
RECURSIVE skipGroups(_, _)
skipGroups(b, depth) ==
    LET tag == readVarint(b) IN
    IF tag = Error THEN Error
    ELSE LET wireType == tag[1][1] % 8
             fixed(n) == IF n > Len(tag[2]) THEN Error ELSE <<Drop(tag[2], n)>>
             after == CASE wireType = 0 -> LET r == readVarint(tag[2]) IN IF r = Error THEN Error ELSE <<r[2]>>
                        [] wireType = 1 -> fixed(8)
                        [] wireType = 2 -> LET r == readDelimited(tag[2]) IN IF r = Error THEN Error ELSE <<r[2]>>
                        [] wireType = 3 -> <<tag[2]>>
                        [] wireType = 4 -> IF depth = 0 THEN Error ELSE <<tag[2]>>
                        [] wireType = 5 -> fixed(4)
                        [] OTHER -> Error
             d == CASE wireType = 3 -> depth + 1 [] wireType = 4 -> depth - 1 [] OTHER -> depth
         IN IF after = Error \/ d = 0 THEN after ELSE skipGroups(after[1], d)

skip(b) == skipGroups(b, 0)

Zero(row) ==
    CASE row[4] \in {"int32", "word"} -> Zero64 [] row[4] = "bool" -> FALSE [] OTHER -> << >>

NewMessage(T) ==
    LET rows == Schema[T][3] IN
    [f \in {rows[i][3] : i \in DOMAIN rows} |-> Zero(CHOOSE r \in ToSet(rows) : r[3] = f)]

\* The words of a packed block, in order.
RECURSIVE unpack(_)
unpack(b) == IF b = << >> THEN << >> ELSE LET r == readVarint(b) IN <<r[1]>> \o unpack(r[2])

\* Stores one field after another of "b" in message "m" of type T; fields in "hidden" take
\* the default branch of the switch.  A packed field may also come as one word.
RECURSIVE Unmarshal(_, _, _, _)
Unmarshal(T, hidden, b, m) ==
    IF b = << >> THEN <<m>>
    ELSE LET tag == readVarint(b) IN
    IF tag = Error THEN Error
    ELSE LET wireType == tag[1][1] % 8
             fieldNum == tag[1][1] \div 8 + 16 * tag[1][2]
             cases == {r \in ToSet(Schema[T][3]) : r[1] = fieldNum /\ r[3] \notin hidden}
         IN IF wireType = 4 \/ fieldNum <= 0 THEN Error
    ELSE IF cases = {} THEN LET r == skip(b) IN IF r = Error THEN Error ELSE Unmarshal(T, hidden, r[1], m)
    ELSE LET row == CHOOSE r \in cases : TRUE
             r == IF wireType = 0 THEN readVarint(tag[2]) ELSE readDelimited(tag[2])
             old == m[row[3]]
             sub == IF row[4] = "ptr" /\ old # << >> THEN Unmarshal(row[5], {}, r[1], old[1])
                    ELSE Unmarshal(row[5], {}, r[1], NewMessage(row[5]))
             one == row[4] = "packed" /\ wireType = 0
         IN IF (wireType # row[2] /\ ~one) \/ r = Error THEN Error
    ELSE IF row[4] \in {"ptr", "msgs"} /\ sub = Error THEN Error
    ELSE Unmarshal(T, hidden, r[2], [m EXCEPT ![row[3]] =
           CASE row[4] = "int32"   -> ToInt32(r[1])
             [] row[4] = "word"    -> r[1]
             [] row[4] = "bool"    -> r[1] # Zero64
             [] row[4] = "bytes"   -> r[1]
             [] row[4] = "strings" -> Append(old, r[1])
             [] row[4] = "packed"  -> old \o (IF one THEN <<r[1]>> ELSE unpack(r[1]))
             [] row[4] = "ptr"     -> sub
             [] row[4] = "msgs"    -> old \o sub])

-------------------------------------------------------------------------------
(* The values enumerated: those at which a length or a width changes. *)

Long == [i \in 1..128 |-> 255]

RECURSIVE Values(_)
Values(row) ==
    LET one(T) == {[NewMessage(T) EXCEPT ![r[3]] = CHOOSE v \in Values(r) : v # Zero(r)] : r \in ToSet(Schema[T][3])}
    IN CASE row[4] = "int32"   -> {Zero64, Word(127), Word(128), MinusOne, MinInt32}
         [] row[4] = "word"    -> {Zero64, Word(127), Word(128), MinusOne, MinInt64}
         [] row[4] = "bool"    -> BOOLEAN
         [] row[4] = "bytes"   -> {<< >>, <<0>>, Long}
         [] row[4] = "strings" -> {<< >>, << << >> >>, <<Long, <<7>> >>}
         [] row[4] = "packed"  -> {<< >>, <<Zero64>>, <<Word(128), MinusOne, Zero64>>}
         [] row[4] = "ptr"     -> {<< >>, <<NewMessage(row[5])>>} \cup {<<m>> : m \in one(row[5])}
         [] row[4] = "msgs"    -> {<< >>} \cup {<<NewMessage(row[5]), m>> : m \in one(row[5])}

\* Messages of a type with at most two fields set.
Messages(T) ==
    LET rows == ToSet(Schema[T][3])
        empty == NewMessage(T)
    IN {empty} \cup UNION {UNION {{[empty EXCEPT ![r[3]] = v, ![q[3]] = w] : v \in Values(r), w \in Values(q)}
                                : q \in {x \in rows : x[1] >= r[1]}} : r \in rows}

-------------------------------------------------------------------------------
Init ==
    /\ phase = "idle" /\ type = "" /\ sent = << >> /\ wire = << >> /\ unknown = {} /\ got = << >>

\* Marshal: a buffer of Size bytes, filled from its end; an index below zero panics, and the
\* first n bytes are returned.
Send(T, m) ==
    LET tail == MarshalToSizedBuffer(T, m)
        slack == Size(T, m) - Len(tail)
    IN /\ phase = "idle"
       /\ type' = T /\ sent' = m
       /\ IF slack < 0 THEN phase' = "panic" /\ wire' = << >>
          ELSE /\ phase' = "sent"
               /\ wire' = SubSeq([i \in 1..slack |-> 0] \o tail, 1, Len(tail))
       /\ UNCHANGED <<unknown, got>>

Receive(hidden) ==
    /\ phase = "sent"
    /\ phase' = "received" /\ unknown' = hidden
    /\ got' = Unmarshal(type, hidden, wire, NewMessage(type))
    /\ UNCHANGED <<type, sent, wire>>

\* The handler is done with the message.
Done ==
    /\ phase = "received"
    /\ phase' = "idle" /\ type' = "" /\ sent' = << >> /\ wire' = << >> /\ unknown' = {} /\ got' = << >>

Hidable == {{}} \cup {{f} : f \in DOMAIN sent}

Next ==
    \/ \E T \in DOMAIN Schema : \E m \in Messages(T) : Send(T, m)
    \/ phase = "sent" /\ \E hidden \in Hidable : Receive(hidden)
    \/ Done

Spec == Init /\ [][Next]_vars

-------------------------------------------------------------------------------
(* Size and MarshalToSizedBuffer are generated apart, and Marshal trusts the first for the
   length of the buffer the second fills backwards: a difference either panics on a negative
   index or returns a buffer that starts with zeros and lacks its end. *)
SizeExact == phase # "panic" /\ (phase # "idle" => Size(type, sent) = Len(MarshalToSizedBuffer(type, sent)))

(* What Unmarshal stores is what Marshal was given, at every boundary of the varint and length
   encodings, nested messages and negative numbers included; a receiver that lacks a field
   skips exactly its bytes and gets every other field. *)
RoundTrip ==
    phase = "received" =>
        got = << [f \in DOMAIN sent |-> IF f \in unknown THEN NewMessage(type)[f] ELSE sent[f]] >>
===============================================================================
