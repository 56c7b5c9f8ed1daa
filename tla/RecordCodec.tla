----------------------------- MODULE RecordCodec -----------------------------
(***************************************************************************)
(* Values and records: common/value.hpp, storage/record.cpp, and the       *)
(* coercion of literals to column types in executor/executor.cpp.          *)
(*                                                                         *)
(* A value is its C++ type and what it holds; numbers stay below 2^53, so  *)
(* a double holds them exactly.  A byte is a pair: byte i of what is       *)
(* written there.                                                          *)
(***************************************************************************)
EXTENDS Integers, Sequences, SequencesExt

CONSTANTS Schema,     \* sequence of columns: name, type, nullable, max
          Int32Max    \* scaled down

ASSUME SchemaAssumption == Len(Schema) <= 8

NullValue == <<"null", 0>>
Error == <<"error", 0>>
IsNull(v) == v[1] = "null"

TypeOf(column_type) ==
  CASE column_type = "INT" -> "int32" [] column_type = "BIGINT" -> "int64"
    [] column_type = "DOUBLE" -> "double" [] column_type = "BOOLEAN" -> "bool"
    [] column_type = "VARCHAR" -> "string"

ValueMatchesType(v, column_type) == IsNull(v) \/ v[1] = TypeOf(column_type)

CoerceLiteralToColumnType(v, col) ==
  CASE IsNull(v) -> IF col.nullable THEN v ELSE Error
    [] col.type = "INT" /\ v[1] = "int64" -> IF v[2] <= Int32Max THEN <<"int32", v[2]>> ELSE Error
    [] col.type = "DOUBLE" /\ v[1] = "int64" -> <<"double", v[2]>>
    [] ~IsNull(v) /\ col.type # "INT" /\ v[1] = TypeOf(col.type) -> v
    [] OTHER -> Error

\* WriteFixed: width bytes, from which ReadFixed gets the value back.
Fixed(v, width) == [i \in 1 .. width |-> <<v, i>>]

Width(column_type) ==
  CASE column_type = "INT" -> 4 [] column_type = "BOOLEAN" -> 1
    [] column_type \in {"BIGINT", "DOUBLE"} -> 8 [] column_type = "VARCHAR" -> 2

\* One byte of null bits: Schema has at most eight columns.
NullBitmapBytes == 1
Bitmap(values) == Fixed({i \in 1 .. Len(Schema) : IsNull(values[i])}, NullBitmapBytes)

\* Mutant: NULL takes the room of a value.
EncodeFieldPadded(v, col) ==
  IF col.type = "VARCHAR" /\ ~IsNull(v)
  THEN Fixed(Len(v[2]), Width(col.type)) \o [i \in 1 .. Len(v[2]) |-> <<v[2][i], 1>>]
  ELSE Fixed(v[2], Width(col.type))

EncodeField(v, col) ==
  IF IsNull(v) THEN <<>>
  ELSE IF col.type = "VARCHAR" THEN Fixed(Len(v[2]), Width(col.type)) \o [i \in 1 .. Len(v[2]) |-> <<v[2][i], 1>>]
  ELSE Fixed(v[2], Width(col.type))

Encodable(v, col) ==
  /\ ValueMatchesType(v, col.type)
  /\ IsNull(v) => col.nullable
  /\ v[1] = "string" => Len(v[2]) <= col.max

\* Encode: an empty sequence is the error.
Encode(values) ==
  IF Len(values) # Len(Schema) \/ \E i \in 1 .. Len(Schema) : ~Encodable(values[i], Schema[i]) THEN <<>>
  ELSE FoldLeftDomain(LAMBDA bytes, i : bytes \o EncodeField(values[i], Schema[i]), Bitmap(values), values)

FieldFits(bytes, cursor, n) == cursor + n <= Len(bytes)

\* One turn of Decode's loop on what it has read so far.
DecodeField(read, bytes, nulls, i) ==
  LET col == Schema[i]
      w == Width(col.type)
      at == read.cursor
  IN  IF read.bad THEN read
      ELSE IF i \in nulls THEN [read EXCEPT !.values = Append(@, NullValue)]
      ELSE IF ~FieldFits(bytes, at, w) THEN [read EXCEPT !.bad = TRUE]
      ELSE LET first == bytes[at + 1][1]
           IN  IF col.type # "VARCHAR"
               THEN [read EXCEPT !.values = Append(@, <<TypeOf(col.type), first>>), !.cursor = at + w]
               ELSE IF ~FieldFits(bytes, at + w, first) THEN [read EXCEPT !.bad = TRUE]
               ELSE [read EXCEPT !.values = Append(@, <<"string", [k \in 1 .. first |-> bytes[at + w + k][1]]>>),
                                 !.cursor = at + w + first]

Decode(bytes) ==
  IF Len(bytes) < NullBitmapBytes THEN [bad |-> TRUE, values |-> <<>>, cursor |-> 0]
  ELSE FoldLeftDomain(LAMBDA read, i : DecodeField(read, bytes, bytes[1][1], i),
                      [bad |-> FALSE, values |-> <<>>, cursor |-> NullBitmapBytes], Schema)
=============================================================================
