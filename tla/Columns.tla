------------------------------ MODULE Columns ------------------------------
(***************************************************************************)
(* The data of a frame and its layout on the wire, as operators: nullable  *)
(* arrays with their bitmap, the four column classes, and serialization.   *)
(*                                                                         *)
(* A serialized object is a sequence of units: a number (a length, an int, *)
(* a double, a character) is one unit, and so is a byte of eight packed    *)
(* booleans.  Reading is from a position pos, the index of the next unit;  *)
(* it gives the value and the position behind it.  Position 0 stands for   *)
(* the end of the process: ShortSerializedDataException, which nobody      *)
(* catches, or the assert in the reader of bitmaps.                        *)
(***************************************************************************)
EXTENDS Integers, Sequences, SequencesExt

CONSTANTS
  Null,       \* std::nullopt
  ByteBits    \* bits of a byte

ASSUME ByteAssumption == ByteBits \in Nat /\ ByteBits > 1

(* Column types: the characters 'I', 'F', 'B' and 'S'. *)
CharI == 73
CharF == 70
CharB == 66
CharS == 83

Types == {CharI, CharF, CharB, CharS}

(* T(), what a missing value of a column leaves in _data. *)
Default(type) == CASE type = CharB -> FALSE
                   [] type = CharS -> <<>>
                   [] OTHER -> 0

----------------------------------------------------------------------------
(* NullableArray: _bitmap and _data, always of the same length. *)

EmptyArray == [bitmap |-> <<>>, data |-> <<>>]

(* The value and the bit that stand for an optional. *)
Datum(type, v) == IF v = Null THEN Default(type) ELSE v
Bit(v) == v # Null

\* Mutant: only an existing value has a bit.
ArrayPushBit(type, a, v) ==
  [bitmap |-> IF v = Null THEN a.bitmap ELSE Append(a.bitmap, TRUE),
   data   |-> Append(a.data, Datum(type, v))]

ArrayPush(type, a, v) ==
  [bitmap |-> Append(a.bitmap, Bit(v)), data |-> Append(a.data, Datum(type, v))]

ArrayGet(a, i) == IF a.bitmap[i] THEN a.data[i] ELSE Null

\* Mutant: a value set to missing keeps its data.
ArraySetBit(type, a, i, v) ==
  [bitmap |-> [a.bitmap EXCEPT ![i] = Bit(v)],
   data   |-> IF v = Null THEN a.data ELSE [a.data EXCEPT ![i] = v]]

ArraySet(type, a, i, v) ==
  [bitmap |-> [a.bitmap EXCEPT ![i] = Bit(v)],
   data   |-> [a.data EXCEPT ![i] = Datum(type, v)]]

----------------------------------------------------------------------------
(* Columns: each class is its type tag and an array that its member        *)
(* functions forward to.                                                   *)

IntColumn    == [type |-> CharI, array |-> EmptyArray]
FloatColumn  == [type |-> CharF, array |-> EmptyArray]
BoolColumn   == [type |-> CharB, array |-> EmptyArray]
StringColumn == [type |-> CharS, array |-> EmptyArray]

(* DataFrame::_get_col_from_type *)
EmptyColumn(type) == CASE type = CharI -> IntColumn
                       [] type = CharF -> FloatColumn
                       [] type = CharB -> BoolColumn
                       [] type = CharS -> StringColumn

Size(col) == Len(col.array.data)
Get(col, i) == ArrayGet(col.array, i)
PushBack(col, v) == [col EXCEPT !.array = ArrayPush(col.type, @, v)]
Set(col, i, v) == [col EXCEPT !.array = ArraySet(col.type, @, i, v)]

(* The optionals in a column, what its users see of it. *)
Cells(col) == [i \in 1..Size(col) |-> Get(col, i)]

----------------------------------------------------------------------------
(* Serialization. *)

(* The value of each bit of a byte. *)
Weight[k \in 0..ByteBits] == IF k = 0 THEN 1 ELSE 2 * Weight[k - 1]

(* A full byte is written when the next bit comes. *)
PackBit(s, b) ==
  LET bit == IF b THEN 1 ELSE 0
  IN  IF s.pos = ByteBits
      THEN [out |-> Append(s.out, s.byte), byte |-> bit, pos |-> 1]
      ELSE [s EXCEPT !.byte = @ + bit * Weight[s.pos], !.pos = @ + 1]

FillBytes(bits) == FoldLeft(PackBit, [out |-> <<Len(bits)>>, byte |-> 0, pos |-> 0], bits)

\* Mutant: the bits of a last byte that is not full are not written.
PackWholeBytes(bits) ==
  LET end == FillBytes(bits)
  IN  IF end.pos = ByteBits THEN Append(end.out, end.byte) ELSE end.out

(* serialize<vector<bool>>: the length, then bytes filled from bit 0 up,   *)
(* the last one written at the end.                                        *)
PackBits(bits) ==
  LET end == FillBytes(bits)
  IN  IF end.pos > 0 THEN Append(end.out, end.byte) ELSE end.out

(* A scalar or a string. *)
PackValue(type, v) == IF type = CharS THEN <<Len(v)>> \o v ELSE <<v>>

(* NullableArray::serialize: the bitmap, then the existing values only,    *)
(* except that booleans are packed with the missing ones among them.       *)
PackArray(type, a) ==
  PackBits(a.bitmap) \o
    IF type = CharB THEN PackBits(a.data)
    ELSE FlattenSeq([i \in DOMAIN a.data |->
                       IF a.bitmap[i] THEN PackValue(type, a.data[i]) ELSE <<>>])

----------------------------------------------------------------------------
(* Deserialization. *)

Failed == [val |-> <<>>, pos |-> 0]

(* deserialize<T> of a number: nothing is read behind the end. *)
ReadNumber(data, pos) ==
  IF pos \in DOMAIN data THEN [val |-> data[pos], pos |-> pos + 1] ELSE Failed

(* Values read one behind the other, each by its reader: a function that   *)
(* gives what it reads from a position.                                    *)
ReadNext(r, reader) ==
  LET x == reader[r.pos] IN [val |-> Append(r.val, x.val), pos |-> x.pos]

ReadMany(readers, pos) == FoldLeft(ReadNext, [val |-> <<>>, pos |-> pos], readers)

(* deserialize<string> *)
ReadString(data, pos) ==
  LET len == ReadNumber(data, pos)
  IN  IF len.pos = 0 THEN Failed
      ELSE ReadMany([i \in 1..len.val |-> [p \in Nat |-> ReadNumber(data, p)]], len.pos)

ReadValue(type, data, pos) ==
  IF type = CharS THEN ReadString(data, pos) ELSE ReadNumber(data, pos)

(* deserialize<vector<bool>>: as many bytes as the length calls for. *)
ReadBits(data, pos) ==
  LET len == ReadNumber(data, pos)
      last == len.pos + (len.val + ByteBits - 1) \div ByteBits
      bit(i) == (data[len.pos + (i - 1) \div ByteBits] \div Weight[(i - 1) % ByteBits]) % 2
  IN  IF len.pos = 0 THEN Failed
      ELSE IF last - 1 > Len(data) THEN Failed
      ELSE [val |-> [i \in 1..len.val |-> bit(i) = 1], pos |-> last]

(* NullableArray::deserialize *)
ReadArray(type, data, pos) ==
  LET bitmap == ReadBits(data, pos)
      reader(bit) == [p \in Nat |-> IF bit THEN ReadValue(type, data, p)
                                    ELSE [val |-> Default(type), pos |-> p]]
      array == IF bitmap.pos = 0 THEN Failed
               ELSE IF type = CharB THEN ReadBits(data, bitmap.pos)
               ELSE ReadMany([i \in DOMAIN bitmap.val |-> reader(bitmap.val[i])], bitmap.pos)
  IN  [val |-> [bitmap |-> bitmap.val, data |-> array.val], pos |-> array.pos]

(* deserialize<IntColumn> and its three likes: the array's optionals are   *)
(* pushed into a fresh column one by one.                                  *)
Refilled(type, a) ==
  FoldLeft(PushBack, EmptyColumn(type), [i \in DOMAIN a.data |-> ArrayGet(a, i)])

ReadColumn(type, data, pos) ==
  LET a == ReadArray(type, data, pos)
  IN  [val |-> IF a.pos = 0 THEN EmptyColumn(type) ELSE Refilled(type, a.val), pos |-> a.pos]

=============================================================================
