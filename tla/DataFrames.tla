----------------------------- MODULE DataFrames -----------------------------
(***************************************************************************)
(* A data frame from its construction to its copy on another node.         *)
(*                                                                         *)
(* It is built either row by row by SorerDataframeAdapter::parse_file, or  *)
(* by add_column from a column filled before, which is what from_array,    *)
(* from_scalar and WordCount do.  Once it is stored it does not change;    *)
(* another node gets it serialized.                                        *)
(*                                                                         *)
(* Names of rows and columns are left out: nothing stores a row name, and  *)
(* serialization drops both.                                               *)
(***************************************************************************)
EXTENDS Columns

CONSTANTS
  Schemas,    \* sequences of types that frames are built with
  Values,     \* values of a cell, by type
  MaxRows,    \* bound: rows of a frame
  MaxCells    \* bound: its cells

Optional(type) == Values[type] \cup {Null}

ASSUME FrameAssumption ==
  /\ Schemas \subseteq Seq(Types)
  /\ Values[CharI] \subseteq Int /\ Values[CharF] \subseteq Int
  /\ Values[CharB] \subseteq BOOLEAN /\ Values[CharS] \subseteq Seq(Nat)
  /\ \A type \in Types : Null \notin Values[type]
  /\ MaxRows \in Nat /\ MaxCells \in Nat

VARIABLES
  phase,    \* "new", "rows", "columns", "stored", "read"; ParallelMap adds
            \* "mapping", "merged", "done", "aborted"
  column,   \* the column that is being filled, or None
  frame,    \* the DataFrame
  copy      \* what the reading node has deserialized, or None

frameVars == <<phase, column, frame, copy>>

None == [type |-> 0]

----------------------------------------------------------------------------
(* DataFrame. *)

(* DataFrame(Schema) *)
Frame(types) == [types |-> types, columns |-> [c \in DOMAIN types |-> EmptyColumn(types[c])]]

NRows(f) == IF f.columns = <<>> THEN 0 ELSE Size(f.columns[1])

(* DataFrame::add_column *)
WithColumn(f, col) ==
  [types |-> Append(f.types, col.type), columns |-> Append(f.columns, col)]

(* DataFrame::add_row, which pushes a value onto each column. *)
AddRow(f, row) ==
  [f EXCEPT !.columns = [c \in DOMAIN @ |-> PushBack(@[c], row[c])]]

(* DataFrame::fill_row *)
Row(f, i) == [c \in DOMAIN f.columns |-> Get(f.columns[c], i)]

Contents(f) == [c \in DOMAIN f.columns |-> Cells(f.columns[c])]

(* Schema::serialize *)
PackSchema(types) == <<Len(types)>> \o types

(* DataFrame::serialize *)
Pack(f) ==
  PackSchema(f.types) \o <<Len(f.columns)>> \o
    FlattenSeq([c \in DOMAIN f.columns |->
                  PackArray(f.columns[c].type, f.columns[c].array)])

Assembled(cols) == FoldLeft(WithColumn, Frame(<<>>), cols)

(* deserialize<DataFrame> from position pos: the schema, the number of     *)
(* columns, which must agree with it, and the columns.                     *)
Read(data, pos) ==
  LET types == ReadString(data, pos)
      width == ReadNumber(data, types.pos)
      cols  == IF width.pos = 0 \/ width.val # Len(types.val) THEN Failed
               ELSE ReadMany([c \in DOMAIN types.val |->
                                [p \in Nat |-> ReadColumn(types.val[c], data, p)]], width.pos)
  IN  [val |-> IF cols.pos = 0 THEN None ELSE Assembled(cols.val), pos |-> cols.pos]

----------------------------------------------------------------------------

FrameInit ==
  /\ phase = "new"
  /\ column = None
  /\ frame = Frame(<<>>)
  /\ copy = None

(* The rows that go with a schema. *)
Longer(rows, type) == {Append(row, v) : row \in rows, v \in Optional(type)}
Rows(types) == FoldLeft(Longer, {<<>>}, types)

Fits(rows, width) == rows <= MaxRows /\ rows * width <= MaxCells

(* parse_file: an empty frame with the schema of the file. *)
InitializeSchema(types) ==
  /\ phase = "new"
  /\ frame' = Frame(types)
  /\ phase' = "rows"
  /\ UNCHANGED <<column, copy>>

(* A row of the file.  The loop ends with the file, or at a field that     *)
(* does not convert: both are exceptions, and what was read is stored.     *)
ParseRow(row) ==
  /\ phase = "rows"
  /\ Fits(NRows(frame) + 1, Len(frame.types))
  /\ frame' = AddRow(frame, row)
  /\ UNCHANGED <<phase, column, copy>>

(* A column for the next type of a schema, and its values. *)
NewColumn(type) ==
  /\ phase \in {"new", "columns"} /\ column = None
  /\ column' = EmptyColumn(type)
  /\ phase' = "columns"
  /\ UNCHANGED <<frame, copy>>

FillColumn(v) ==
  /\ phase = "columns" /\ column # None
  /\ Fits(Size(column) + 1, Len(frame.columns) + 1)
  /\ column' = PushBack(column, v)
  /\ UNCHANGED <<phase, frame, copy>>

(* The columns of a frame have equal lengths. *)
AddColumn ==
  /\ phase = "columns" /\ column # None
  /\ frame.columns = <<>> \/ Size(column) = NRows(frame)
  /\ frame' = WithColumn(frame, column)
  /\ column' = None
  /\ UNCHANGED <<phase, copy>>

(* DataFrame::set *)
SetCell(c, r, v) ==
  /\ phase \in {"rows", "columns"}
  /\ frame' = [frame EXCEPT !.columns[c] = Set(@, r, v)]
  /\ UNCHANGED <<phase, column, copy>>

(* KVStore::set, and a read by another node, which deserializes what the   *)
(* owner has serialized.                                                   *)
Store ==
  /\ phase \in {"rows", "columns"} /\ column = None
  /\ phase' = "stored"
  /\ UNCHANGED <<column, frame, copy>>

ReadRemotely ==
  /\ phase = "stored"
  /\ copy' = Read(Pack(frame), 1).val
  /\ phase' = "read"
  /\ UNCHANGED <<column, frame>>

Build ==
  \/ \E types \in Schemas : InitializeSchema(types)
  \/ \E row \in Rows(frame.types) : ParseRow(row)
  \/ \E type \in {types[Len(frame.types) + 1] :
                    types \in {s \in Schemas : IsStrictPrefix(frame.types, s)}} :
       NewColumn(type)
  \/ column # None /\ \E v \in Optional(column.type) : FillColumn(v)
  \/ AddColumn
  \/ \E c \in DOMAIN frame.columns : \E r \in 1..NRows(frame) :
       \E v \in Optional(frame.types[c]) : SetCell(c, r, v)
  \/ Store
  \/ ReadRemotely

----------------------------------------------------------------------------
(* Properties. *)

(* What is read is the frame, down to the data behind missing values,      *)
(* which Column::equals and hash read too: no bit is lost around the end   *)
(* of a byte (serializable.h:91-132), and set, push_back and deserialize   *)
(* agree on what is missing.  The reader stops where the frame ends and    *)
(* begins anywhere: in a response the frame stands behind its key.         *)
RoundTrip ==
  phase = "stored" =>
    LET data == Pack(frame)
    IN  \A junk \in {<<>>, <<0>>, <<1, 1>>} :
          Read(<<1>> \o data \o junk, 2) = [val |-> frame, pos |-> Len(data) + 2]

(* To its users a frame is a table. *)
ATable == INSTANCE Table WITH
  NoTable <- Null,
  table   <- Contents(frame),
  copy    <- IF copy = None THEN Null ELSE Contents(copy)
ImplementsTable == ATable!Spec

=============================================================================
