------------------------------- MODULE Table -------------------------------
(***************************************************************************)
(* What a data frame is to its users: columns of optional values that grow *)
(* by a row or by a column, cells that change, and a copy on another node  *)
(* that has what the original had when it was stored.                      *)
(***************************************************************************)
EXTENDS Naturals, Sequences, SequencesExt

CONSTANT NoTable

VARIABLES
  table,    \* a sequence of columns, each a sequence of optional values
  copy      \* the table that another node reads, or NoTable

Init == table = <<>> /\ copy = NoTable

(* Columns without rows, one for each type of a schema. *)
NewTable ==
  /\ table = <<>>
  /\ \A c \in DOMAIN table' : table'[c] = <<>>
  /\ UNCHANGED copy

AddColumn ==
  /\ Len(table') = Len(table) + 1 /\ IsPrefix(table, table')
  /\ UNCHANGED copy

AddRow ==
  /\ DOMAIN table' = DOMAIN table
  /\ \A c \in DOMAIN table :
       Len(table'[c]) = Len(table[c]) + 1 /\ IsPrefix(table[c], table'[c])
  /\ UNCHANGED copy

SetCell ==
  /\ \E c \in DOMAIN table : \E r \in DOMAIN table[c] :
       table' = [table EXCEPT ![c][r] = table'[c][r]]
  /\ UNCHANGED copy

Read == copy' = table /\ UNCHANGED table

Next == NewTable \/ AddColumn \/ AddRow \/ SetCell \/ Read

Spec == Init /\ [][copy = NoTable /\ Next]_<<table, copy>>

=============================================================================
