---------------------------- MODULE ParallelMap ----------------------------
(***************************************************************************)
(* DataFrame::pmap over the frame that DataFrames has built and sent: the  *)
(* rows are dealt out to threads, each with a clone of the rower, and the  *)
(* clones are joined at the end.                                           *)
(*                                                                         *)
(* The rowers are those of the applications.  "sum" (Demo::SumRower) and   *)
(* "count" (WordCount::CounterRower) keep results of their own.  "set"     *)
(* (IntSetGenerator) and the three filters of Linus share one set or one   *)
(* generated frame, and its mutex, with their clones; "projects", "uuids"  *)
(* and "names" are UUIDsToProjectsFilter, ProjectsToUUIDsFilter and        *)
(* UUIDsToNamesFilter.  "print" stands for a rower that does not clone.    *)
(*                                                                         *)
(* Sums are exact here; doubles are not, and depend on the order.          *)
(***************************************************************************)
EXTENDS DataFrames, FiniteSets

CONSTANTS
  ThreadRows,   \* THREAD_ROWS
  MaxThreads,   \* MAX_THREADS
  Rowers,       \* rowers to map with
  Lookups       \* sets of ints that filters may be constructed with

ASSUME MapAssumption ==
  /\ ThreadRows \in Nat \ {0}
  /\ MaxThreads \in Nat \ {0, 1}
  /\ Rowers \subseteq {"sum", "count", "set", "projects", "uuids", "names", "print"}

VARIABLES
  rower,     \* the kind of the rower given to pmap, or "none"
  lookup,    \* the _set of a filter
  clones,    \* threads whose clone of the rower exists; thread 0 has the rower
  next,      \* the next row of each thread
  end,       \* its row_end
  todo,      \* values of the row in hand that are still to be added
  result,    \* _sum and _word_map of the rower of each thread
  gen,       \* what the clones share: the _set of an IntSetGenerator, the
             \* _gen_df of a filter
  holder,    \* the thread that holds the mutex, as a set
  seen,      \* gen as this thread found it
  visits     \* history: how often each row was accepted

mapVars == <<rower, lookup, clones, next, end, todo, result, gen, holder, seen, visits>>
vars == <<frameVars, mapVars>>

Thread == 0..(MaxThreads - 1)

NoGen == [set |-> {}, df |-> Frame(<<>>)]
Blank == [sum |-> 0, words |-> [w \in Values[CharS] |-> 0]]

MapInit ==
  /\ rower = "none" /\ lookup = {} /\ clones = {}
  /\ next = [t \in Thread |-> 1] /\ end = [t \in Thread |-> 0]
  /\ todo = [t \in Thread |-> <<>>]
  /\ result = [t \in Thread |-> Blank]
  /\ gen = NoGen /\ holder = {} /\ seen = [t \in Thread |-> NoGen]
  /\ visits = <<>>

Init == FrameInit /\ MapInit

----------------------------------------------------------------------------
(* The rowers. *)

(* What a rower is applied to: frames of these schemas, and for those that *)
(* use ints or names without a look at the optional, without missing cells.*)
Suits(r, f) ==
  LET whole == \A i \in 1..NRows(f), c \in DOMAIN f.types : Row(f, i)[c] # Null
  IN  CASE r = "sum"   -> f.types = <<CharF>>
        [] r = "count" -> f.types = <<CharS>>
        [] r = "set"   -> f.types = <<CharI>> /\ whole
        [] r = "names" -> f.types = <<CharI, CharS>> /\ whole
        [] r \in {"projects", "uuids"} -> f.types = <<CharI, CharI, CharI>> /\ whole
        [] r = "print" -> f.types = <<CharB>>

(* SumRower::accept and CounterRower::accept, field by field. *)
TallyField(res, field) ==
  IF field.val = Null THEN res
  ELSE IF field.type = CharF THEN [res EXCEPT !.sum = @ + field.val]
  ELSE IF field.type = CharS THEN [res EXCEPT !.words[field.val] = @ + 1]
  ELSE res

Tallied(row, types, res) ==
  FoldLeft(TallyField, res, [c \in DOMAIN types |-> [type |-> types[c], val |-> row[c]]])

(* SumRower::join and CounterRower::join. *)
Joined(res, other) ==
  [sum   |-> res.sum + other.sum,
   words |-> [w \in DOMAIN res.words |-> res.words[w] + other.words[w]]]

(* What the accept of the sharing rowers adds, one value per lock. *)
Additions(r, s, row) ==
  CASE r = "set"      -> row
    [] r = "projects" -> IF row[2] \in s \/ row[3] \in s THEN <<row[1]>> ELSE <<>>
    [] r = "uuids"    -> IF row[1] \in s THEN <<row[2], row[3]>> ELSE <<>>
    [] r = "names"    -> IF row[1] \in s THEN <<row[2]>> ELSE <<>>
    [] OTHER          -> <<>>

(* What a new one has to add to. *)
NewGen(r) == [NoGen EXCEPT !.df = Frame(IF r = "names" THEN <<CharS>> ELSE <<CharI>>)]

Inserted(r, g, v) == IF r = "set" THEN [g EXCEPT !.set = @ \cup {v}]
                     ELSE [g EXCEPT !.df = AddRow(@, <<v>>)]

----------------------------------------------------------------------------
(* pmap. *)

\* Mutant: row_end of the last thread is that of any other.
RangesUneven(rows, n, step) ==
  [t \in Thread |-> [first |-> IF t < n THEN t * step + 1 ELSE 1,
                     end   |-> CASE t >= n -> 0
                                 [] (t + 1) * step < rows -> (t + 1) * step
                                 [] OTHER -> rows]]

(* The rows of each thread; the last one takes what is left over. *)
Ranges(rows, n, step) ==
  [t \in Thread |-> [first |-> IF t < n THEN t * step + 1 ELSE 1,
                     end   |-> CASE t < n - 1 -> (t + 1) * step
                                 [] t = n - 1 -> rows
                                 [] OTHER     -> 0]]

(* With rows for one thread only, map is called and nothing is cloned.  A  *)
(* clone that fails is met by the assert of line 285 at the first clone,   *)
(* before line 280 looks at the second.                                    *)
Start(r, s) ==
  /\ phase = "read" /\ Suits(r, copy)
  /\ rower' = r /\ lookup' = s /\ gen' = NewGen(r)
  /\ LET rows   == NRows(copy)
         wanted == rows \div ThreadRows
         n      == IF wanted <= 1 THEN 1
                   ELSE IF wanted > MaxThreads THEN MaxThreads ELSE wanted
         step   == IF wanted > MaxThreads THEN rows \div n ELSE ThreadRows
         ranges == Ranges(rows, n, step)
     IN  /\ phase' = IF r = "print" /\ n > 1 THEN "aborted" ELSE "mapping"
         /\ clones' = IF r = "print" THEN {} ELSE 1..(n - 1)
         /\ next' = [t \in Thread |-> ranges[t].first]
         /\ end' = [t \in Thread |-> ranges[t].end]
         /\ visits' = [i \in 1..rows |-> 0]
  /\ UNCHANGED <<column, frame, copy, todo, result, holder, seen>>

(* A turn of _pmap_helper up to what the rower shares.                     *)
Accept(t) ==
  /\ phase = "mapping"
  /\ next[t] <= end[t] /\ todo[t] = <<>>
  /\ LET row == Row(copy, next[t])
     IN  /\ result' = [result EXCEPT ![t] = Tallied(row, copy.types, @)]
         /\ todo' = [todo EXCEPT ![t] = Additions(rower, lookup, row)]
  /\ visits' = [visits EXCEPT ![next[t]] = @ + 1]
  /\ next' = [next EXCEPT ![t] = @ + 1]
  /\ UNCHANGED <<frameVars, rower, lookup, clones, end, gen, holder, seen>>

\* Mutant: no lock_guard.
LockNothing(t) ==
  /\ todo[t] # <<>> /\ t \notin holder
  /\ holder' = holder \cup {t}
  /\ seen' = [seen EXCEPT ![t] = gen]
  /\ UNCHANGED <<frameVars, rower, lookup, clones, next, end, todo, result, gen, visits>>

(* The lock_guard of IntSetGenerator::accept or _add_to_df. *)
Lock(t) ==
  /\ todo[t] # <<>> /\ holder = {}
  /\ holder' = {t}
  /\ seen' = [seen EXCEPT ![t] = gen]
  /\ UNCHANGED <<frameVars, rower, lookup, clones, next, end, todo, result, gen, visits>>

\* Mutant: the mutex is not released.
AddLocked(t) ==
  /\ t \in holder /\ todo[t] # <<>>
  /\ gen' = Inserted(rower, seen[t], Head(todo[t]))
  /\ todo' = [todo EXCEPT ![t] = Tail(@)]
  /\ seen' = [seen EXCEPT ![t] = NoGen]
  /\ UNCHANGED <<frameVars, rower, lookup, clones, next, end, result, holder, visits>>

(* The insert or add_row under the mutex, to what was found there.         *)
Add(t) ==
  /\ t \in holder
  /\ gen' = Inserted(rower, seen[t], Head(todo[t]))
  /\ todo' = [todo EXCEPT ![t] = Tail(@)]
  /\ holder' = holder \ {t}
  /\ seen' = [seen EXCEPT ![t] = NoGen]
  /\ UNCHANGED <<frameVars, rower, lookup, clones, next, end, result, visits>>

(* All threads are joined, the clones are joined in order and destroyed    *)
(* with the vector that holds them.                                        *)
Merge ==
  /\ phase = "mapping"
  /\ \A t \in Thread : next[t] > end[t] /\ todo[t] = <<>>
  /\ result' = [result EXCEPT ![0] =
       FoldLeft(Joined, @, [i \in 1..Cardinality(clones) |-> result[i]])]
  /\ clones' = {}
  /\ phase' = "merged"
  /\ UNCHANGED <<column, frame, copy, rower, lookup, next, end, todo, gen, holder,
                 seen, visits>>

(* finish_set, finish_filter: the caller must have the only reference left.*)
Finish ==
  /\ phase = "merged"
  /\ phase' = IF rower \in {"set", "projects", "uuids", "names"} /\ clones # {}
              THEN "aborted" ELSE "done"
  /\ UNCHANGED <<column, frame, copy, mapVars>>

Turn(t) == Accept(t) \/ Lock(t) \/ Add(t)

Next ==
  \/ Build /\ UNCHANGED mapVars
  \/ \E r \in Rowers, s \in Lookups : Start(r, s)
  \/ \E t \in Thread : Turn(t)
  \/ Merge
  \/ Finish

Spec == Init /\ [][Next]_vars
FairSpec ==
  /\ Spec
  /\ \A t \in Thread : WF_vars(Accept(t)) /\ SF_vars(Lock(t)) /\ WF_vars(Add(t))
  /\ WF_vars(Merge) /\ WF_vars(Finish)

----------------------------------------------------------------------------
(* Properties. *)

TypeOK ==
  /\ phase \in {"new", "rows", "columns", "stored", "read", "mapping", "merged",
                "done", "aborted"}
  /\ frame.types \in Seq(Types)
  /\ \A c \in DOMAIN frame.columns :
       LET col == frame.columns[c]
       IN  /\ col.type = frame.types[c]
           /\ Len(col.array.bitmap) = Len(col.array.data)
           /\ \A i \in 1..Size(col) : Get(col, i) \in Optional(col.type)
  /\ phase = "read" => NRows(copy) \in 0..MaxRows
  /\ rower \in Rowers \cup {"none"}
  /\ clones \subseteq Thread \ {0}
  /\ next \in [Thread -> 1..(MaxRows + 1)] /\ end \in [Thread -> 0..MaxRows]
  /\ holder \subseteq Thread
  /\ \A t \in Thread : result[t].sum \in Int

(* Whatever the number of rows, of threads and of rows per thread, every   *)
(* row is accepted once (dataframe.cpp:294-304).                           *)
EachRowOnce ==
  \A i \in DOMAIN visits :
    IF phase = "merged" THEN visits[i] = 1 ELSE visits[i] <= 1

(* The result of pmap is that of map: the sum and the counts of all cells, *)
(* the set of all ints, and for the filters what they select from the rows *)
(* one by one, in some order, whoever adds between the two locks of        *)
(* ProjectsToUUIDsFilter::accept.  The use_count asserts of finish_set and *)
(* finish_filter hold: what aborts is only the rower that does not clone.  *)
Occurrences(v, s) == Cardinality({i \in DOMAIN s : s[i] = v})
AddCell(sum, v) == IF v = Null THEN sum ELSE sum + v

MergedAsMapped ==
  /\ phase = "aborted" => rower = "print"
  /\ phase = "done" =>
    LET rows  == [i \in 1..NRows(copy) |-> Row(copy, i)]
        cells == FlattenSeq(rows)
        added == FlattenSeq([i \in DOMAIN rows |-> Additions(rower, lookup, rows[i])])
        found == Contents(gen.df)[1]
    IN  CASE rower = "sum"   ->
                result[0].sum = FoldLeft(AddCell, 0, cells)
          [] rower = "count" ->
                \A w \in Values[CharS] : result[0].words[w] = Occurrences(w, cells)
          [] rower = "set"   -> gen.set = ToSet(cells)
          [] rower = "print" -> TRUE
          [] OTHER -> /\ Len(found) = Len(added)
                      /\ \A v \in ToSet(added) : Occurrences(v, found) = Occurrences(v, added)

(* A map that was started ends: nobody waits for the mutex for ever.       *)
MapReturns == phase = "mapping" ~> phase \in {"done", "aborted"}

=============================================================================
