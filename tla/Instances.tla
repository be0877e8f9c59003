----------------------------- MODULE Instances -----------------------------
(***************************************************************************)
(* The slice behind Controller.RecentInstances (protocol/v2/qbft/controller *)
(* /types.go): addNewInstance computed on indices, as the code does, next  *)
(* to the set of entries that Controller works with.                       *)
(***************************************************************************)
EXTENDS Controller, Sequences

\* The remembered entries as the slice holds them, highest first.
Rank(entries, e) == Cardinality({o \in entries : o.height >= e.height})
Slice(entries) ==
  [n \in 1 .. Cardinality(entries) |-> CHOOSE e \in entries : Rank(entries, e) = n]

\* The first index whose instance is lower, behind the last if there is none.
IndexToInsert(slice, i) ==
  LET lower == {n \in 1 .. Len(slice) : slice[n].height < i.height}
  IN  IF lower = {} THEN Len(slice) + 1
      ELSE CHOOSE n \in lower : \A m \in lower : n =< m

\* The first len entries after those from index on have moved by one.
Shifted(slice, index, i, len) ==
  [n \in 1 .. len |-> IF n < index THEN slice[n]
                      ELSE IF n = index THEN i ELSE slice[n - 1]]

\* Mutant: a full slice grows by an instance lower than all of it.
AddNewInstanceUnbounded(slice, i) ==
  LET index == IndexToInsert(slice, i)
  IN  IF index > Len(slice) THEN Append(slice, i)
      ELSE Shifted(slice, index, i, IF Len(slice) = Capacity THEN Capacity ELSE Len(slice) + 1)

\* addNewInstance: append if there is room, or shift and insert, the last
\* entry falling off a full slice.
AddNewInstance(slice, i) ==
  LET index == IndexToInsert(slice, i)
  IN  IF index > Len(slice)
      THEN IF Len(slice) < Capacity THEN Append(slice, i) ELSE slice
      ELSE Shifted(slice, index, i, IF Len(slice) = Capacity THEN Capacity ELSE Len(slice) + 1)

\* Whatever is remembered, addNewInstance leaves the slice in descending
\* order, within its capacity, and with the entries Added says.
SliceKeepsHighest ==
  \A h \in Heights :
    ~Known(h) =>
      LET slice == AddNewInstance(Slice(recent), OwnEntry(h))
      IN  /\ slice = Slice(Added(recent, OwnEntry(h)))
          /\ Len(slice) =< Capacity

=============================================================================
