----------------------------- MODULE PleatPlan -----------------------------
(***************************************************************************)
(* The counting sort behind pleated construction (src/src/lib.rs,          *)
(* PleatPlan::pleat_into): count the keys of every window, turn the counts *)
(* into offsets, and move each key to its window's cursor, into a buffer   *)
(* the caller owns and the seed-retry builder uses again and again.        *)
(*                                                                         *)
(* One step is one turn of a loop.  Positions of `out` count from 1 here,  *)
(* offsets in `counts` and `cursor` from 0, as in the code.                *)
(***************************************************************************)
EXTENDS WindowOrder, FiniteSets

CONSTANTS
  Keys,         \* the 64-bit keys
  Inputs,       \* the key slices that are pleated
  NumStarts,    \* num_starts
  WindowSizes  \* the window sizes, 1 << shift

ASSUME InputsAssumption == Inputs \subseteq Seq(Keys)
ASSUME NumStartsAssumption == NumStarts \in Nat \ {0}
ASSUME WindowSizesAssumption == WindowSizes \subseteq Nat \ {0}

VARIABLES
  keys,    \* the slice
  start,   \* start_of
  window,  \* the plan's window size; `x >> shift` divides by it
  pc,      \* the loop under way
  i,       \* the key (or, for the offsets, the window) it visits next
  counts,  \* per window, offset by one: counts, then offsets
  cursor,  \* where the next key of each window goes
  out      \* the buffer

vars == <<keys, start, window, pc, i, counts, cursor, out>>

WindowOf(k) == start[k] \div window

(* A slip: the windows are counted without the spare one. *)
NumWindowsTight == NumStarts \div window

NumWindows == NumStarts \div window + 2

Windows == 0 .. NumWindows - 1

(* The buffer holds anything: zeros at first, and from the second seed on  *)
(* the keys in the order that the seed before put them in.                 *)
Init ==
  /\ keys \in Inputs
  /\ start \in [Range(keys) -> 0 .. NumStarts - 1]
  /\ window \in WindowSizes
  /\ pc = "count"
  /\ i = 1
  /\ counts = [w \in 0 .. NumWindows |-> 0]
  /\ cursor = <<>>
  /\ out \in [1 .. Len(keys) -> Keys]

CountKey ==
  /\ pc = "count"
  /\ i <= Len(keys)
  /\ counts' = [counts EXCEPT ![WindowOf(keys[i]) + 1] = @ + 1]
  /\ i' = i + 1
  /\ UNCHANGED <<keys, start, window, pc, cursor, out>>

StartOffsets ==
  /\ pc = "count"
  /\ i > Len(keys)
  /\ pc' = "offsets"
  /\ i' = 1
  /\ UNCHANGED <<keys, start, window, counts, cursor, out>>

AddOffset ==
  /\ pc = "offsets"
  /\ i <= NumWindows
  /\ counts' = [counts EXCEPT ![i] = @ + counts[i - 1]]
  /\ i' = i + 1
  /\ UNCHANGED <<keys, start, window, pc, cursor, out>>

(* A slip: the cursors start at the ends of the runs. *)
StartMovesAtEnds ==
  /\ pc = "offsets"
  /\ i > NumWindows
  /\ cursor' = [w \in Windows |-> counts[w + 1]]
  /\ pc' = "move"
  /\ i' = 1
  /\ UNCHANGED <<keys, start, window, counts, out>>

StartMoves ==
  /\ pc = "offsets"
  /\ i > NumWindows
  /\ cursor' = [w \in Windows |-> counts[w]]
  /\ pc' = "move"
  /\ i' = 1
  /\ UNCHANGED <<keys, start, window, counts, out>>

(* A slip: the cursor stays where it is. *)
MoveKeyInPlace ==
  /\ pc = "move"
  /\ i <= Len(keys)
  /\ out' = [out EXCEPT ![cursor[WindowOf(keys[i])] + 1] = keys[i]]
  /\ i' = i + 1
  /\ UNCHANGED <<keys, start, window, pc, counts, cursor>>

MoveKey ==
  /\ pc = "move"
  /\ i <= Len(keys)
  /\ LET w == WindowOf(keys[i])
     IN  /\ out' = [out EXCEPT ![cursor[w] + 1] = keys[i]]
         /\ cursor' = [cursor EXCEPT ![w] = @ + 1]
  /\ i' = i + 1
  /\ UNCHANGED <<keys, start, window, pc, counts>>

Return ==
  /\ pc = "move"
  /\ i > Len(keys)
  /\ pc' = "done"
  /\ UNCHANGED <<keys, start, window, i, counts, cursor, out>>

Next ==
  \/ CountKey \/ StartOffsets
  \/ AddOffset \/ StartMoves
  \/ MoveKey \/ Return

Spec == Init /\ [][Next]_vars
-----------------------------------------------------------------------------
(* How many of the first m keys lie in window w *)
Seen(m, w) == Cardinality({a \in 1 .. m : WindowOf(keys[a]) = w})

(* Types.  The indices of `counts` that the two passes use stay inside it, *)
(* and every key has a cell and a cursor, for windows of any size.         *)
PleatTypeOK ==
  /\ \A k \in Range(keys) : WindowOf(k) \in Windows
  /\ keys \in Inputs
  /\ start \in [Range(keys) -> 0 .. NumStarts - 1]
  /\ window \in WindowSizes
  /\ pc \in {"count", "offsets", "move", "done"}
  /\ i \in Nat \ {0}
  /\ counts \in [0 .. NumWindows -> 0 .. Len(keys)]
  /\ pc \in {"move", "done"} => cursor \in [Windows -> 0 .. Len(keys)]
  /\ out \in [1 .. Len(keys) -> Keys]

(* While the keys are moved, each window has its own run of the buffer,    *)
(* counts[w] .. counts[w + 1] of it, that its keys just fill: the cursor   *)
(* is as far into the run as keys of the window have been moved, so it     *)
(* never enters the next run and no key is written over another.           *)
CursorsStayInRuns ==
  pc \in {"move", "done"} =>
    \A w \in Windows :
      /\ counts[w + 1] - counts[w] = Seen(Len(keys), w)
      /\ cursor[w] = counts[w] + Seen(i - 1, w)

(* Nothing of the old buffer is left: the result is the stable order by    *)
(* windows that the builders are specified with.                           *)
PleatsStably ==
  pc = "done" => out \in PleatedOrders(keys, [k \in Range(keys) |-> WindowOf(k)])
=============================================================================
