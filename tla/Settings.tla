------------------------------ MODULE Settings ------------------------------
(***************************************************************************)
(* How settings reach the disk (SettingsPersistence.ts).  One object holds *)
(* them all: a write changes it at once, then reads the file, and writes   *)
(* the whole object if the file differs.  Nothing waits for the write of   *)
(* another.  A field is changed in a copy of the object; an item of the    *)
(* array of shares is changed in the array itself, which every copy shares.*)
(* The settings are loaded before the first write (hydrated).              *)
(***************************************************************************)
EXTENDS Naturals, Sequences

CONSTANTS
  Guids,      \* shares
  Values,     \* what a field, and a share's item, may be
  Writes,     \* writes that may be under way at a time
  MaxWrites,
  MaxArrays,  \* arrays made: one when the settings are loaded, one for each removal
  Nothing

Objects == [field : Values, array : Nat]
Mutations == [stage : {"loads", "saves"}, updated : Objects]

SettingsAssumption ==
  /\ Nothing \notin Values \cup Mutations /\ MaxWrites \in Nat /\ MaxArrays \in Nat \ {0}

VARIABLES
  current,  \* currentValue: [field, array], the array a number
  arrays,   \* what the arrays made so far hold: [Guids -> Values or Nothing]
  write,    \* [Writes -> where a mutate() is, and what its updater returned, or Nothing]
  saves,    \* data being written, in the order of the calls: <<write, contents>>
  disk,     \* data.json
  latest,   \* history: what was last asked of each setting
  excepted, \* history: see SettledIsLatest
  writes

vars == <<current, arrays, write, saves, disk, latest, excepted, writes>>

\* JSON.stringify: what the object holds now.
Contents(root) == [field |-> root.field, items |-> arrays[root.array]]

-----------------------------------------------------------------------------
(* mutate(), up to its first await. *)

Mutate(updated) ==
  /\ writes < MaxWrites /\ writes' = writes + 1
  /\ current' = updated
  /\ \E w \in Writes :
       /\ write[w] = Nothing
       /\ write' = [write EXCEPT ![w] = [stage |-> "loads", updated |-> updated]]
  /\ UNCHANGED <<saves, disk, excepted>>

\* writeNested, of a field.
WriteField(v) ==
  /\ v # current.field
  /\ Mutate([current EXCEPT !.field = v])
  /\ latest' = [latest EXCEPT !.field = v] /\ UNCHANGED arrays

\* writeArrayItem: the array is changed in place, and grows by a new share's item.
WriteItem(g, v) ==
  /\ v # arrays[current.array][g]
  /\ Mutate(current)
  /\ arrays' = [arrays EXCEPT ![current.array][g] = v]
  /\ latest' = [latest EXCEPT !.items[g] = v]

\* ShareRegistry.delete: the filtered array is a new one.
RemoveItem(g) ==
  /\ arrays[current.array][g] # Nothing /\ Len(arrays) < MaxArrays
  /\ arrays' = Append(arrays, [arrays[current.array] EXCEPT ![g] = Nothing])
  /\ Mutate([current EXCEPT !.array = Len(arrays')])
  /\ latest' = [latest EXCEPT !.items[g] = Nothing]

-----------------------------------------------------------------------------
(* The rest of mutate(), and persist(). *)

\* What its own updater returned (a faulty variant).
ToSave_Updated(w) == Contents(write[w].updated)

ToSave(w) == Contents(current)

\* loadData has answered: the file is compared with what this write made, as it is
\* now.  A write still on its way to the file may be about to undo what was found.
Loaded(w) ==
  /\ write[w] # Nothing /\ write[w].stage = "loads"
  /\ IF Contents(write[w].updated) = disk
     THEN /\ write' = [write EXCEPT ![w] = Nothing]
          /\ excepted' = (excepted \/ saves # <<>>)
          /\ UNCHANGED saves
     ELSE /\ write' = [write EXCEPT ![w].stage = "saves"]
          /\ saves' = Append(saves, <<w, ToSave(w)>>)
          /\ UNCHANGED excepted
  /\ UNCHANGED <<current, arrays, disk, latest, writes>>

\* saveData: writes reach the file in the order of the calls, or fail.
Written ==
  /\ saves # <<>>
  /\ saves' = Tail(saves)
  /\ write' = [write EXCEPT ![Head(saves)[1]] = Nothing]
  /\ \/ /\ disk' = Head(saves)[2]
        /\ excepted' = (excepted /\ (saves' # <<>> \/ disk' # Contents(current)))
     \/ UNCHANGED disk /\ excepted' = TRUE
  /\ UNCHANGED <<current, arrays, latest, writes>>

\* The application ends, with writes under way, and starts: hydrate().
Restart ==
  /\ writes < MaxWrites /\ writes' = writes + 1
  /\ arrays' = <<disk.items>> /\ current' = [field |-> disk.field, array |-> 1]
  /\ write' = [w \in Writes |-> Nothing] /\ saves' = <<>>
  /\ latest' = disk /\ excepted' = FALSE
  /\ UNCHANGED disk

-----------------------------------------------------------------------------

Init ==
  /\ \E v \in Values, items \in [Guids -> Values \cup {Nothing}] :
       /\ disk = [field |-> v, items |-> items] /\ latest = disk
       /\ current = [field |-> v, array |-> 1] /\ arrays = <<items>>
  /\ write = [w \in Writes |-> Nothing] /\ saves = <<>>
  /\ excepted = FALSE /\ writes = 0

Next ==
  \/ \E v \in Values : WriteField(v) \/ \E g \in Guids : WriteItem(g, v)
  \/ \E g \in Guids : RemoveItem(g)
  \/ \E w \in Writes : Loaded(w)
  \/ Written \/ Restart

Spec == Init /\ [][Next]_vars

-----------------------------------------------------------------------------
(* Properties *)

(***************************************************************************)
(* When no write is under way the file holds the last value of every       *)
(* setting, however the writes of several settings overlapped (#37a9ba4e), *)
(* so that it is there after a restart.  Excepted, until the whole object  *)
(* is written again, are a write that failed and one that found its value  *)
(* in the file while another value was on its way there: mutate() compares *)
(* with the file and not with what it is about to hold.                    *)
(***************************************************************************)
SettledIsLatest ==
  (\A w \in Writes : write[w] = Nothing) => excepted \/ disk = latest
=============================================================================
