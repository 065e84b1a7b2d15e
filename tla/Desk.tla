-------------------------------- MODULE Desk --------------------------------
(***************************************************************************)
(* The note desk of std.lumen, stdlib/runtime/buraaq_lumen.c: windows that *)
(* list notes, take new ones and delete them, over a local JSON file       *)
(* (keep) or over the rows of a Keel API (bind).                           *)
(*                                                                         *)
(* A window is a process.  Its handlers run one at a time, and block it    *)
(* over HTTP; what others do falls between the opening of the file, which  *)
(* empties it, and the write, and between one HTTP exchange and the next.  *)
(* A request may be refused, answered with an error, or take effect with   *)
(* its answer lost to the 2.5 s timeout.  The API is the one of Keel: it   *)
(* may store a note twice, an empty row in its place, or nothing here, and *)
(* answer 201.  Windows are closed and killed.                             *)
(*                                                                         *)
(* A note is told by the key it was typed under, which the code does not   *)
(* have; its id is what the code goes by, 0 for an empty one.              *)
(***************************************************************************)
EXTENDS Integers, Sequences, SequencesExt, FiniteSets, FiniteSetsExt

CONSTANTS
  Desks,
  Scenes,       \* where the notes are, and what is typed
  MaxRows,      \* UI_MAX_ROWS
  Buffer,       \* what a load reads of the file, 64 KiB
  MaxNotes,     \* bounds what is typed
  MaxMishaps    \* bounds failures, late answers and kills, for each scene

Texts ==
  {"plain",
   "brace",     \* holds a closing brace
   "pair",      \* holds a closing and then an opening brace
   "long",      \* longer, once escaped, than a load looks at
   "cut",       \* what a load leaves of the above
   "tail"}      \* what it takes for a note behind the first brace

Scene == [bound : BOOLEAN, windows : SUBSET Desks, typed : SUBSET Texts]
ASSUME ScenesAssumption == Scenes \subseteq Scene
ASSUME DesksAssumption == IsFiniteSet(Desks)
ASSUME SizesAssumption == {MaxRows, Buffer, MaxNotes} \subseteq Nat
ASSUME MaxMishapsAssumption == MaxMishaps \in [Scenes -> Nat]
\* A load reads all of a full desk with no long note: 64 rows of 1022 bytes.
ASSUME BufferAssumption == MaxRows <= Buffer

VARIABLES
  scene, mishaps,
  pc,               \* where the handler of a window stands
  rows, next,       \* g_rows, g_next_id
  field, note,      \* what stands in the field, and its key
  id,               \* the id a bound delete asks for
  file,             \* the rows of the file, or NoFile
  api, served,      \* the API's rows, and how many ids it has given out
  typed,            \* how many notes were typed
  made, dropped,    \* history: the keys that left their field, and those deleted
  lost,             \* history: the keys for which an answer was lost, to the
                    \* window or to the API, whose database is asked again
  refused,          \* history: the keys answered without being stored here
  overlaid          \* history: a save was written over another one

window == <<pc, rows, next, field, note, id>>
history == <<made, dropped, lost, refused>>
vars == <<scene, mishaps, window, file, api, served, typed, history, overlaid>>

NoFile == <<[id |-> 0, key |-> 0, text |-> "none"]>>

Init ==
  /\ scene \in Scenes
  /\ mishaps = 0
  /\ pc = [d \in Desks |-> IF d \in scene.windows THEN "closed" ELSE "absent"]
  /\ rows = [d \in Desks |-> <<>>] /\ next = [d \in Desks |-> 1]
  /\ field = [d \in Desks |-> "none"] /\ note = [d \in Desks |-> 0]
  /\ id = [d \in Desks |-> 0]
  /\ file = NoFile /\ api = <<>> /\ served = 0 /\ typed = 0
  /\ made = {} /\ dropped = {} /\ lost = {} /\ refused = {} /\ overlaid = FALSE

Mishap == mishaps < MaxMishaps[scene] /\ mishaps' = mishaps + 1
Goes(d, where) == pc' = [pc EXCEPT ![d] = where]

-----------------------------------------------------------------------------
(* ui_parse_rows: what a text in JSON comes back as                        *)

Weight(r) == IF r.text = "long" THEN 2 ELSE 1

\* An object is taken to end at its first closing brace, or 1023 bytes on.
\* What opens behind it is read as one more note, with no id.
AsRead(r) ==
  CASE r.text \in {"brace", "long"} -> <<[r EXCEPT !.text = "cut"]>>
    [] r.text = "pair" -> <<[r EXCEPT !.text = "cut"], [id |-> 0, key |-> 0, text |-> "tail"]>>
    [] OTHER -> <<r>>

\* The rows that fit the buffer, and of what they are read as, the first ones.
Parsed(rs) ==
  LET weight[n \in 0 .. Len(rs)] == IF n = 0 THEN 0 ELSE weight[n - 1] + Weight(rs[n])
      fit == Max({n \in 0 .. Len(rs) : weight[n] <= Buffer})
      read == FlattenSeq([n \in 1 .. fit |-> AsRead(rs[n])])
  IN SubSeq(read, 1, Min({Len(read), MaxRows}))

\* An id made by counting the notes.
NextByCount(rs) == Len(rs) + 1

NextId(rs) == Max({0} \cup {rs[n].id : n \in 1 .. Len(rs)}) + 1

Shows(d, rs) ==
  /\ rows' = [rows EXCEPT ![d] = rs]
  /\ next' = [next EXCEPT ![d] = NextId(rs)]

\* A load that finds nothing leaves the next id as it was.
ShowsNone(d) == rows' = [rows EXCEPT ![d] = <<>>] /\ UNCHANGED next

-----------------------------------------------------------------------------
(* ui_show, ui_refresh_bind and ui_keep_load                               *)

\* The first refresh is ui_loop's own.
Opens(d) ==
  /\ pc[d] = "closed"
  /\ Goes(d, "load")
  /\ UNCHANGED <<scene, mishaps, rows, next, field, note, id, file, api, served, typed,
                 history, overlaid>>

Refreshes(d) ==
  /\ pc[d] = "idle"
  /\ Goes(d, "load")
  /\ UNCHANGED <<scene, mishaps, rows, next, field, note, id, file, api, served, typed,
                 history, overlaid>>

\* The list is read, or cannot be; an answer of the API that is an error has
\* no rows in it.
Loads(d) ==
  /\ pc[d] = "load"
  /\ LET all == IF scene.bound THEN api ELSE file
     IN \/ IF all = NoFile THEN ShowsNone(d) /\ UNCHANGED mishaps
           ELSE Shows(d, Parsed(all)) /\ UNCHANGED mishaps
        \/ Mishap /\ ShowsNone(d)
        \/ scene.bound /\ Mishap /\ Shows(d, <<>>)
  /\ Goes(d, "idle")
  /\ UNCHANGED <<scene, field, note, id, file, api, served, typed, history, overlaid>>

-----------------------------------------------------------------------------
(* ui_char and ui_post_create                                              *)

Types(d) ==
  /\ pc[d] = "idle" /\ field[d] = "none" /\ typed < MaxNotes
  /\ \E t \in scene.typed : field' = [field EXCEPT ![d] = t]
  /\ typed' = typed + 1
  /\ note' = [note EXCEPT ![d] = typed']
  /\ UNCHANGED <<scene, mishaps, pc, rows, next, id, file, api, served, history, overlaid>>

\* The note leaves its field.
Cleared(d) ==
  /\ field' = [field EXCEPT ![d] = "none"] /\ note' = [note EXCEPT ![d] = 0]
  /\ made' = made \cup {note[d]}

\* Enter, or the button.  A title is required, and a full desk takes no note.
\* Titles are cut at 255 bytes: the texts are told apart by what is left.
Creates(d) ==
  /\ pc[d] = "idle" /\ field[d] # "none"
  /\ IF scene.bound THEN Goes(d, "post") /\ UNCHANGED <<rows, next, field, note, made>>
     ELSE /\ Len(rows[d]) < MaxRows
          /\ rows' = [rows EXCEPT ![d] =
                         Append(@, [id |-> next[d], key |-> note[d], text |-> field[d]])]
          /\ next' = [next EXCEPT ![d] = @ + 1]
          /\ Cleared(d)
          /\ Goes(d, "save")
  /\ UNCHANGED <<scene, mishaps, id, file, api, served, typed, dropped, lost,
                 refused, overlaid>>

\* The API's table takes n rows more.
Stores(n, key, text) ==
  /\ served' = served + n
  /\ api' = api \o [i \in 1 .. n |-> [id |-> served + i, key |-> key, text |-> text]]

Inserts(d) == Stores(1, note[d], field[d])

\* A POST that leaves the note in its field when it is answered.
PostsAndKeeps(d) ==
  /\ pc[d] = "post"
  /\ Inserts(d) /\ Goes(d, "load")
  /\ UNCHANGED <<scene, mishaps, rows, next, field, note, id, file, typed, history, overlaid>>

(* The POST of a bound create: any answer counts as created, and none      *)
(* keeps the field, whatever was stored.  The API runs a statement again   *)
(* when its session breaks under it, which stores the note twice if it had *)
(* been run; it writes empty values when there is no session to quote them *)
(* with; and it may have turned to another database.                       *)
Posts(d) ==
  /\ pc[d] = "post"
  /\ \/ /\ Inserts(d) /\ Cleared(d) /\ Goes(d, "load")
        /\ UNCHANGED <<mishaps, lost, refused>>
     \/ /\ Mishap /\ lost' = lost \cup {note[d]} /\ UNCHANGED refused
        /\ \/ /\ \E n \in 0 .. 2 : Stores(n, note[d], field[d]) \/ Stores(n, 0, "none")
              /\ Goes(d, "idle") /\ UNCHANGED <<field, note, made>>
           \/ Stores(2, note[d], field[d]) /\ Cleared(d) /\ Goes(d, "load")
     \/ /\ Mishap /\ refused' = refused \cup {note[d]} /\ UNCHANGED lost
        /\ \E n \in 0 .. 2 : Stores(n, 0, "none")
        /\ Cleared(d) /\ Goes(d, "load")
  /\ UNCHANGED <<scene, rows, next, id, file, typed, dropped, overlaid>>

-----------------------------------------------------------------------------
(* ui_delete_id, and ui_keep_save of either handler                        *)

(* The rows move up in place, and the id is read where it stands: once its *)
(* row is overwritten, it is the id of the row that took its place.        *)
Moved(t, k, i) ==
  IF t.rs[i].id = t.rs[k].id THEN t
  ELSE [rs |-> [t.rs EXCEPT ![t.w + 1] = t.rs[i]], w |-> t.w + 1]

Compacted(rs, k) ==
  LET t[i \in 0 .. Len(rs)] ==
        IF i = 0 THEN [rs |-> rs, w |-> 0] ELSE Moved(t[i - 1], k, i)
  IN SubSeq(t[Len(rs)].rs, 1, t[Len(rs)].w)

Keys(rs) == {rs[n].key : n \in 1 .. Len(rs)} \ {0}

\* A click on the k-th card's delete.  A row with no id is left alone.
Deletes(d, k) ==
  /\ pc[d] = "idle" /\ rows[d][k].id # 0
  /\ IF scene.bound
     THEN /\ id' = [id EXCEPT ![d] = rows[d][k].id]
          /\ Goes(d, "delete") /\ UNCHANGED <<rows, dropped>>
     ELSE /\ rows' = [rows EXCEPT ![d] = Compacted(@, k)]
          /\ dropped' = dropped \cup {rows[d][k].key}
          /\ Goes(d, "save") /\ UNCHANGED id
  /\ UNCHANGED <<scene, mishaps, next, field, note, file, api, served, typed, made, lost,
                 refused, overlaid>>

\* The DELETE of a bound delete, whose answer nobody looks at.  Ids are the
\* key of the API's table: one row goes, or none when another window was first.
Asks(d) ==
  /\ pc[d] = "delete"
  /\ \/ /\ \E n \in 1 .. Len(api) : api[n].id = id[d] /\ api' = RemoveAt(api, n)
        /\ dropped' = dropped \cup (Keys(api) \ Keys(api'))
        /\ UNCHANGED mishaps
     \/ /\ \A n \in 1 .. Len(api) : api[n].id # id[d]
        /\ UNCHANGED <<api, dropped, mishaps>>
     \/ Mishap /\ UNCHANGED <<api, dropped>>
  /\ id' = [id EXCEPT ![d] = 0]
  /\ Goes(d, "load")
  /\ UNCHANGED <<scene, rows, next, field, note, file, served, typed, made, lost, refused,
                 overlaid>>

\* fopen empties the file; when it fails nothing is saved, and nobody told.
SaveOpens(d) ==
  /\ pc[d] = "save"
  /\ \/ file' = <<>> /\ Goes(d, "write") /\ UNCHANGED mishaps
     \/ Mishap /\ Goes(d, "idle") /\ UNCHANGED file
  /\ UNCHANGED <<scene, rows, next, field, note, id, api, served, typed, history, overlaid>>

\* A save that forgets the note in the last place.
SaveWritesLess(d) ==
  /\ pc[d] = "write"
  /\ file' = IF rows[d] = <<>> THEN <<>> ELSE Front(rows[d])
  /\ Goes(d, "idle")
  /\ UNCHANGED <<scene, mishaps, rows, next, field, note, id, api, served, typed, history,
                 overlaid>>

\* What stays behind a write to the head of the file: how much is a matter
\* of bytes, but the first note is always written into.
Leftovers == {<<>>} \cup {SubSeq(file, m, Len(file)) : m \in 2 .. Len(file)}

(* The rows go to the head of the file.  Where another window has written  *)
(* more since it was opened, the end of that stays behind them.  A full    *)
(* disk takes a part of the rows.                                          *)
SaveWrites(d) ==
  /\ pc[d] = "write"
  /\ \/ /\ \E rest \in Leftovers :
             /\ file' = rows[d] \o rest
             /\ overlaid' = (overlaid \/ rest # <<>>)
        /\ UNCHANGED mishaps
     \/ /\ Mishap
        /\ \E m \in 0 .. Len(rows[d]) - 1 : file' = SubSeq(rows[d], 1, m)
        /\ UNCHANGED overlaid
  /\ Goes(d, "idle")
  /\ UNCHANGED <<scene, rows, next, field, note, id, api, served, typed, history>>

-----------------------------------------------------------------------------

\* WM_DESTROY comes between two handlers, a kill anywhere; memory is lost.
Closes(d) ==
  /\ pc[d] \notin {"absent", "closed"}
  /\ IF pc[d] = "idle" THEN UNCHANGED mishaps ELSE Mishap
  /\ Goes(d, "closed")
  /\ rows' = [rows EXCEPT ![d] = <<>>] /\ next' = [next EXCEPT ![d] = 1]
  /\ field' = [field EXCEPT ![d] = "none"] /\ note' = [note EXCEPT ![d] = 0]
  /\ id' = [id EXCEPT ![d] = 0]
  /\ UNCHANGED <<scene, file, api, served, typed, history, overlaid>>

Window(d) ==
  \/ Opens(d) \/ Refreshes(d) \/ Loads(d) \/ Types(d) \/ Creates(d) \/ Posts(d)
  \/ Asks(d) \/ SaveOpens(d) \/ SaveWrites(d) \/ Closes(d)
  \/ \E k \in 1 .. Len(rows[d]) : Deletes(d, k)

Next == \E d \in Desks : Window(d)

Spec == Init /\ [][Next]_vars

-----------------------------------------------------------------------------
(* Properties *)

\* The notes on a desk: a row with no id is what a load makes of a brace.
Numbered(rs) == {rs[n] : n \in {m \in 1 .. Len(rs) : rs[m].id # 0}}

(* A click on a card's delete takes that note off the desk and no other,   *)
(* although the id it goes by is moved about underneath it: no two notes   *)
(* of a window ever have one id, over reloads, restarts, cuts and other    *)
(* windows on the file, unless two windows were in a save at once and the  *)
(* file has kept the end of one behind the other.  No row at all goes with *)
(* it, unless the one that takes its place has no id: the loop then takes  *)
(* out every later row that has none either.                               *)
(* (ui_delete_id, ui_parse_rows, ui_post_create)                           *)
DeletesTheRow ==
  [][\A d \in Desks :
       pc[d] = "idle" /\ pc'[d] = "save" /\ Len(rows'[d]) <= Len(rows[d]) /\ ~overlaid =>
         \E k \in 1 .. Len(rows[d]) :
           /\ dropped' = dropped \cup {rows[d][k].key}
           /\ Numbered(rows'[d]) = Numbered(rows[d]) \ {rows[d][k]}
           /\ \/ rows'[d] = RemoveAt(rows[d], k)
              \/ k < Len(rows[d]) /\ rows[d][k + 1].id = 0]_vars

AtRest == \A d \in Desks : pc[d] \in {"absent", "closed", "idle"}

(* With one window on the file, no failure and nothing typed that a load   *)
(* takes for the end of a list, the file holds at rest the notes that were *)
(* created and not deleted, over reloads and restarts.  A closing brace    *)
(* may cost a note its text, but never the note or a neighbour.            *)
(* (ui_keep_save, ui_keep_load, ui_parse_rows)                             *)
LoneDeskKeeps ==
  /\ ~scene.bound /\ Cardinality(scene.windows) = 1 /\ mishaps = 0 /\ AtRest
  /\ scene.typed \subseteq {"plain", "brace"}
  => LET saved == IF file = NoFile THEN <<>> ELSE file
     IN /\ Keys(saved) = made \ dropped /\ Len(saved) = Cardinality(Keys(saved))
        /\ "brace" \notin scene.typed => \A n \in 1 .. Len(saved) : saved[n].text = "plain"

Stored(k) == Cardinality({n \in 1 .. Len(api) : api[n].key = k})

(* Over a Keel API a note is stored twice only when an answer was lost,    *)
(* the API's to the window or its database's to the API; and one that left *)
(* its field is stored, deleted, or was answered without being stored,     *)
(* which the window took for success.                                      *)
(* (ui_post_create, http_do, buraaq_pg_exec)                               *)
CreatedOnce ==
  scene.bound =>
    \A k \in 1 .. typed :
      /\ Stored(k) > 1 => k \in lost
      /\ Stored(k) = 0 => k \in dropped \cup refused \/ k \notin made
=============================================================================
