------------------------------- MODULE Editor -------------------------------
(***************************************************************************)
(* An editor window (crates/igui/src/fedit.rs) over a text buffer: typing  *)
(* and deleting with the coalescing undo history, selection, pasting, the  *)
(* file the text came from, and the diagnostics of the last check.         *)
(*                                                                         *)
(* The buffer is given by the operations of RopeBuffer that fedit.rs       *)
(* calls, and by what they do to the text it holds (BufferAssumption).     *)
(* RopeEditor puts Rope in its place.                                      *)
(*                                                                         *)
(* Every handler runs on the UI thread, one message at a time.  Arrow      *)
(* keys, word motions, clicks and drags all end in set_cursor_offset or    *)
(* its drag_to twin, and a click reaches every offset: they are one        *)
(* action.  Which blanks the auto-indent and the soft tab insert is        *)
(* layout: they are taken from Blanks.  Every program writes the           *)
(* clipboard: what a paste finds there is taken from Clips.  Scrolling,    *)
(* the preferred column and painting with its token cache are left out.    *)
(***************************************************************************)
EXTENDS Integers, Sequences, SequencesExt

CONSTANTS
    Chars,      \* code points a text may have
    Typed,      \* characters the user types
    Blanks,     \* what auto-indent or a soft tab may insert
    Files,      \* contents the opened file may have (byte sequences)
    Clips,      \* what a paste may find on the clipboard
    UndoCap,    \* UNDO_CAP: entries the undo history keeps
    MaxLen,     \* bound: code points in the buffer
    MaxEdits    \* bound: edits that are not undo or redo; none is left, the
                \* cursor is not moved either

(* RopeBuffer: its values with texts within the bound, and its methods,    *)
(* which return the buffer they leave.                                     *)
CONSTANTS Buffers, new, from_slice(_), insert(_, _, _), delete(_, _, _),
          len(_), slice(_, _, _), to_slice(_)

CR == "cr"
LF == "nl"
BOM == "bom"
NoFile == <<"no file">>

Texts == UNION {[1..n -> Chars] : n \in 0..MaxLen}

-----------------------------------------------------------------------------
(* Conversions                                                             *)

(* utf8_to_codepoints: a leading BOM goes, CR LF and CR become newlines.   *)
Decode(bytes) ==
    FlattenSeq([i \in DOMAIN bytes |->
                  CASE i = 1 /\ bytes[i] = BOM -> << >>
                    [] i > 1 /\ bytes[i] = LF /\ bytes[i - 1] = CR -> << >>
                    [] bytes[i] = CR -> <<LF>>
                    [] OTHER -> <<bytes[i]>>])

(* Slip: a line end is written as two.                                     *)
MutEncode(text) ==
    FlattenSeq([i \in DOMAIN text |-> IF text[i] = LF THEN <<CR, CR>> ELSE <<text[i]>>])

(* save_to writes CR LF line ends.                                         *)
Encode(text) ==
    FlattenSeq([i \in DOMAIN text |->
                  IF text[i] = LF THEN <<CR, LF>> ELSE <<text[i]>>])

(* clipboard_get: CR LF becomes LF; do_insert decodes the rest.            *)
Pasted(bytes) ==
    Decode(FlattenSeq([i \in DOMAIN bytes |->
                         IF bytes[i] = CR /\ i < Len(bytes) /\ bytes[i + 1] = LF
                         THEN << >> ELSE <<bytes[i]>>]))

-----------------------------------------------------------------------------
ASSUME EditorAssumption ==
    /\ UndoCap \in Nat \ {0} /\ MaxLen \in Nat /\ MaxEdits \in Nat
    /\ LF \in Chars /\ CR \notin Chars
    /\ Typed \subseteq Chars
    /\ Blanks \subseteq Seq(Chars) /\ << >> \in Blanks
    /\ \A f \in Files : Decode(f) \in Texts
    /\ \A c \in Clips : c # << >> /\ Pasted(c) \in Seq(Chars)

(* A text with x put in at offset p, and without n code points from p on.  *)
Spliced(t, p, x) == SubSeq(t, 1, p) \o x \o SubSeq(t, p + 1, Len(t))
Cut(t, p, n) == SubSeq(t, 1, p) \o SubSeq(t, p + n + 1, Len(t))

(* What the editor needs of the buffers: each holds a text, which is       *)
(* changed and read as a sequence is, at every offset of it.               *)
KeepsText(all) ==
    /\ new \in all /\ to_slice(new) = << >>
    /\ \A t \in Texts : from_slice(t) \in all /\ to_slice(from_slice(t)) = t
    /\ \A b \in all : LET t == to_slice(b) IN
          /\ t \in Texts /\ len(b) = Len(t)
          /\ \A p \in 0..Len(t) :
                /\ \A x \in Texts : Len(t) + Len(x) <= MaxLen =>
                      /\ insert(b, p, x) \in all
                      /\ to_slice(insert(b, p, x)) = Spliced(t, p, x)
                /\ \A q \in p..Len(t) :
                      /\ delete(b, p, q - p) \in all
                      /\ to_slice(delete(b, p, q - p)) = Cut(t, p, q - p)
                      /\ slice(b, p, q) = SubSeq(t, p + 1, q)

ASSUME BufferAssumption == KeepsText(Buffers)

VARIABLES
    buffer,             \* the RopeBuffer
    cursor, anchor,     \* equal: nothing is selected
    undo, redo,         \* histories, oldest entry first
    coalesce,           \* "Insert", "Backspace" or "no"
    dirty,
    diagnostics_stale,
    file,               \* what the file at file_path holds, or NoFile
    opening,            \* WM_FEDIT_LOAD_PATH is still to come
    edits,              \* edits so far
    log,                \* for each undo entry, text and cursor before and after
    undone,             \* the same for each redo entry
    longest             \* length of the longest text put in at once

flags == <<dirty, diagnostics_stale>>
history == <<undo, redo, coalesce, log, undone>>
world == <<file, opening>>
vars == <<buffer, cursor, anchor, flags, history, world, edits, longest>>

-----------------------------------------------------------------------------
(* Undo entries.  Replaced entries are made by do_replace alone, which     *)
(* nothing calls.                                                          *)

Inserted(start, text, cb, ca) ==
    [kind |-> "Inserted", start |-> start, text |-> text,
     cursor_before |-> cb, cursor_after |-> ca]
Deleted(start, text, cb, ca) ==
    [kind |-> "Deleted", start |-> start, text |-> text,
     cursor_before |-> cb, cursor_after |-> ca]

(* push_undo: beyond the cap the oldest entry goes.                        *)
Capped(s, x) == IF Len(s) < UndoCap THEN Append(s, x) ELSE Tail(Append(s, x))

Selected == cursor # anchor
SelLo == IF cursor <= anchor THEN cursor ELSE anchor
SelHi == IF cursor <= anchor THEN anchor ELSE cursor
SelectedText == slice(buffer, SelLo, SelHi)

(* What the log says of an edit: the states before and after it.           *)
At(b, p) == <<to_slice(b), p>>
Step(from, to) == [from |-> from, to |-> to]

(* What delete_selection_to_undo leaves behind: buffer, cursor, history.   *)
Without ==
    LET b == delete(buffer, SelLo, SelHi - SelLo)
    IN [buffer |-> b, cursor |-> SelLo,
        undo |-> Capped(undo, Deleted(SelLo, SelectedText, cursor, SelLo)),
        log |-> Capped(log, Step(At(buffer, cursor), At(b, SelLo))),
        coalesce |-> "no"]
AsIs ==
    [buffer |-> buffer, cursor |-> cursor, undo |-> undo, log |-> log,
     coalesce |-> coalesce]

SetCursor(p) == cursor' = p /\ anchor' = p

PutsIn(text) == longest' = IF Len(text) > longest THEN Len(text) ELSE longest

EditOf(b) ==
    /\ ~opening /\ edits < MaxEdits
    /\ edits' = edits + 1
    /\ buffer' = b
    /\ dirty' = TRUE
    /\ diagnostics_stale' = TRUE
    /\ UNCHANGED world

ClearRedo == redo' = << >> /\ undone' = << >>

(* The log of an edit that extends the last entry, or makes a new one.     *)
Logged(l, ext, from) ==
    log' = IF ext THEN [l EXCEPT ![Len(l)].to = At(buffer', cursor')]
           ELSE Capped(l, Step(from, At(buffer', cursor')))

-----------------------------------------------------------------------------
(* Editing                                                                 *)

(* do_insert: the text continues the last entry of s.                      *)
Extends(s, kind) ==
    /\ kind = "Insert" /\ s.coalesce = "Insert"
    /\ s.undo # << >> /\ Last(s.undo).kind = "Inserted"
    /\ Last(s.undo).start + Len(Last(s.undo).text) = s.cursor

(* do_insert takes the selection out first, as an entry of its own, and    *)
(* clears the redo history only if there is something to insert.           *)
DoInsert(text, kind) ==
    LET s   == IF Selected THEN Without ELSE AsIs
        end == s.cursor + Len(text)
        ext == Extends(s, kind)
    IN /\ text # << >> \/ Selected
       /\ len(s.buffer) + Len(text) <= MaxLen
       /\ EditOf(insert(s.buffer, s.cursor, text))
       /\ PutsIn(text)
       /\ SetCursor(end)
       /\ IF text = << >>
          THEN /\ undo' = s.undo /\ log' = s.log /\ coalesce' = s.coalesce
               /\ UNCHANGED <<redo, undone>>
          ELSE /\ undo' = IF ext
                          THEN [s.undo EXCEPT ![Len(s.undo)].text = @ \o text,
                                              ![Len(s.undo)].cursor_after = end]
                          ELSE Capped(s.undo, Inserted(s.cursor, text, s.cursor, end))
               /\ Logged(s.log, ext, At(s.buffer, s.cursor))
               /\ coalesce' = kind
               /\ ClearRedo

(* insert_char                                                             *)
InsertChar == \E c \in Typed : DoInsert(<<c>>, "Insert")

(* insert_newline with its auto-indent; the soft tab's insert_str.         *)
InsertNewline == \E b \in Blanks : DoInsert(<<LF>> \o b, "no")
InsertTab == \E b \in Blanks \ {<< >>} : DoInsert(b, "no")

Paste == \E clip \in Clips : DoInsert(Pasted(clip), "no")

(* backspace and delete_forward with a selection, and cut if the clipboard *)
(* took the text.                                                          *)
DeleteSelection ==
    /\ Selected
    /\ EditOf(Without.buffer) /\ UNCHANGED longest
    /\ SetCursor(Without.cursor)
    /\ undo' = Without.undo /\ log' = Without.log
    /\ coalesce' = "no"
    /\ ClearRedo

(* Slip: the character is put behind those deleted before it.              *)
MutLonger(e, c, at) == [e EXCEPT !.text = @ \o c, !.start = at, !.cursor_after = at]

(* A Backspace entry grows to the front.                                   *)
Longer(e, c, at) == [e EXCEPT !.text = c \o @, !.start = at, !.cursor_after = at]

Backspace ==
    LET start == cursor - 1
        c     == slice(buffer, start, cursor)
        ext   == /\ coalesce = "Backspace" /\ undo # << >>
                 /\ Last(undo).kind = "Deleted" /\ Last(undo).start = cursor
    IN /\ ~Selected /\ cursor > 0
       /\ EditOf(delete(buffer, start, 1)) /\ UNCHANGED longest
       /\ SetCursor(start)
       /\ undo' = IF ext THEN [undo EXCEPT ![Len(undo)] = Longer(@, c, start)]
                  ELSE Capped(undo, Deleted(start, c, cursor, start))
       /\ Logged(log, ext, At(buffer, cursor))
       /\ coalesce' = "Backspace"
       /\ ClearRedo

DeleteForward ==
    /\ ~Selected /\ cursor < len(buffer)
    /\ EditOf(delete(buffer, cursor, 1)) /\ UNCHANGED longest
    /\ undo' = Capped(undo, Deleted(cursor, slice(buffer, cursor, cursor + 1),
                                    cursor, cursor))
    /\ coalesce' = "no"
    /\ ClearRedo
    /\ UNCHANGED <<cursor, anchor>>
    /\ Logged(log, FALSE, At(buffer, cursor))

(* Undo and redo take an entry back, or apply it again, and move it to the *)
(* other history; redo does so without looking at the cap.                 *)
TakeOut(e) == delete(buffer, e.start, Len(e.text))
PutIn(e) == insert(buffer, e.start, e.text)

Replayed(b) ==
    /\ ~opening
    /\ buffer' = b
    /\ dirty' = TRUE
    /\ diagnostics_stale' = TRUE
    /\ coalesce' = "no"
    /\ UNCHANGED <<world, edits>>

Undo ==
    LET e == Last(undo)
    IN /\ undo # << >>
       /\ undo' = Front(undo) /\ log' = Front(log)
       /\ redo' = Append(redo, e) /\ undone' = Append(undone, Last(log))
       /\ SetCursor(e.cursor_before)
       /\ PutsIn(IF e.kind = "Inserted" THEN << >> ELSE e.text)
       /\ Replayed(IF e.kind = "Inserted" THEN TakeOut(e) ELSE PutIn(e))

Redo ==
    LET e == Last(redo)
    IN /\ redo # << >>
       /\ redo' = Front(redo) /\ undone' = Front(undone)
       /\ undo' = Append(undo, e) /\ log' = Append(log, Last(undone))
       /\ SetCursor(e.cursor_after)
       /\ PutsIn(IF e.kind = "Inserted" THEN e.text ELSE << >>)
       /\ Replayed(IF e.kind = "Inserted" THEN PutIn(e) ELSE TakeOut(e))

-----------------------------------------------------------------------------
(* Selecting, files, caches                                                *)

(* set_cursor_offset                                                       *)
MoveTo ==
    /\ ~opening /\ edits < MaxEdits
    /\ \E p \in 0..len(buffer) : \E extend \in BOOLEAN :
          cursor' = p /\ anchor' = IF extend THEN anchor ELSE p
    /\ coalesce' = "no"
    /\ UNCHANGED <<buffer, flags, undo, redo, log, undone, world, edits, longest>>

SelectAll ==
    /\ ~opening /\ edits < MaxEdits
    /\ anchor' = 0 /\ cursor' = len(buffer)
    /\ coalesce' = "no"
    /\ UNCHANGED <<buffer, flags, undo, redo, log, undone, world, edits, longest>>

(* load_from, in a window that open_file has just created; unreadable, the *)
(* window stays empty and untitled.                                        *)
Load ==
    /\ opening
    /\ opening' = FALSE
    /\ \E f \in Files :
          /\ file' = f
          /\ buffer' = from_slice(Decode(f))
          /\ PutsIn(Decode(f))
    /\ SetCursor(0)
    /\ dirty' = FALSE
    /\ diagnostics_stale' = TRUE
    /\ undo' = << >> /\ log' = << >> /\ coalesce' = "no"
    /\ ClearRedo
    /\ UNCHANGED edits

LoadFails ==
    /\ opening
    /\ opening' = FALSE
    /\ UNCHANGED <<buffer, cursor, anchor, flags, history, file, edits, longest>>

(* save_to, which also runs the checker; a failed or cancelled save leaves *)
(* everything as it was.                                                   *)
Save ==
    /\ ~opening
    /\ file' = Encode(to_slice(buffer))
    /\ dirty' = FALSE
    /\ diagnostics_stale' = FALSE
    /\ UNCHANGED <<buffer, cursor, anchor, history, opening, edits, longest>>

(* run_check (F7)                                                          *)
Check ==
    /\ ~opening
    /\ diagnostics_stale' = FALSE
    /\ UNCHANGED <<buffer, cursor, anchor, dirty, history, world, edits, longest>>

-----------------------------------------------------------------------------
Init ==
    /\ buffer = new
    /\ cursor = 0 /\ anchor = 0
    /\ undo = << >> /\ redo = << >> /\ log = << >> /\ undone = << >>
    /\ coalesce = "no"
    /\ dirty = FALSE /\ diagnostics_stale = TRUE
    /\ file = NoFile
    /\ opening \in BOOLEAN
    /\ edits = 0 /\ longest = 0

Next ==
    \/ InsertChar \/ InsertNewline \/ InsertTab \/ Paste
    \/ DeleteSelection \/ Backspace \/ DeleteForward
    \/ Undo \/ Redo
    \/ MoveTo \/ SelectAll
    \/ Load \/ LoadFails \/ Save \/ Check

Spec == Init /\ [][Next]_vars

-----------------------------------------------------------------------------
(* Properties *)

(* fedit.rs, undo: each undo brings back the text and the cursor from      *)
(* before the edits of its entry, coalesced or not, and each redo those    *)
(* from after them, whatever was typed, deleted, undone, redone and        *)
(* dropped at the cap in between.                                          *)
UndoRestores ==
    [][/\ Undo => At(buffer', cursor') = Last(log).from
       /\ Redo => At(buffer', cursor') = Last(undone).to]_vars

(* fedit.rs, dirty and diagnostics_stale: after every step, a window that  *)
(* is not dirty (no `*' in its status line; the title is not kept up to    *)
(* date, and never has one) shows what opening its file again would show.  *)
(* Diagnostics outlive an edit: those of another text than the one shown,  *)
(* which F8 would jump by, are marked as stale.                            *)
FlagsAreTrue ==
    [][/\ ~dirty' /\ file' # NoFile => Decode(file') = to_slice(buffer')
       /\ to_slice(buffer') # to_slice(buffer) => diagnostics_stale']_vars
=============================================================================
