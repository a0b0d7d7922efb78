--------------------------------- MODULE EditField ---------------------------------
(***************************************************************************)
(* The text field of gametools/gameui.cpp (EditField).  While it is being  *)
(* edited its text ends with a cursor, an underscore that is part of the   *)
(* value; the value is saved among the preferences when the edition ends.  *)
(* A field may also be edited as long as it has the focus (editOnFocus).   *)
(* A key that is held is repeated by idle.                                 *)
(*                                                                         *)
(* A text is a sequence of letters and underscores: which letter, and the  *)
(* bytes of an international one, are left out.  So are the keyboard shown *)
(* on a touch screen, the dates of the repetition, and the reading before  *)
(* the first letter when the text that is duplicated is empty.  The owner  *)
(* sets the value of a field that is not being edited only.                *)
(***************************************************************************)
EXTENDS Sequences, Integers

CONSTANT MaxText      \* bound: letters of a text

ASSUME TextAssumption == MaxText \in Nat

VARIABLES
  text,         \* label
  editing,      \* editionMode
  before,       \* previousValue
  saved,        \* the preference
  lit,          \* haveFocus
  held,         \* the key of repeatEvent while repeat is set, else "none"
  onFocus       \* editOnFocus

field == <<text, editing, before, saved, lit, held, onFocus>>

Letter == "a"
Cursor == "_"
Texts(n) == UNION {[1..i -> {Letter, Cursor}] : i \in 0..n}

Arrows == {"left", "right", "up", "down"}
Typed  == {"letter", "erase"}
FieldKeys   == Arrows \cup Typed \cup {"start", "back", "click"}

FieldInit ==
  /\ text \in Texts(1) /\ saved = text /\ before = <<>>
  /\ editing = FALSE /\ lit = FALSE /\ held = "none"
  /\ onFocus \in BOOLEAN

-----------------------------------------------------------------------------
AllBut(s, n) == SubSeq(s, 1, Len(s) - n)

\* What the text is once the cursor is taken away.
Stripped(s) == AllBut(s, 1)

Open ==
  /\ before' = text /\ text' = Append(text, Cursor) /\ editing' = TRUE
  /\ UNCHANGED saved

Commit ==
  /\ text' = Stripped(text) /\ saved' = Stripped(text) /\ editing' = FALSE
  /\ UNCHANGED before

\* Bug: the entry that is cancelled is the one that stays.
KeepEntry ==
  /\ editing' = FALSE
  /\ UNCHANGED <<text, before, saved>>

Cancel ==
  /\ text' = before /\ editing' = FALSE
  /\ UNCHANGED <<before, saved>>

Same == UNCHANGED <<text, editing, before, saved>>

LoseField ==
  /\ lit' = FALSE
  /\ IF editing /\ ~onFocus THEN Commit ELSE Same

GiveField ==
  /\ lit' = TRUE
  /\ IF onFocus
     THEN /\ before' = text /\ editing' = TRUE
          /\ text' = IF editing THEN text ELSE <<Cursor>>
          /\ UNCHANGED saved
     ELSE Same
  /\ UNCHANGED <<held, onFocus>>

\* The entry after a letter typed, a letter erased, or the joystick: left
\* erases, right duplicates, up and down change the last letter.
Entries(key) ==
  LET entry == AllBut(text, 1)
      last  == Len(entry)
  IN CASE key = "letter" -> {Append(Append(entry, Letter), Cursor)}
       [] key \in {"erase", "left"} ->
            {IF last = 0 THEN text ELSE Append(AllBut(entry, 1), Cursor)}
       [] key = "right" ->
            {Append(Append(entry, c), Cursor) :
               c \in IF last = 0 THEN {Letter, Cursor} ELSE {entry[last]}}
       [] OTHER -> {Append(Append(AllBut(entry, IF last = 0 THEN 0 ELSE 1), c), Cursor) :
                      c \in {Letter, Cursor}}

Edit(key) ==
  /\ text' \in Entries(key) /\ Len(text') <= MaxText + 1
  /\ UNCHANGED <<editing, before, saved>>

\* eventOccured, for the keys that do something.  With editOnFocus the arrows
\* leave the field, and no entry is cancelled.
Handle(key) ==
  \/ onFocus /\ key \in Arrows /\ LoseField /\ UNCHANGED held
  \/ key = "start" /\ (IF editing THEN Commit ELSE Open) /\ UNCHANGED <<lit, held>>
  \/ key = "click" /\ ~editing /\ Open /\ UNCHANGED <<lit, held>>
  \/ key = "back" /\ editing /\ (IF onFocus THEN Same ELSE Cancel)
       /\ held' = "none" /\ UNCHANGED lit
  \/ key \in Typed \cup {k \in Arrows : ~onFocus} /\ editing /\ Edit(key)
       /\ held' = (IF key = "left" /\ Len(text) = 1 THEN held ELSE key) /\ UNCHANGED lit
  \/ ~onFocus /\ key \in Arrows /\ ~editing /\ LoseField /\ UNCHANGED held

FieldKey(key) == lit /\ Handle(key) /\ UNCHANGED onFocus

\* A key is let go of.
KeyUp ==
  /\ lit /\ held # "none" /\ held' = "none"
  /\ UNCHANGED <<text, editing, before, saved, lit, onFocus>>

\* idle hands the key over again, whether or not the field has the focus.
Repeat ==
  /\ held # "none"
  /\ Handle(held) /\ UNCHANGED onFocus

\* The owner.
SetValue(s) ==
  /\ ~editing
  /\ text' = s /\ saved' = s
  /\ UNCHANGED <<editing, before, lit, held, onFocus>>

FieldNext ==
  \/ GiveField
  \/ LoseField /\ UNCHANGED <<held, onFocus>>
  \/ \E key \in FieldKeys : FieldKey(key)
  \/ KeyUp
  \/ Repeat
  \/ \E s \in Texts(1) : SetValue(s)

FieldSpec == FieldInit /\ [][FieldNext]_field

-----------------------------------------------------------------------------
(* Properties.                                                             *)

\* The field shows what is saved, once the entry has been committed or
\* cancelled, whichever way the edition began and ended.
FieldSettled == ~editing => text = saved
=============================================================================
