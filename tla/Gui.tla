-------------------------------- MODULE Gui --------------------------------
(***************************************************************************)
(* raygui, the immediate-mode controls of examples/raylib_2d_example.      *)
(*                                                                         *)
(* A program shows one window: each frame it calls every control of it in  *)
(* order, with the mouse and the keyboard as they are in that frame, and   *)
(* keeps the controls' values between frames.  The calls of a frame share  *)
(* the globals of raygui: its state, its lock, the slider being dragged    *)
(* and the one text cursor.  The program follows the usage of the library: *)
(* `if (control(..., editMode)) editMode = !editMode`.                     *)
(*                                                                         *)
(* Geometry is reduced to which part of which control the mouse is on and  *)
(* its coordinate along it; styles, fonts and drawing change nothing.      *)
(***************************************************************************)
EXTENDS Integers, Sequences, FiniteSets

CONSTANTS
  Windows,     \* bound: the windows, sequences of control kinds
  MaxX,        \* bound: coordinates 0 .. MaxX, the last beyond every slider
  MaxItems,    \* largest number of items of a list, a tab bar, a group, ...
  ItemCounts,  \* bound: the numbers of items the program changes to
  Visible,     \* items or lines a list or scroll panel has room for
  BufferSize,  \* size of the buffer of a text box
  Chars,       \* bound: the characters typed, by the bytes of their UTF-8 form
  IntMax       \* largest int

ASSUME GuiAssumption ==
  /\ MaxX \in Nat \ {0} /\ MaxItems \in Nat \ {0} /\ Visible \in Nat \ {0}
  /\ BufferSize \in Nat \ {0}
  /\ ItemCounts \subseteq 1 .. MaxItems
  /\ Chars \subseteq {1, 2}
  /\ IntMax \in Nat \ {0}
  /\ MaxX <= IntMax /\ MaxItems <= IntMax  \* coordinates and counts are ints
  /\ Windows \subseteq Seq(STRING)

Sliders == {"slider", "alpha", "hue"}
Scrolling == {"list", "scrollpanel"}
Numbers == {"valuebox", "spinner"}
Texts == {"textbox", "inputbox"}
Itemized == {"group", "tabs", "toggleslider", "combo", "dropdown", "list", "scrollpanel"}
\* Kinds that have a second part, and kinds in which the place does not matter.
Sided == {"tabs", "dropdown", "list", "scrollpanel", "spinner", "inputbox"}
Plain == {"button", "labelbutton", "toggle", "checkbox", "toggleslider", "combo",
          "valuebox", "textbox"}
Editable == Numbers \cup Texts \cup {"dropdown"}

VARIABLES
  gui,      \* guiState, guiLocked, guiSliderDragging, guiSliderActive, textBoxCursorIndex
  control,  \* the window: what the program keeps for each control
  input,    \* mouse and keyboard in this frame
  turn,     \* the control called next; past the last one, the frame is complete;
            \* 0, the program has prepared the next
  result,   \* what the last call returned
  fault     \* a text box wrote outside its buffer or stands inside a character

guiVars == <<gui, control, input, turn, result, fault>>

\* An empty value of a control, and the calm before the first frame.
NewControl(kind) ==
  [kind |-> kind, active |-> 0, scroll |-> 0, items |-> MaxItems, text |-> <<>>,
   edit |-> FALSE, secret |-> FALSE]
NoInput == [control |-> 0, part |-> "body", x |-> MaxX, button |-> "up", wheel |-> 0,
            key |-> "none", char |-> 0]

GuiInit ==
  /\ gui = [state |-> "NORMAL", locked |-> FALSE, dragging |-> FALSE, active |-> 0,
            cursor |-> 0]
  /\ \E w \in Windows : control = [c \in DOMAIN w |-> NewControl(w[c])]
  /\ input = NoInput
  /\ turn = 0
  /\ result = FALSE
  /\ fault = "no"

-----------------------------------------------------------------------------
(* Mouse *)

IsMouseButtonDown == input.button \in {"pressed", "held"}
IsMouseButtonPressed == input.button = "pressed"
IsMouseButtonReleased == input.button = "released"

Inside(c) == input.control = c
On(c, part) == Inside(c) /\ input.part = part

\* The mouse is listened to: by every control, and by those that are not to
\* interfere with a slider being dragged.
Enabled == gui.state # "DISABLED" /\ ~gui.locked
Free == Enabled /\ ~gui.dragging

Clicked(c) == Free /\ Inside(c) /\ IsMouseButtonReleased

Clip(v, max) == IF v < 0 THEN 0 ELSE IF v > max THEN max ELSE v

-----------------------------------------------------------------------------
(* A call of the control whose turn it is *)

Call(c, kind) ==
  /\ turn = c
  /\ fault = "no"
  /\ control[c].kind = kind
  /\ turn' = c + 1
  /\ input' = IF c = Len(control) THEN [NoInput EXCEPT !.button = input.button] ELSE input

Returns(c, k, r) ==
  /\ control' = [control EXCEPT ![c] = k]
  /\ result' = r

Active(c, v) == [control[c] EXCEPT !.active = v]

GuiButton(c) ==
  /\ Call(c, "button")
  /\ Returns(c, control[c], Clicked(c))
  /\ UNCHANGED <<gui, fault>>

GuiLabelButton(c) ==
  /\ Call(c, "labelbutton")
  /\ Returns(c, control[c], Clicked(c))
  /\ UNCHANGED <<gui, fault>>

GuiToggle(c) ==
  /\ Call(c, "toggle")
  /\ Returns(c, Active(c, IF Clicked(c) THEN 1 - control[c].active ELSE control[c].active),
             FALSE)
  /\ UNCHANGED <<gui, fault>>

GuiCheckBox(c) ==
  /\ Call(c, "checkbox")
  /\ Returns(c, Active(c, IF Clicked(c) THEN 1 - control[c].active ELSE control[c].active),
             FALSE)
  /\ UNCHANGED <<gui, fault>>

\* A toggle for each item; that of the active item cannot be turned off.
GuiToggleGroup(c) ==
  /\ Call(c, "group")
  /\ LET k == control[c]
     IN  Returns(c, Active(c, IF Clicked(c) /\ input.x < k.items THEN input.x ELSE k.active),
                 FALSE)
  /\ UNCHANGED <<gui, fault>>

\* The same with a close button in each tab: clicking it also turns the tab
\* on.  Returns whether a tab is to be closed.
GuiTabBar(c) ==
  /\ Call(c, "tabs")
  /\ LET k == control[c]
         hit == Clicked(c) /\ input.x < k.items
     IN  Returns(c, Active(c, IF hit THEN input.x ELSE Clip(k.active, k.items - 1)),
                 hit /\ input.part = "side")
  /\ UNCHANGED <<gui, fault>>

\* Does not look at guiSliderDragging.
GuiToggleSlider(c) ==
  /\ Call(c, "toggleslider")
  /\ LET k == control[c]
         hit == Enabled /\ Inside(c) /\ IsMouseButtonReleased
         next == IF hit THEN k.active + 1 ELSE k.active
     IN  Returns(c, Active(c, IF next >= k.items THEN 0 ELSE next), hit)
  /\ UNCHANGED <<gui, fault>>

GuiComboBox(c) ==
  /\ Call(c, "combo")
  /\ LET k == control[c]
         now == Clip(k.active, k.items - 1)
         hit == Free /\ k.items > 1 /\ Inside(c) /\ IsMouseButtonPressed
     IN  Returns(c, Active(c, IF hit THEN (now + 1) % k.items ELSE now), FALSE)
  /\ UNCHANGED <<gui, fault>>

\* An open box listens even when raygui is locked.  Its items, on its side,
\* are there only while it is open.
GuiDropdownBox(c) ==
  /\ Call(c, "dropdown")
  /\ LET k == control[c]
         listens == /\ gui.state # "DISABLED" /\ (k.edit \/ ~gui.locked)
                    /\ k.items > 1 /\ ~gui.dragging
         onItem == On(c, "side") /\ input.x < k.items
         picks == listens /\ k.edit /\ onItem /\ IsMouseButtonReleased
         r == \/ picks
              \/ listens /\ On(c, "body") /\ IsMouseButtonPressed
              \/ /\ listens /\ k.edit /\ ~On(c, "body") /\ ~onItem
                 /\ IsMouseButtonPressed \/ IsMouseButtonReleased
     IN  Returns(c, [k EXCEPT !.active = IF picks THEN input.x ELSE @, !.edit = (@ # r)], r)
  /\ UNCHANGED <<gui, fault>>

\* Takes the color under the mouse as long as the button is down.
GuiColorPanel(c) ==
  /\ Call(c, "colorpanel")
  /\ Returns(c, Active(c, IF Free /\ Inside(c) /\ IsMouseButtonDown
                            THEN input.x ELSE control[c].active), FALSE)
  /\ UNCHANGED <<gui, fault>>

-----------------------------------------------------------------------------
(* Sliders *)

\* Mutated form: the drag goes on when the button is up.
NeverReleased(c, starts) ==
  IF Enabled /\ ~gui.dragging /\ starts
    THEN [gui EXCEPT !.dragging = TRUE, !.active = c]
    ELSE gui

\* Mutated form: the slider that was dragged stays the active one.
StaysActive(c, starts) ==
  CASE Enabled /\ gui.dragging /\ ~IsMouseButtonDown -> [gui EXCEPT !.dragging = FALSE]
    [] Enabled /\ ~gui.dragging /\ starts -> [gui EXCEPT !.dragging = TRUE, !.active = c]
    [] OTHER -> gui

\* Any slider ends a drag it finds with the button up; the one that the
\* mouse is on begins one.
Dragged(c, starts) ==
  CASE Enabled /\ gui.dragging /\ ~IsMouseButtonDown ->
         [gui EXCEPT !.dragging = FALSE, !.active = 0]
    [] Enabled /\ ~gui.dragging /\ starts -> [gui EXCEPT !.dragging = TRUE, !.active = c]
    [] OTHER -> gui

\* Mutated form: follows the mouse whichever slider is dragged.
FollowsAny(c) == Enabled /\ IsMouseButtonDown /\ (gui.dragging \/ Inside(c))

Follows(c) ==
  /\ Enabled /\ IsMouseButtonDown
  /\ IF gui.dragging THEN gui.active = c ELSE Inside(c)

Slid(c) ==
  /\ Returns(c, Active(c, IF Follows(c) THEN Clip(input.x, MaxX - 1) ELSE control[c].active),
             FALSE)
  /\ gui' = Dragged(c, Inside(c) /\ IsMouseButtonDown)
  /\ UNCHANGED fault

GuiSliderPro(c) == Call(c, "slider") /\ Slid(c)
GuiColorBarAlpha(c) == Call(c, "alpha") /\ Slid(c)
GuiColorBarHue(c) == Call(c, "hue") /\ Slid(c)

\* GuiScrollBar, on the side of its control, without arrow buttons as in the
\* default style: the value it returns for v.
Scrolled(c, v, max) ==
  LET n == Clip(v, max) IN
  CASE Enabled /\ gui.dragging /\ IsMouseButtonDown /\ gui.active = c -> Clip(input.x, max)
    [] Free /\ On(c, "side") ->
         Clip(IF IsMouseButtonPressed /\ input.x # n THEN input.x ELSE n + input.wheel, max)
    [] OTHER -> n

\* A list too long for its bounds has a scroll bar.
UsesBar(k) == k.items > Visible
LastStart(k) == IF UsesBar(k) THEN k.items - Visible ELSE 0

Bar(c) == gui' = IF UsesBar(control[c])
                   THEN Dragged(c, On(c, "side") /\ IsMouseButtonPressed) ELSE gui

StartIndex(k) == IF k.scroll > LastStart(k) THEN 0 ELSE k.scroll

\* The wheel moves the list; over its scroll bar, it moves that one back.
GuiListView(c) ==
  /\ Call(c, "list")
  /\ LET k == control[c]
         start == StartIndex(k)
         row == start + input.x
         hit == /\ Free /\ On(c, "body") /\ IsMouseButtonPressed
                /\ input.x < Visible /\ row < k.items
         rolled == IF Free /\ Inside(c) /\ UsesBar(k)
                     THEN Clip(start - input.wheel, LastStart(k)) ELSE start
     IN  Returns(c, [k EXCEPT !.active = IF ~hit THEN @ ELSE IF @ = row THEN -1 ELSE row,
                              !.scroll = IF UsesBar(k) THEN Scrolled(c, rolled, LastStart(k))
                                         ELSE rolled], FALSE)
  /\ Bar(c)
  /\ UNCHANGED fault

\* The wheel moves a panel by several lines, even while a slider is dragged.
GuiScrollPanel(c) ==
  /\ Call(c, "scrollpanel")
  /\ LET k == control[c]
         rolled == Clip(IF Enabled /\ Inside(c) THEN k.scroll - 2 * input.wheel ELSE k.scroll,
                        LastStart(k))
     IN  Returns(c, [k EXCEPT !.scroll = Scrolled(c, rolled, LastStart(k))], FALSE)
  /\ Bar(c)
  /\ UNCHANGED fault

-----------------------------------------------------------------------------
(* Numbers *)

\* TextToInteger of a decimal: beyond the range of int, anything.
Parsed(n) == IF n \in -IntMax .. IntMax THEN {n} ELSE {-IntMax, IntMax}

Digits(n) == IF n < 0 THEN -((-n) \div 10) ELSE n \div 10

\* The box of GuiValueBox is its body.  The one-byte
\* character is the digit 9, written behind the number.
Typed(n) ==
  LET erases == input.key = "backspace" IN
  IF input.char = 1
    THEN IF erases THEN {n} ELSE Parsed(10 * n + (IF n < 0 THEN -9 ELSE 9))
    ELSE {IF erases THEN Digits(n) ELSE n}

\* Mutated form: ends editing only on ENTER.
NotOnClick(c, k) == Free /\ IF k.edit THEN input.key = "enter"
                             ELSE On(c, "body") /\ IsMouseButtonPressed

\* Editing begins with a click on the box and ends with one elsewhere, or
\* with ENTER.
Ended(c, k) ==
  Free /\ IF k.edit THEN input.key = "enter" \/ (~On(c, "body") /\ IsMouseButtonPressed)
          ELSE On(c, "body") /\ IsMouseButtonPressed

Clamped(k, n) == IF k.edit THEN n ELSE Clip(n, MaxItems)

Boxed(c, k, n) ==
  /\ \E m \in IF Free /\ k.edit THEN Typed(n) ELSE {IF Free THEN Clamped(k, n) ELSE n} :
       Returns(c, [k EXCEPT !.active = m, !.edit = (@ # Ended(c, k))], Ended(c, k))
  /\ UNCHANGED <<gui, fault>>

GuiValueBox(c) == Call(c, "valuebox") /\ Boxed(c, control[c], control[c].active)

\* Its two buttons are on its side.
GuiSpinner(c) ==
  /\ Call(c, "spinner")
  /\ LET k == control[c]
         pushed == Clicked(c) /\ input.part = "side"
         step == IF ~pushed THEN 0 ELSE IF input.x = 0 THEN -1 ELSE 1
     IN  \E n \in Parsed(k.active + step) : Boxed(c, k, Clamped(k, n))

-----------------------------------------------------------------------------
(* Text: a sequence of bytes, 1 for a character of one byte, 2 and 0 for one *)
(* of two; the cursor is a number of bytes.                                *)

\* CodepointToUTF8, where no character (0) is one of one byte.
CodepointSize == IF input.char = 2 THEN 2 ELSE 1
Encoded == IF input.char = 2 THEN <<2, 0>> ELSE <<1>>

\* GetCodepointNext and GetCodepointPrevious.  Before the text there may be
\* a byte that is not 0.
SizeAt(t, i) == IF i < Len(t) /\ t[i + 1] = 2 THEN 2 ELSE 1
SizesBefore(t, i) == IF i = 0 THEN {0, 1} ELSE IF t[i] = 1 THEN {1} ELSE {2}

Edited(t, i) == [text |-> t, cursor |-> i, fault |-> "no"]
Outside == [text |-> <<>>, cursor |-> 0, fault |-> "outside"]

\* Mutated form: leaves no room for the terminating 0.
InsertFull(t, i) ==
  IF input.char > 0 /\ Len(t) + CodepointSize <= BufferSize
    THEN Edited(SubSeq(t, 1, i) \o Encoded \o SubSeq(t, i + 1, Len(t)), i + CodepointSize)
    ELSE Edited(t, i)

InsertCodepoint(t, i) ==
  IF input.char > 0 /\ Len(t) + CodepointSize < BufferSize
    THEN Edited(SubSeq(t, 1, i) \o Encoded \o SubSeq(t, i + 1, Len(t)), i + CodepointSize)
    ELSE Edited(t, i)

\* The n bytes behind the first i are taken out.  The text is then ended as
\* if the character typed in this frame had been taken out instead.
Erased(t, i, n, cursor) ==
  LET rest == SubSeq(t, 1, i) \o SubSeq(t, i + n + 1, Len(t))
      length == Len(t) - CodepointSize
  IN  IF length < 0 \/ cursor < 0 THEN Outside
      ELSE Edited(SubSeq(rest, 1, IF Len(rest) < length THEN Len(rest) ELSE length), cursor)

DeleteNext(t, i) ==
  IF i < Len(t) THEN Erased(t, i, SizeAt(t, i), i) ELSE Edited(t, i)

\* At the start of the text the byte before it is the one to go.
Backspace(t, i) ==
  {IF i > 0 THEN Erased(t, i - n, n, i - CodepointSize)
   ELSE IF n = 0 \/ t = <<>> THEN Edited(t, i) ELSE Outside : n \in SizesBefore(t, i)}

MoveLeft(t, i) == {Edited(t, IF i >= n THEN i - n ELSE i) : n \in SizesBefore(t, i)}

\* Mutated form: moves by one byte.
MoveByte(t, i) == Edited(t, IF i + 1 <= Len(t) THEN i + 1 ELSE i)

MoveRight(t, i) ==
  Edited(t, IF i + SizeAt(t, i) <= Len(t) THEN i + SizeAt(t, i) ELSE i)

Keyed(t, i) ==
  CASE input.key = "home" -> {Edited(t, 0)}
    [] input.key = "end" -> {Edited(t, Len(t))}
    [] input.key = "delete" -> {DeleteNext(t, i)}
    [] input.key = "backspace" -> Backspace(t, i)
    [] input.key = "left" -> MoveLeft(t, i)
    [] input.key = "right" -> {MoveRight(t, i)}
    [] OTHER -> {Edited(t, i)}

\* A click puts the cursor at any byte.
Placed(c, e) ==
  IF On(c, "body") /\ IsMouseButtonPressed
    THEN {[e EXCEPT !.cursor = i] : i \in 0 .. Len(e.text)} ELSE {e}

\* What a text box makes of its text; length is that of what it shows.
TextBox(c, k, length) ==
  IF Free /\ k.edit
    THEN LET typed == InsertCodepoint(k.text, Clip(gui.cursor, Len(k.text)))
         IN  UNION {Placed(c, e) : e \in Keyed(typed.text, typed.cursor)}
    ELSE {Edited(k.text, IF Ended(c, k) THEN length ELSE gui.cursor)}

\* A position between two bytes of a character, and a text of whole ones.
InsideCharacter(t, i) == i < Len(t) /\ t[i + 1] = 0
Whole(t) == \A i \in 0 .. Len(t) : (i > 0 /\ t[i] = 2) <=> InsideCharacter(t, i)

\* Stands inside a character, or is left with a part of one.
Broken(e) == InsideCharacter(e.text, e.cursor) \/ ~Whole(e.text)

\* The globals and the text after e; ending the editing resets the cursor.
Edits(c, k, e) ==
  /\ gui' = [gui EXCEPT !.cursor = IF k.edit /\ Ended(c, k) THEN 0 ELSE e.cursor]
  /\ fault' = IF k.edit /\ e.fault = "no" /\ Broken(e) THEN "inside" ELSE e.fault

GuiTextBox(c) ==
  /\ Call(c, "textbox")
  /\ LET k == control[c] IN
       \E e \in TextBox(c, k, Len(k.text)) :
         /\ Returns(c, [k EXCEPT !.text = e.text, !.edit = (@ # Ended(c, k))], Ended(c, k))
         /\ Edits(c, k, e)

Stars == 16

\* A dialog: on its side it has a close button, the toggle of its secret
\* view and a button.  The text is shown as stars unless it is edited or
\* the view is on.  An answer ends the editing, but leaves the cursor.
GuiTextInputBox(c) ==
  /\ Call(c, "inputbox")
  /\ LET k == control[c]
         answered == Clicked(c) /\ input.part = "side" /\ input.x # 1
         flips == Clicked(c) /\ input.part = "side" /\ input.x = 1
     IN  \E e \in TextBox(c, k, IF k.secret THEN Len(k.text) ELSE Stars) :
           /\ Returns(c, [k EXCEPT !.text = e.text, !.secret = (@ # flips),
                            !.edit = (@ # Ended(c, k)) /\ ~answered], answered)
           /\ Edits(c, k, e)

-----------------------------------------------------------------------------
(* The program, between frames *)

Between == turn \in {0, Len(control) + 1} /\ fault = "no"

Sets(g) ==
  /\ Between
  /\ gui' = g
  /\ turn' = 0
  /\ UNCHANGED <<control, input, result, fault>>

GuiLock == ~gui.locked /\ Sets([gui EXCEPT !.locked = TRUE])
GuiUnlock == gui.locked /\ Sets([gui EXCEPT !.locked = FALSE])
GuiDisable == gui.state = "NORMAL" /\ Sets([gui EXCEPT !.state = "DISABLED"])
GuiEnable == gui.state = "DISABLED" /\ Sets([gui EXCEPT !.state = "NORMAL"])

\* The program has another number of items to show.
SetItems(c, n) ==
  /\ Between
  /\ control[c].kind \in Itemized
  /\ control[c].items # n
  /\ control' = [control EXCEPT ![c].items = n]
  /\ turn' = 0
  /\ UNCHANGED <<gui, input, result, fault>>

\* The mouse button goes down and up, the keyboard is used while the mouse
\* is on no control and some control is edited.
Editing == {c \in DOMAIN control : control[c].edit}
Keys == {"none", "enter", "backspace"} \cup
          IF \E c \in Editing : control[c].kind \in Texts
            THEN {"delete", "left", "right", "home", "end"} ELSE {}
Buttons == IF IsMouseButtonDown THEN {"held", "released"} ELSE {"up", "pressed"}
Wheel == IF \E c \in DOMAIN control : control[c].kind \in Scrolling THEN -1 .. 1 ELSE {0}

Parts(c) == IF c # 0 /\ control[c].kind \in Sided THEN {"body", "side"} ELSE {"body"}
Coordinates(c) == IF c # 0 /\ control[c].kind \in Plain THEN {0} ELSE 0 .. MaxX

NextFrame ==
  /\ Between
  /\ turn' = 1
  /\ result' = FALSE
  /\ \E b \in Buttons, w \in Wheel, c \in 0 .. Len(control) :
       \E p \in Parts(c), x \in Coordinates(c) :
         \E k \in IF c = 0 /\ Editing # {} THEN Keys ELSE {"none"},
            h \in IF c = 0 /\ Editing # {} THEN Chars \cup {0} ELSE {0} :
           input' = [control |-> c, part |-> p, x |-> x, button |-> b, wheel |-> w,
                     key |-> k, char |-> h]
  /\ UNCHANGED <<gui, control, fault>>

GuiCall(c) ==
  \/ GuiButton(c) \/ GuiLabelButton(c) \/ GuiToggle(c) \/ GuiCheckBox(c)
  \/ GuiToggleGroup(c) \/ GuiTabBar(c) \/ GuiToggleSlider(c)
  \/ GuiComboBox(c) \/ GuiDropdownBox(c) \/ GuiColorPanel(c)
  \/ GuiSliderPro(c) \/ GuiColorBarAlpha(c) \/ GuiColorBarHue(c)
  \/ GuiListView(c) \/ GuiScrollPanel(c) \/ GuiValueBox(c) \/ GuiSpinner(c)
  \/ GuiTextBox(c) \/ GuiTextInputBox(c)

GuiNext ==
  \/ NextFrame
  \/ GuiLock \/ GuiUnlock \/ GuiDisable \/ GuiEnable
  \/ \E c \in DOMAIN control : GuiCall(c) \/ \E n \in ItemCounts : SetItems(c, n)

GuiSpec == GuiInit /\ [][GuiNext]_guiVars

-----------------------------------------------------------------------------
FrameDone == turn = Len(control) + 1

\* What a list has just drawn are items it has, also when it got shorter.
GuiTypeOK ==
  /\ gui \in [state : {"NORMAL", "DISABLED"}, locked : BOOLEAN, dragging : BOOLEAN,
              active : 0 .. Len(control), cursor : Nat]
  /\ gui.dragging <=> gui.active # 0
  /\ \A c \in DOMAIN control :
       LET k == control[c] IN
       /\ k.active \in -IntMax .. IntMax
       /\ k.active = -1 => k.kind \in Numbers \cup {"list"}
       /\ k.scroll \in 0 .. MaxItems /\ k.items \in 1 .. MaxItems
       /\ k.kind = "list" /\ turn = c + 1 => k.scroll \in 0 .. LastStart(k)
       /\ k.text \in Seq(0 .. 2)
       /\ k.edit \in BOOLEAN /\ k.secret \in BOOLEAN
       /\ k.edit => k.kind \in Editable
  /\ turn \in 0 .. Len(control) + 1
  /\ result \in BOOLEAN
  /\ fault \in {"no", "outside", "inside"}

\* A text never fills its buffer: there is room for the 0 that ends it.
TextFits ==
  \A c \in DOMAIN control : control[c].kind \in Texts => Len(control[c].text) < BufferSize

\* The cursor is one for all text boxes because no two of them, or of the
\* number boxes, are edited in the same frame: a click on one ends the
\* editing of the other, also when raygui is locked or a slider dragged.
OneEditing == FrameDone => Cardinality({c \in Editing : control[c].kind # "dropdown"}) <= 1

\* A frame with the button up ends the drag, if a slider is there to end it.
HasSlider ==
  \E c \in DOMAIN control : \/ control[c].kind \in Sliders
                            \/ control[c].kind \in Scrolling /\ UsesBar(control[c])
DragEnds ==
  FrameDone /\ Enabled /\ ~IsMouseButtonDown /\ HasSlider => ~gui.dragging

\* While a slider is dragged nothing else moves or answers, but for what a
\* change of its items makes stale, and a scroll panel under the wheel.
Stale(k) ==
  \/ k.kind \in Itemized /\ k.active >= k.items
  \/ k.kind \in Scrolling /\ k.scroll > LastStart(k)
  \/ k.kind \in Numbers /\ Clip(k.active, MaxItems) # k.active
DragExclusive ==
  [][\A c \in DOMAIN control :
       turn = c /\ gui.dragging /\ IsMouseButtonDown /\ gui.active # c =>
         \/ control'[c] = control[c] /\ ~result'
         \/ Stale(control[c]) \/ control[c].kind = "scrollpanel"]_guiVars

\* Typing and the arrow keys leave the cursor between whole characters: only
\* an erasure, which mistakes the size, or a click gets it inside one, or a
\* dialog that was clicked while it showed its text as stars.
TypingKeepsWhole ==
  [][fault' = "inside" =>
       \/ fault = "inside"
       \/ input.key \in {"delete", "backspace"}
       \/ input.button = "pressed"
       \/ gui.cursor = Stars /\ control[turn].kind = "inputbox"]_guiVars
=============================================================================
