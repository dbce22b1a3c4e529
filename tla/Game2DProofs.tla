---------------------------- MODULE Game2DProofs ----------------------------
(***************************************************************************)
(* Proofs about Gui, the controls of raygui, and about the 2D game as a    *)
(* whole: its types, that texts fit their buffers, that one box is edited  *)
(* at a time, that drags end, that a drag leaves the others alone, and     *)
(* that typing keeps characters whole.                                     *)
(*                                                                         *)
(* At the end of a frame the properties are not inductive: the controls    *)
(* are called one by one, and each sees only itself and the globals.       *)
(* GuiInv says what holds between two calls of a frame.  Two boxes may be  *)
(* edited there, but only if the first has just taken over by a click and  *)
(* the other is still to be called, which ends its editing (OneOrTaken,    *)
(* TakenOver); a drag may have outlived the button, but only if no control *)
(* called so far was one that ends it (Ending).                            *)
(*                                                                         *)
(* Called(c) is all that these proofs need to know of a call.  Each of the *)
(* controls is shown to be called that way.                                *)
(***************************************************************************)
EXTENDS MCGame2D, GameServerProofs, SequenceTheorems, FiniteSetTheorems

Boxes == Numbers \cup Texts

\* Controls with a slider or a scroll bar, which begin and end drags.
Slides(k) == k.kind \in Sliders \/ (k.kind \in Scrolling /\ UsesBar(k))

Control == [kind : STRING, active : -IntMax .. IntMax, scroll : 0 .. MaxItems,
            items : 1 .. MaxItems, text : Seq(0 .. 2), edit : BOOLEAN, secret : BOOLEAN]

\* What the program keeps for a control makes sense for its kind.
Right(k) ==
  /\ k \in Control
  /\ k.kind \notin Numbers \cup {"list"} => k.active >= 0
  /\ k.kind = "list" => k.active >= -1
  /\ k.kind \in {"toggle", "checkbox"} => k.active <= 1
  /\ k.edit => k.kind \in Editable
  /\ k.kind \in Texts => Len(k.text) < BufferSize

\* The globals, for a window of n controls.
Globals(n) == {g \in [state : {"NORMAL", "DISABLED"}, locked : BOOLEAN, dragging : BOOLEAN,
                      active : 0 .. n, cursor : Nat] : g.dragging <=> g.active # 0}

InputRecord ==
  [control : Nat, part : {"body", "side"}, x : 0 .. MaxX,
   button : {"up", "pressed", "held", "released"}, wheel : -1 .. 1,
   key : {"none", "enter", "backspace", "delete", "left", "right", "home", "end"}, char : 0 .. 2]

GuiShape ==
  /\ gui \in Globals(Len(control))
  /\ control \in Seq(Control)
  /\ \A c \in DOMAIN control : Right(control[c])
  /\ input \in InputRecord
  /\ turn \in 0 .. Len(control) + 1
  /\ result \in BOOLEAN
  /\ fault \in {"no", "outside", "inside"}

\* A list that was just drawn shows items that it has.
Shown ==
  \A c \in DOMAIN control :
    control[c].kind = "list" /\ turn = c + 1 => control[c].scroll <= LastStart(control[c])

\* In the rest of a frame, after a click on one box, another that comes later
\* may still be edited; those that came before are no more.
EditedBoxes == {c \in DOMAIN control : control[c].edit /\ control[c].kind \in Boxes}
Presses(b) ==
  Free /\ On(b, "body") /\ IsMouseButtonPressed /\ b \in DOMAIN control /\ control[b].kind \in Boxes
OneOrTaken == \A c, d \in EditedBoxes : c < d => Presses(c) /\ c < turn /\ turn <= d
TakenOver == \A b \in DOMAIN control : \A c \in EditedBoxes : Presses(b) /\ c < turn => c = b

\* With the button up, a drag has survived only controls that end none.
Ending ==
  Enabled /\ ~IsMouseButtonDown /\ gui.dragging =>
    \A c \in DOMAIN control : c < turn => ~Slides(control[c])

GuiInv == GuiShape /\ Shown /\ OneOrTaken /\ TakenOver /\ Ending

-----------------------------------------------------------------------------
(* What a call does, whatever the control *)

\* The globals: a slider may begin or end a drag, others at most move the cursor.
GuiStep(c) ==
  \/ ~Slides(control[c]) /\ \E n \in Nat : gui' = [gui EXCEPT !.cursor = n]
  \/ /\ Slides(control[c])
     /\ \E starts \in BOOLEAN : /\ starts => Inside(c) /\ IsMouseButtonDown
                                /\ gui' = Dragged(c, starts)

\* The control becomes k.
Becomes(c, k) ==
  /\ control' = [control EXCEPT ![c] = k]
  /\ Right(k)
  /\ k.kind = control[c].kind /\ k.items = control[c].items
  /\ k.kind = "list" => k.scroll <= LastStart(k)
  /\ k.kind \in Boxes /\ k.edit => IF control[c].edit THEN ~Ended(c, control[c])
                                    ELSE Ended(c, control[c])

\* While another slider is dragged it stays as it is.
Undisturbed(c, k) ==
  gui.dragging /\ IsMouseButtonDown /\ gui.active # c =>
    \/ k = control[c] /\ ~result'
    \/ Stale(control[c]) \/ control[c].kind = "scrollpanel"

Called(c) ==
  /\ GuiStep(c)
  /\ \E k : Becomes(c, k) /\ Undisturbed(c, k)
  /\ result' \in BOOLEAN
  /\ fault' \in {"no", "outside", "inside"}

\* The globals after a call.
LEMMA CursorMoved ==
  ASSUME NEW n \in Nat, NEW g \in Globals(n), NEW m \in Nat, NEW h, h = [g EXCEPT !.cursor = m]
  PROVE  /\ h \in Globals(n) /\ h.state = g.state /\ h.locked = g.locked
         /\ h.dragging = g.dragging /\ h.active = g.active /\ h.cursor = m
<1>1. /\ g \in [state : {"NORMAL", "DISABLED"}, locked : BOOLEAN, dragging : BOOLEAN,
                active : 0 .. n, cursor : Nat]
      /\ g.dragging <=> g.active # 0
  BY DEF Globals
<1>2. /\ h \in [state : {"NORMAL", "DISABLED"}, locked : BOOLEAN, dragging : BOOLEAN,
                active : 0 .. n, cursor : Nat]
      /\ h.state = g.state /\ h.locked = g.locked
      /\ h.dragging = g.dragging /\ h.active = g.active /\ h.cursor = m
  BY <1>1
<1> QED BY <1>1, <1>2 DEF Globals

LEMMA DragEnded ==
  ASSUME NEW n \in Nat, NEW g \in Globals(n), NEW h,
         h = [g EXCEPT !.dragging = FALSE, !.active = 0]
  PROVE  /\ h \in Globals(n) /\ h.state = g.state /\ h.locked = g.locked
         /\ ~h.dragging
<1>1. g \in [state : {"NORMAL", "DISABLED"}, locked : BOOLEAN, dragging : BOOLEAN,
             active : 0 .. n, cursor : Nat]
  BY DEF Globals
<1>2. /\ g.state \in {"NORMAL", "DISABLED"} /\ g.locked \in BOOLEAN /\ g.cursor \in Nat
      /\ 0 \in 0 .. n /\ FALSE \in BOOLEAN
  BY <1>1
<1>3. h = [state |-> g.state, locked |-> g.locked, dragging |-> FALSE, active |-> 0,
           cursor |-> g.cursor]
  BY <1>1
<1>4. h \in [state : {"NORMAL", "DISABLED"}, locked : BOOLEAN, dragging : BOOLEAN,
             active : 0 .. n, cursor : Nat]
  BY <1>2, <1>3
<1>5. h.state = g.state /\ h.locked = g.locked /\ (h.dragging <=> FALSE) /\ h.active = 0
  BY <1>3
<1>6. h.dragging <=> h.active # 0
  BY <1>5
<1> QED BY <1>4, <1>5, <1>6 DEF Globals

Begun(g, c) == [g EXCEPT !.dragging = TRUE, !.active = c]

LEMMA DragBegun ==
  ASSUME NEW n \in Nat, NEW g \in Globals(n), NEW c \in 1 .. n
  PROVE  /\ Begun(g, c) \in Globals(n) /\ Begun(g, c).dragging = TRUE
         /\ Begun(g, c).state = g.state /\ Begun(g, c).locked = g.locked
<1> SUFFICES ASSUME NEW h, h = Begun(g, c)
             PROVE  /\ h \in Globals(n) /\ h.dragging = TRUE
                    /\ h.state = g.state /\ h.locked = g.locked
  OBVIOUS
<1>1. g \in [state : {"NORMAL", "DISABLED"}, locked : BOOLEAN, dragging : BOOLEAN,
             active : 0 .. n, cursor : Nat]
  BY DEF Globals
<1>2. /\ g.state \in {"NORMAL", "DISABLED"} /\ g.locked \in BOOLEAN /\ g.cursor \in Nat
      /\ c \in 0 .. n /\ TRUE \in BOOLEAN
  BY <1>1
<1>3. h = [state |-> g.state, locked |-> g.locked, dragging |-> TRUE, active |-> c,
           cursor |-> g.cursor]
  BY <1>1 DEF Begun
<1>4. h \in [state : {"NORMAL", "DISABLED"}, locked : BOOLEAN, dragging : BOOLEAN,
             active : 0 .. n, cursor : Nat]
  BY <1>2, <1>3
<1>5. h.state = g.state /\ h.locked = g.locked /\ h.dragging = TRUE /\ h.active = c
  BY <1>3
<1>6. h.dragging <=> h.active # 0
  BY <1>5
<1>7. h \in Globals(n)
  BY <1>4, <1>6 DEF Globals
<1> QED BY <1>5, <1>7

LEMMA GuiAfter ==
  ASSUME GuiShape, NEW c \in DOMAIN control, GuiStep(c)
  PROVE  /\ gui' \in Globals(Len(control))
         /\ gui'.state = gui.state /\ gui'.locked = gui.locked
         /\ Enabled /\ ~IsMouseButtonDown /\ Slides(control[c]) => ~gui'.dragging
         /\ ~IsMouseButtonDown /\ gui'.dragging => gui.dragging
         /\ IsMouseButtonDown /\ (Slides(control[c]) => ~Inside(c)) => gui'.dragging = gui.dragging
<1>1. Len(control) \in Nat /\ gui \in Globals(Len(control)) /\ c \in 1 .. Len(control)
  BY DEF GuiShape
<1>2. CASE ~Slides(control[c]) /\ \E n \in Nat : gui' = [gui EXCEPT !.cursor = n]
  <2>1. PICK n \in Nat : gui' = [gui EXCEPT !.cursor = n]
    BY <1>2
  <2> QED BY <1>1, <1>2, <2>1, CursorMoved
<1>3. ASSUME NEW starts \in BOOLEAN, starts => Inside(c) /\ IsMouseButtonDown,
             gui' = Dragged(c, starts), Slides(control[c])
      PROVE  /\ gui' \in Globals(Len(control))
             /\ gui'.state = gui.state /\ gui'.locked = gui.locked
             /\ Enabled /\ ~IsMouseButtonDown => ~gui'.dragging
             /\ ~IsMouseButtonDown /\ gui'.dragging => gui.dragging
             /\ IsMouseButtonDown /\ ~Inside(c) => gui'.dragging = gui.dragging
  <2>1. CASE Enabled /\ gui.dragging /\ ~IsMouseButtonDown
    <3>1. gui' = [gui EXCEPT !.dragging = FALSE, !.active = 0]
      BY <1>3, <2>1 DEF Dragged
    <3>2. /\ gui' \in Globals(Len(control)) /\ ~gui'.dragging
          /\ gui'.state = gui.state /\ gui'.locked = gui.locked
      BY <1>1, <3>1, DragEnded
    <3> QED BY <2>1, <3>2
  <2>2. CASE Enabled /\ ~gui.dragging /\ starts
    <3>1. gui' = [gui EXCEPT !.dragging = TRUE, !.active = c]
      BY <1>3, <2>2 DEF Dragged
    <3>2. /\ gui' \in Globals(Len(control)) /\ gui'.dragging = TRUE
          /\ gui'.state = gui.state /\ gui'.locked = gui.locked
      <4>1. gui' = Begun(gui, c)
        BY <3>1 DEF Begun
      <4>2. /\ gui \in Globals(Len(control)) /\ c \in 1 .. Len(control)
            /\ Len(control) \in Nat
        BY <1>1
      <4>3. /\ Begun(gui, c) \in Globals(Len(control)) /\ Begun(gui, c).dragging = TRUE
            /\ Begun(gui, c).state = gui.state /\ Begun(gui, c).locked = gui.locked
        BY <4>2, DragBegun
      <4> QED BY <4>1, <4>3
    <3> QED BY <1>3, <2>2, <3>2
  <2>3. CASE /\ ~(Enabled /\ gui.dragging /\ ~IsMouseButtonDown)
             /\ ~(Enabled /\ ~gui.dragging /\ starts)
    <3>1. gui' = gui
      BY <1>3, <2>3 DEF Dragged
    <3> QED BY <1>1, <2>3, <3>1
  <2> QED BY <2>1, <2>2, <2>3
<1> QED BY <1>2, <1>3 DEF GuiStep

\* The window after a call.
LEMMA WindowAfter ==
  ASSUME control \in Seq(Control), NEW c \in DOMAIN control, NEW k, Becomes(c, k)
  PROVE  /\ control' \in Seq(Control) /\ Len(control') = Len(control)
         /\ DOMAIN control' = DOMAIN control /\ DOMAIN control = 1 .. Len(control)
         /\ Len(control) \in Nat
         /\ control'[c] = k /\ \A d \in DOMAIN control : d # c => control'[d] = control[d]
BY DEF Becomes, Right

LEMMA CalledShape ==
  ASSUME GuiInv, NEW c \in DOMAIN control, Call(c, control[c].kind), Called(c)
  PROVE  GuiShape' /\ Shown'
<1>1. PICK k : Becomes(c, k)
  BY DEF Called
<1>2. control \in Seq(Control) /\ GuiShape
  BY DEF GuiInv, GuiShape
<1>3. /\ control' \in Seq(Control) /\ Len(control') = Len(control)
      /\ DOMAIN control' = DOMAIN control /\ DOMAIN control = 1 .. Len(control)
      /\ Len(control) \in Nat
      /\ control'[c] = k /\ \A d \in DOMAIN control : d # c => control'[d] = control[d]
  BY <1>1, <1>2, WindowAfter
<1>4. \A d \in DOMAIN control' : Right(control'[d])
  BY <1>1, <1>2, <1>3 DEF Becomes, GuiShape
<1>5. gui' \in Globals(Len(control'))
  BY <1>2, <1>3, GuiAfter DEF Called
<1>6. turn' = c + 1 /\ turn' \in 0 .. Len(control') + 1
  BY <1>3 DEF Call
<1>7. input' \in InputRecord
  <2>1. input \in InputRecord
    BY <1>2 DEF GuiShape
  <2>2. [NoInput EXCEPT !.button = input.button] \in InputRecord
    <3> DEFINE b == input.button
    <3>1. b \in {"up", "pressed", "held", "released"}
      BY <2>1 DEF InputRecord
    <3> HIDE DEF b
    <3>2. [NoInput EXCEPT !.button = b] =
            [control |-> 0, part |-> "body", x |-> MaxX, button |-> b, wheel |-> 0,
             key |-> "none", char |-> 0]
      BY DEF NoInput
    <3>3. MaxX \in 0 .. MaxX /\ 0 \in -1 .. 1 /\ 0 \in 0 .. 2 /\ 0 \in Nat
      BY GuiAssumption
    <3>4. [control |-> 0, part |-> "body", x |-> MaxX, button |-> b, wheel |-> 0,
           key |-> "none", char |-> 0] \in InputRecord
      BY <3>1, <3>3 DEF InputRecord
    <3> QED BY <3>2, <3>4 DEF b
  <2> QED BY <2>1, <2>2 DEF Call
<1>8. result' \in BOOLEAN /\ fault' \in {"no", "outside", "inside"}
  BY DEF Called
<1>9. GuiShape'
  BY <1>3, <1>4, <1>5, <1>6, <1>7, <1>8 DEF GuiShape
<1>10. Shown'
  <2> SUFFICES ASSUME NEW d \in DOMAIN control', control'[d].kind = "list", turn' = d + 1
               PROVE  control'[d].scroll <= LastStart(control'[d])
    BY DEF Shown, LastStart, UsesBar
  <2>1. d = c
    BY <1>3, <1>6
  <2> QED BY <1>1, <1>3, <2>1 DEF Becomes
<1> QED BY <1>9, <1>10

\* The button and, but for the last control, the rest of the input stay.
LEMMA InputAfter ==
  ASSUME GuiShape, NEW c \in DOMAIN control, Call(c, control[c].kind)
  PROVE  /\ input'.button = input.button
         /\ input'.control # 0 => input' = input
         /\ c # Len(control) => input' = input
<1>1. /\ input' = IF c = Len(control) THEN [NoInput EXCEPT !.button = input.button] ELSE input
  BY DEF Call
<1>2. [NoInput EXCEPT !.button = input.button].button = input.button
  BY DEF NoInput
<1>3. [NoInput EXCEPT !.button = input.button].control = 0
  BY DEF NoInput
<1> QED BY <1>1, <1>2, <1>3

LEMMA CalledEnding ==
  ASSUME GuiInv, NEW c \in DOMAIN control, Call(c, control[c].kind), Called(c)
  PROVE  Ending'
<1> SUFFICES ASSUME Enabled', ~IsMouseButtonDown', gui'.dragging,
                    NEW d \in DOMAIN control', d < turn'
             PROVE  ~Slides(control'[d])
  BY DEF Ending, Slides, UsesBar, Enabled
<1>1. PICK k : Becomes(c, k)
  BY DEF Called
<1>2. control \in Seq(Control) /\ GuiShape /\ GuiStep(c)
  BY DEF GuiInv, GuiShape, Called
<1>3. /\ DOMAIN control' = DOMAIN control /\ DOMAIN control = 1 .. Len(control)
      /\ Len(control) \in Nat
      /\ control'[c] = k /\ \A e \in DOMAIN control : e # c => control'[e] = control[e]
  BY <1>1, <1>2, WindowAfter
<1>4. ~IsMouseButtonDown
  BY <1>2, InputAfter DEF IsMouseButtonDown
<1>5. Enabled /\ gui.dragging /\ ~Slides(control[c])
  BY <1>2, <1>4, GuiAfter DEF Enabled
<1>6. CASE d = c
  BY <1>1, <1>3, <1>5, <1>6 DEF Becomes, Slides, UsesBar
<1>7. CASE d # c
  <2>1. d < c /\ c = turn
    BY <1>3, <1>7 DEF Call
  <2> QED BY <1>3, <1>4, <1>5, <1>7, <2>1 DEF GuiInv, Ending
<1> QED BY <1>6, <1>7

\* A click on a box stays one for the rest of the frame.
LEMMA PressesAfter ==
  ASSUME GuiInv, NEW c \in DOMAIN control, Call(c, control[c].kind), Called(c), NEW b
  PROVE  /\ Presses(b)' => Presses(b)
         /\ Presses(b) /\ c # Len(control) => Presses(b)'
<1>1. PICK k : Becomes(c, k)
  BY DEF Called
<1>2. control \in Seq(Control) /\ GuiShape /\ GuiStep(c)
  BY DEF GuiInv, GuiShape, Called
<1>3. /\ DOMAIN control' = DOMAIN control /\ DOMAIN control = 1 .. Len(control)
      /\ Len(control) \in Nat
      /\ control'[c] = k /\ \A e \in DOMAIN control : e # c => control'[e] = control[e]
  BY <1>1, <1>2, WindowAfter
<1>4. ASSUME NEW e \in DOMAIN control PROVE control'[e].kind = control[e].kind
  BY <1>1, <1>3 DEF Becomes
<1>5. ASSUME On(b, "body"), IsMouseButtonPressed, b \in DOMAIN control, control[b].kind \in Boxes
      PROVE  gui'.state = gui.state /\ gui'.locked = gui.locked /\ gui'.dragging = gui.dragging
  <2>1. IsMouseButtonDown
    BY <1>5 DEF IsMouseButtonDown, IsMouseButtonPressed
  <2>2. Slides(control[c]) => ~Inside(c)
    BY <1>5 DEF Slides, Boxes, Sliders, Scrolling, Numbers, Texts, On, Inside
  <2> QED BY <1>2, <2>1, <2>2, GuiAfter
<1>6. ASSUME Presses(b)' PROVE input' = input /\ b \in DOMAIN control
  <2>1. b \in 1 .. Len(control) /\ input'.control = b
    BY <1>3, <1>6 DEF Presses, On, Inside
  <2> QED BY <1>2, <1>3, <2>1, InputAfter
<1>7. ASSUME Presses(b)' PROVE Presses(b)
  <2>1. On(b, "body") /\ IsMouseButtonPressed /\ control[b].kind \in Boxes
    BY <1>4, <1>6, <1>7 DEF Presses, On, Inside, IsMouseButtonPressed
  <2> QED BY <1>5, <1>6, <1>7, <2>1 DEF Presses, Free, Enabled
<1>8. ASSUME Presses(b), c # Len(control) PROVE Presses(b)'
  <2>1. input' = input
    BY <1>2, <1>8, InputAfter
  <2>2. On(b, "body")' /\ IsMouseButtonPressed' /\ b \in DOMAIN control' /\ control'[b].kind \in Boxes
    BY <1>3, <1>4, <1>8, <2>1 DEF Presses, On, Inside, IsMouseButtonPressed
  <2>3. Free'
    BY <1>5, <1>8 DEF Presses, Free, Enabled
  <2> QED BY <2>2, <2>3 DEF Presses
<1> QED BY <1>7, <1>8

\* Boxes that are edited after a call.
LEMMA CalledBoxes ==
  ASSUME GuiInv, NEW c \in DOMAIN control, Call(c, control[c].kind), Called(c)
  PROVE  OneOrTaken' /\ TakenOver'
<1>1. PICK k : Becomes(c, k)
  BY DEF Called
<1>2. control \in Seq(Control) /\ GuiShape /\ OneOrTaken /\ TakenOver /\ turn = c /\ turn' = c + 1
  BY DEF GuiInv, GuiShape, Call
<1>3. /\ DOMAIN control' = DOMAIN control /\ DOMAIN control = 1 .. Len(control)
      /\ Len(control) \in Nat
      /\ control'[c] = k /\ \A e \in DOMAIN control : e # c => control'[e] = control[e]
  BY <1>1, <1>2, WindowAfter
<1>4. ASSUME NEW d \in EditedBoxes', d # c PROVE d \in EditedBoxes
  BY <1>3, <1>4 DEF EditedBoxes
<1>5. EditedBoxes' \subseteq 1 .. Len(control)
  BY <1>3 DEF EditedBoxes
\* What the control itself does.
<1>6. ASSUME c \in EditedBoxes', c \notin EditedBoxes PROVE Presses(c)
  <2>1. control[c].kind \in Boxes /\ ~control[c].edit /\ Ended(c, control[c])
    BY <1>1, <1>3, <1>6 DEF EditedBoxes, Becomes, GuiShape
  <2> QED BY <2>1 DEF Ended, Presses
<1>7. ASSUME c \in EditedBoxes', c \in EditedBoxes, NEW b, Presses(b) PROVE b = c
  <2>1. control[c].edit /\ ~Ended(c, control[c])
    BY <1>1, <1>3, <1>7 DEF EditedBoxes, Becomes
  <2> QED BY <1>7, <2>1 DEF Ended, Presses, On, Inside
<1>8. OneOrTaken'
  <2> SUFFICES ASSUME NEW d \in EditedBoxes', NEW e \in EditedBoxes', d < e
               PROVE  Presses(d)' /\ d < c + 1 /\ c + 1 <= e
    BY <1>2 DEF OneOrTaken
  <2>0. d \in 1 .. Len(control) /\ e \in 1 .. Len(control) /\ c \in 1 .. Len(control)
    BY <1>3, <1>5
  <2>1. CASE d # c /\ e # c
    <3>1. Presses(d) /\ d < c /\ c <= e
      BY <1>2, <1>4, <2>1 DEF OneOrTaken
    <3>2. c # Len(control) /\ c + 1 <= e
      BY <2>0, <2>1, <3>1
    <3> QED BY <2>0, <3>1, <3>2, PressesAfter
  <2>2. CASE d = c
    <3>1. c # Len(control) /\ c + 1 <= e /\ d < c + 1
      BY <2>0, <2>2
    <3>2. CASE c \in EditedBoxes
      <4>1. Presses(d) /\ d < c
        BY <1>2, <1>4, <2>2, <3>2 DEF OneOrTaken
      <4> QED BY <2>0, <2>2, <4>1
    <3>3. CASE c \notin EditedBoxes
      BY <1>6, <2>2, <3>1, <3>3, PressesAfter
    <3> QED BY <3>2, <3>3
  <2>3. CASE e = c
    <3>1. d # c /\ d \in EditedBoxes /\ d < turn
      BY <1>2, <1>4, <2>0, <2>3
    <3>2. CASE c \in EditedBoxes
      <4>1. Presses(d)
        BY <1>2, <2>3, <3>1, <3>2 DEF OneOrTaken
      <4> QED BY <1>7, <2>3, <3>1, <3>2, <4>1
    <3>3. CASE c \notin EditedBoxes
      <4>1. Presses(c)
        BY <1>6, <2>3, <3>3
      <4> QED BY <1>2, <3>1, <4>1 DEF TakenOver
    <3> QED BY <3>2, <3>3
  <2> QED BY <2>1, <2>2, <2>3
<1>9. TakenOver'
  <2> SUFFICES ASSUME NEW b \in DOMAIN control', NEW e \in EditedBoxes', Presses(b)', e < c + 1
               PROVE  e = b
    BY <1>2 DEF TakenOver
  <2>1. Presses(b) /\ b \in DOMAIN control
    BY <1>3, PressesAfter
  <2>2. CASE e # c
    <3>1. e < turn /\ e \in EditedBoxes
      BY <1>2, <1>3, <1>4, <1>5, <2>2
    <3> QED BY <1>2, <2>1, <3>1 DEF TakenOver
  <2>3. CASE e = c /\ c \in EditedBoxes
    BY <1>7, <2>1, <2>3
  <2>4. CASE e = c /\ c \notin EditedBoxes
    BY <1>3, <1>6, <2>1, <2>4 DEF Presses, On, Inside
  <2> QED BY <2>2, <2>3, <2>4
<1> QED BY <1>8, <1>9

LEMMA CalledInv ==
  ASSUME GuiInv, NEW c \in DOMAIN control, Call(c, control[c].kind), Called(c)
  PROVE  GuiInv'
BY CalledShape, CalledEnding, CalledBoxes DEF GuiInv

-----------------------------------------------------------------------------
(* The controls *)

LEMMA Cell ==
  ASSUME GuiShape, NEW c \in DOMAIN control
  PROVE  /\ Right(control[c]) /\ control[c].kind \in STRING
         /\ control[c].active \in -IntMax .. IntMax /\ control[c].scroll \in 0 .. MaxItems
         /\ control[c].items \in 1 .. MaxItems /\ control[c].text \in Seq(0 .. 2)
         /\ control[c].edit \in BOOLEAN /\ control[c].secret \in BOOLEAN
         /\ input.x \in 0 .. MaxX /\ input.wheel \in -1 .. 1 /\ input.char \in 0 .. 2
         /\ gui.cursor \in Nat
         /\ MaxX \in Nat /\ MaxItems \in Nat /\ IntMax \in Nat /\ Visible \in Nat \ {0}
         /\ MaxX > 0 /\ MaxX <= IntMax /\ MaxItems <= IntMax /\ IntMax > 0
         /\ BufferSize \in Nat /\ BufferSize > 0
<1>1. Right(control[c]) /\ control[c] \in Control /\ input \in InputRecord
      /\ gui \in Globals(Len(control))
  BY DEF GuiShape, Right
<1>2. /\ control[c].kind \in STRING
      /\ control[c].active \in -IntMax .. IntMax /\ control[c].scroll \in 0 .. MaxItems
      /\ control[c].items \in 1 .. MaxItems /\ control[c].text \in Seq(0 .. 2)
      /\ control[c].edit \in BOOLEAN /\ control[c].secret \in BOOLEAN
  BY <1>1 DEF Control
<1>3. input.x \in 0 .. MaxX /\ input.wheel \in -1 .. 1 /\ input.char \in 0 .. 2
  BY <1>1 DEF InputRecord
<1>4. gui.cursor \in Nat
  BY <1>1 DEF Globals
<1> QED BY <1>1, <1>2, <1>3, <1>4, GuiAssumption

LEMMA ActiveRight ==
  ASSUME GuiShape, NEW c \in DOMAIN control, NEW v \in -IntMax .. IntMax, NEW k, k = Active(c, v),
         control[c].kind \notin Numbers \cup {"list"} => v >= 0,
         control[c].kind = "list" => v >= -1,
         control[c].kind \in {"toggle", "checkbox"} => v <= 1
  PROVE  /\ Right(k) /\ k.kind = control[c].kind /\ k.items = control[c].items
         /\ k.edit = control[c].edit /\ k.scroll = control[c].scroll /\ k.active = v
         /\ v = control[c].active => k = control[c]
<1> DEFINE o == control[c]
<1>1. Right(o) /\ o \in Control /\ k = [o EXCEPT !.active = v]
  BY Cell DEF Right, Active
<1> HIDE DEF o
<1>2. /\ k \in Control /\ k.kind = o.kind /\ k.items = o.items /\ k.edit = o.edit
      /\ k.scroll = o.scroll /\ k.active = v /\ k.text = o.text
      /\ v = o.active => k = o
  BY <1>1 DEF Control
<1>3. Right(k)
  BY <1>1, <1>2 DEF Right, o
<1> QED BY <1>2, <1>3 DEF o

\* Controls that only choose a value, and leave raygui as it is.
LEMMA ChoiceCalled ==
  ASSUME GuiInv, NEW c \in DOMAIN control, NEW v \in -IntMax .. IntMax, NEW r \in BOOLEAN,
         control[c].kind \notin Numbers \cup Texts \cup {"list"},
         ~Slides(control[c]), v >= 0,
         control[c].kind \in {"toggle", "checkbox"} => v <= 1,
         Returns(c, Active(c, v), r), UNCHANGED <<gui, fault>>,
         gui.dragging /\ IsMouseButtonDown /\ gui.active # c =>
           \/ v = control[c].active /\ ~r
           \/ Stale(control[c]) \/ control[c].kind = "scrollpanel"
  PROVE  Called(c)
<1> DEFINE k == Active(c, v)
<1>1. GuiShape /\ control' = [control EXCEPT ![c] = k] /\ result' = r
  BY DEF GuiInv, Returns
<1>2. /\ Right(k) /\ k.kind = control[c].kind /\ k.items = control[c].items
      /\ v = control[c].active => k = control[c]
  BY <1>1, ActiveRight
<1> HIDE DEF k
<1>3. Becomes(c, k)
  BY <1>1, <1>2 DEF Becomes, Boxes
<1>4. Undisturbed(c, k)
  BY <1>1, <1>2 DEF Undisturbed
<1>5. GuiStep(c)
  <2>1. gui \in Globals(Len(control)) /\ gui.cursor \in Nat
    BY <1>1, Cell DEF GuiShape
  <2>2. gui' = [gui EXCEPT !.cursor = gui.cursor]
    BY <2>1 DEF Globals
  <2> QED BY <2>1, <2>2 DEF GuiStep
<1>6. result' \in BOOLEAN /\ fault' \in {"no", "outside", "inside"}
  BY <1>1 DEF GuiShape
<1> QED BY <1>3, <1>4, <1>5, <1>6 DEF Called

LEMMA ButtonsCalled ==
  ASSUME GuiInv, NEW c \in DOMAIN control, GuiButton(c) \/ GuiLabelButton(c)
  PROVE  Called(c)
<1> DEFINE v == control[c].active
           r == Clicked(c)
<1>1. GuiShape
  BY DEF GuiInv
<1>2. control[c].kind \in {"button", "labelbutton"}
  BY DEF GuiButton, GuiLabelButton, Call
<1>3. ~Slides(control[c]) /\ control[c].kind \notin Numbers \cup Texts \cup {"list"}
  BY <1>2 DEF Slides, Sliders, Scrolling, Numbers, Texts
<1>4. v \in -IntMax .. IntMax /\ v >= 0
  BY <1>1, <1>3, Cell DEF Right
<1>5. r \in BOOLEAN /\ (gui.dragging => ~r)
  BY DEF Clicked, Free
<1>6. Returns(c, control[c], r) /\ UNCHANGED <<gui, fault>>
  BY DEF GuiButton, GuiLabelButton
<1>7. Active(c, v) = control[c]
  BY <1>1, Cell DEF Active, Right, Control
<1> HIDE DEF r, v
<1>8. Returns(c, Active(c, v), r)
  BY <1>6, <1>7
<1> QED BY <1>2, <1>3, <1>4, <1>5, <1>6, <1>8, ChoiceCalled DEF v

LEMMA TogglesCalled ==
  ASSUME GuiInv, NEW c \in DOMAIN control, GuiToggle(c) \/ GuiCheckBox(c)
  PROVE  Called(c)
<1> DEFINE v == IF Clicked(c) THEN 1 - control[c].active ELSE control[c].active
<1>1. GuiShape
  BY DEF GuiInv
<1>2. control[c].kind \in {"toggle", "checkbox"}
  BY DEF GuiToggle, GuiCheckBox, Call
<1>3. ~Slides(control[c]) /\ control[c].kind \notin Numbers \cup Texts \cup {"list"}
  BY <1>2 DEF Slides, Sliders, Scrolling, Numbers, Texts
<1>4. v \in -IntMax .. IntMax /\ v >= 0 /\ v <= 1
  BY <1>1, <1>2, <1>3, Cell DEF Right
<1>5. gui.dragging => v = control[c].active
  BY DEF Clicked, Free
<1>6. Returns(c, Active(c, v), FALSE) /\ UNCHANGED <<gui, fault>> /\ FALSE \in BOOLEAN
  BY DEF GuiToggle, GuiCheckBox
<1> HIDE DEF v
<1> QED BY <1>3, <1>4, <1>5, <1>6, ChoiceCalled

LEMMA ClipRange ==
  ASSUME NEW v \in Int, NEW max \in Nat
  PROVE  Clip(v, max) \in 0 .. max /\ (v \in 0 .. max => Clip(v, max) = v)
BY DEF Clip

\* Controls with items.
LEMMA ItemsCalled ==
  ASSUME GuiInv, NEW c \in DOMAIN control, GuiToggleGroup(c) \/ GuiTabBar(c)
  PROVE  Called(c)
<1> DEFINE k == control[c]
           hit == Clicked(c) /\ input.x < k.items
<1>1. GuiShape
  BY DEF GuiInv
<1>2. k.kind \in {"group", "tabs"}
  BY DEF GuiToggleGroup, GuiTabBar, Call
<1>3. ~Slides(k) /\ k.kind \notin Numbers \cup Texts \cup {"list"}
  BY <1>2 DEF Slides, Sliders, Scrolling, Numbers, Texts
<1>4. /\ k.active \in -IntMax .. IntMax /\ k.active >= 0 /\ k.items \in 1 .. MaxItems
      /\ input.x \in 0 .. MaxX /\ MaxX <= IntMax /\ MaxItems <= IntMax
      /\ MaxX \in Nat /\ MaxItems \in Nat /\ IntMax \in Nat
  BY <1>1, <1>3, Cell DEF Right
<1>5. Clip(k.active, k.items - 1) \in 0 .. k.items - 1
      /\ (k.active \in 0 .. k.items - 1 => Clip(k.active, k.items - 1) = k.active)
  <2>1. k.active \in Int /\ k.items - 1 \in Nat
    BY <1>4
  <2> QED BY <2>1, ClipRange
<1>6. gui.dragging => ~hit
  BY DEF Clicked, Free
<1> HIDE DEF k
<1>7. CASE GuiToggleGroup(c)
  <2> DEFINE v == IF hit THEN input.x ELSE k.active
  <2>1. v \in -IntMax .. IntMax /\ v >= 0
    BY <1>4
  <2>2. Returns(c, Active(c, v), FALSE) /\ UNCHANGED <<gui, fault>> /\ FALSE \in BOOLEAN
    BY <1>7 DEF GuiToggleGroup, k
  <2>3. gui.dragging => v = k.active
    BY <1>6
  <2> HIDE DEF v, hit
  <2> QED BY <1>2, <1>3, <2>1, <2>2, <2>3, ChoiceCalled DEF k
<1>8. CASE GuiTabBar(c)
  <2> DEFINE v == IF hit THEN input.x ELSE Clip(k.active, k.items - 1)
             r == hit /\ input.part = "side"
  <2>1. v \in -IntMax .. IntMax /\ v >= 0 /\ r \in BOOLEAN
    BY <1>4, <1>5
  <2>2. Returns(c, Active(c, v), r) /\ UNCHANGED <<gui, fault>>
    BY <1>8 DEF GuiTabBar, k
  <2>3. gui.dragging => ~r /\ (v = k.active \/ Stale(k))
    BY <1>2, <1>4, <1>5, <1>6 DEF Stale, Itemized
  <2> HIDE DEF v, r, hit
  <2> QED BY <1>2, <1>3, <2>1, <2>2, <2>3, ChoiceCalled DEF k
<1> QED BY <1>7, <1>8

LEMMA ToggleSliderCalled ==
  ASSUME GuiInv, NEW c \in DOMAIN control, GuiToggleSlider(c)
  PROVE  Called(c)
<1> DEFINE k == control[c]
           r == Enabled /\ Inside(c) /\ IsMouseButtonReleased
           next == IF r THEN k.active + 1 ELSE k.active
           v == IF next >= k.items THEN 0 ELSE next
<1>1. GuiShape
  BY DEF GuiInv
<1>2. k.kind = "toggleslider"
  BY DEF GuiToggleSlider, Call
<1>3. ~Slides(k) /\ k.kind \notin Numbers \cup Texts \cup {"list"}
  BY <1>2 DEF Slides, Sliders, Scrolling, Numbers, Texts
<1>4. /\ k.active \in -IntMax .. IntMax /\ k.active >= 0 /\ k.items \in 1 .. MaxItems
      /\ MaxItems <= IntMax /\ MaxItems \in Nat /\ IntMax \in Nat
  BY <1>1, <1>3, Cell DEF Right
<1>5. IsMouseButtonDown => ~r
  BY DEF IsMouseButtonDown, IsMouseButtonReleased
<1>6. Returns(c, Active(c, v), r) /\ UNCHANGED <<gui, fault>> /\ r \in BOOLEAN
  BY DEF GuiToggleSlider
<1> HIDE DEF r, k
<1>7. v \in -IntMax .. IntMax /\ v >= 0
  BY <1>4
<1>8. IsMouseButtonDown => ~r /\ (v = k.active \/ Stale(k))
  BY <1>2, <1>4, <1>5 DEF Stale, Itemized
<1> HIDE DEF v
<1> QED BY <1>2, <1>3, <1>6, <1>7, <1>8, ChoiceCalled DEF k

LEMMA ComboCalled ==
  ASSUME GuiInv, NEW c \in DOMAIN control, GuiComboBox(c)
  PROVE  Called(c)
<1> DEFINE k == control[c]
           now == Clip(k.active, k.items - 1)
           hit == Free /\ k.items > 1 /\ Inside(c) /\ IsMouseButtonPressed
           v == IF hit THEN (now + 1) % k.items ELSE now
<1>1. GuiShape
  BY DEF GuiInv
<1>2. k.kind = "combo"
  BY DEF GuiComboBox, Call
<1>3. ~Slides(k) /\ k.kind \notin Numbers \cup Texts \cup {"list"}
  BY <1>2 DEF Slides, Sliders, Scrolling, Numbers, Texts
<1>4. /\ k.active \in -IntMax .. IntMax /\ k.active >= 0 /\ k.items \in 1 .. MaxItems
      /\ MaxItems <= IntMax /\ MaxItems \in Nat /\ IntMax \in Nat
  BY <1>1, <1>3, Cell DEF Right
<1>5. now \in 0 .. k.items - 1 /\ (k.active \in 0 .. k.items - 1 => now = k.active)
  <2>1. k.active \in Int /\ k.items - 1 \in Nat
    BY <1>4
  <2> QED BY <2>1, ClipRange
<1>6. gui.dragging => ~hit
  BY DEF Free
<1>7. Returns(c, Active(c, v), FALSE) /\ UNCHANGED <<gui, fault>> /\ FALSE \in BOOLEAN
  BY DEF GuiComboBox
<1> HIDE DEF k, now, hit
<1>8. (now + 1) % k.items \in 0 .. k.items - 1
  BY <1>4, <1>5
<1>9. v \in -IntMax .. IntMax /\ v >= 0
  BY <1>4, <1>5, <1>8
<1>10. gui.dragging => v = k.active \/ Stale(k)
  BY <1>2, <1>4, <1>5, <1>6 DEF Stale, Itemized
<1> HIDE DEF v
<1> QED BY <1>2, <1>3, <1>7, <1>9, <1>10, ChoiceCalled DEF k

LEMMA PanelCalled ==
  ASSUME GuiInv, NEW c \in DOMAIN control, GuiColorPanel(c)
  PROVE  Called(c)
<1> DEFINE k == control[c]
           v == IF Free /\ Inside(c) /\ IsMouseButtonDown THEN input.x ELSE k.active
<1>1. GuiShape
  BY DEF GuiInv
<1>2. k.kind = "colorpanel"
  BY DEF GuiColorPanel, Call
<1>3. ~Slides(k) /\ k.kind \notin Numbers \cup Texts \cup {"list"}
  BY <1>2 DEF Slides, Sliders, Scrolling, Numbers, Texts
<1>4. v \in -IntMax .. IntMax /\ v >= 0
  BY <1>1, <1>3, Cell DEF Right
<1>5. gui.dragging => v = k.active
  BY DEF Free
<1>6. Returns(c, Active(c, v), FALSE) /\ UNCHANGED <<gui, fault>> /\ FALSE \in BOOLEAN
  BY DEF GuiColorPanel
<1> HIDE DEF v
<1> QED BY <1>2, <1>3, <1>4, <1>5, <1>6, ChoiceCalled

\* Only the cursor moves, or nothing.
LEMMA CursorStep ==
  ASSUME GuiShape, NEW c \in DOMAIN control, ~Slides(control[c]), UNCHANGED gui
  PROVE  GuiStep(c)
<1>1. gui \in Globals(Len(control)) /\ gui.cursor \in Nat
  BY Cell DEF GuiShape
<1>2. gui' = [gui EXCEPT !.cursor = gui.cursor]
  BY <1>1 DEF Globals
<1> QED BY <1>1, <1>2 DEF GuiStep

LEMMA DropdownCalled ==
  ASSUME GuiInv, NEW c \in DOMAIN control, GuiDropdownBox(c)
  PROVE  Called(c)
<1> DEFINE o == control[c]
           listens == /\ gui.state # "DISABLED" /\ (o.edit \/ ~gui.locked)
                      /\ o.items > 1 /\ ~gui.dragging
           onItem == On(c, "side") /\ input.x < o.items
           picks == listens /\ o.edit /\ onItem /\ IsMouseButtonReleased
           r == \/ picks
                \/ listens /\ On(c, "body") /\ IsMouseButtonPressed
                \/ /\ listens /\ o.edit /\ ~On(c, "body") /\ ~onItem
                   /\ IsMouseButtonPressed \/ IsMouseButtonReleased
           k == [o EXCEPT !.active = IF picks THEN input.x ELSE @, !.edit = (@ # r)]
<1>1. GuiShape
  BY DEF GuiInv
<1>2. o.kind = "dropdown"
  BY DEF GuiDropdownBox, Call
<1>3. Returns(c, k, r) /\ UNCHANGED <<gui, fault>> /\ r \in BOOLEAN
  BY DEF GuiDropdownBox
<1>4. gui.dragging => ~r /\ ~picks
  OBVIOUS
<1>5. ~Slides(o)
  BY <1>2 DEF Slides, Sliders, Scrolling
<1> HIDE DEF r, picks, listens, onItem
<1> DEFINE v == IF picks THEN input.x ELSE o.active
           e == (o.edit # r)
<1>6. /\ Right(o) /\ o \in Control /\ o.edit \in BOOLEAN
      /\ v \in -IntMax .. IntMax /\ v >= 0 /\ e \in BOOLEAN
  <2>1. o.kind \notin Numbers \cup {"list"}
    BY <1>2 DEF Numbers
  <2>2. Right(o) /\ o \in Control /\ o.edit \in BOOLEAN
    BY <1>1, Cell DEF Right
  <2>3. v \in -IntMax .. IntMax /\ v >= 0
    BY <1>1, <2>1, Cell DEF Right
  <2>4. e \in BOOLEAN
    OBVIOUS
  <2> QED BY <2>2, <2>3, <2>4
<1>7. k = [o EXCEPT !.active = v, !.edit = e]
  OBVIOUS
<1>8. gui.dragging => v = o.active /\ (e <=> o.edit)
  BY <1>3, <1>4, <1>6
<1> HIDE DEF o, k, v, e
<1>9. /\ k \in Control /\ k.kind = o.kind /\ k.items = o.items /\ k.active = v
      /\ k.text = o.text /\ k.edit = e
  BY <1>6, <1>7 DEF Control
<1>10. gui.dragging => k = o
  BY <1>6, <1>7, <1>8 DEF Control
<1>11. Right(k)
  BY <1>2, <1>6, <1>9 DEF Right, Editable, Numbers, Texts
<1>12. Becomes(c, k)
  BY <1>2, <1>3, <1>9, <1>11 DEF Becomes, Returns, Boxes, Numbers, Texts, o
<1>13. Undisturbed(c, k)
  BY <1>3, <1>4, <1>10 DEF Undisturbed, Returns, o
<1>14. GuiStep(c)
  BY <1>1, <1>3, <1>5, CursorStep DEF o
<1>15. result' \in BOOLEAN /\ fault' \in {"no", "outside", "inside"}
  BY <1>1, <1>3 DEF Returns, GuiShape
<1> QED BY <1>12, <1>13, <1>14, <1>15 DEF Called

-----------------------------------------------------------------------------
(* Sliders and scroll bars *)

LEMMA SlidersCalled ==
  ASSUME GuiInv, NEW c \in DOMAIN control, control[c].kind \in Sliders, Slid(c)
  PROVE  Called(c)
<1> DEFINE o == control[c]
           v == IF Follows(c) THEN Clip(input.x, MaxX - 1) ELSE o.active
           k == Active(c, v)
<1>1. GuiShape
  BY DEF GuiInv
<1>2. Returns(c, k, FALSE) /\ UNCHANGED fault /\ gui' = Dragged(c, Inside(c) /\ IsMouseButtonDown)
  BY DEF Slid
<1>3. v \in -IntMax .. IntMax /\ (o.active >= 0 => v >= 0)
  <2>1. /\ o.active \in -IntMax .. IntMax /\ MaxX - 1 \in Nat /\ MaxX <= IntMax /\ input.x \in Int
        /\ IntMax \in Nat /\ MaxX \in Nat
    BY <1>1, Cell
  <2>2. Clip(input.x, MaxX - 1) \in 0 .. MaxX - 1
    BY <2>1, ClipRange
  <2> QED BY <2>1, <2>2
<1>4. gui.dragging /\ gui.active # c => v = o.active
  BY DEF Follows
<1>5. o.kind \notin Numbers \cup Texts \cup {"list", "toggle", "checkbox"}
  BY DEF Sliders, Numbers, Texts
<1>6. o.active >= 0
  BY <1>1, <1>5, Cell DEF Right
<1> HIDE DEF v
<1>7. /\ Right(k) /\ k.kind = o.kind /\ k.items = o.items /\ (v = o.active => k = o)
  BY <1>1, <1>3, <1>5, <1>6, ActiveRight
<1> HIDE DEF k
<1>8. Becomes(c, k)
  BY <1>2, <1>5, <1>7 DEF Becomes, Returns, Boxes
<1>9. Undisturbed(c, k)
  BY <1>2, <1>4, <1>7 DEF Undisturbed, Returns
<1>10. GuiStep(c)
  BY <1>2 DEF GuiStep, Slides
<1>11. result' \in BOOLEAN /\ fault' \in {"no", "outside", "inside"}
  BY <1>1, <1>2 DEF Returns, GuiShape
<1> QED BY <1>8, <1>9, <1>10, <1>11 DEF Called

LEMMA BarStep ==
  ASSUME GuiShape, NEW c \in DOMAIN control, control[c].kind \in Scrolling, Bar(c)
  PROVE  GuiStep(c)
<1>1. CASE UsesBar(control[c])
  <2>1. gui' = Dragged(c, On(c, "side") /\ IsMouseButtonPressed)
    BY <1>1 DEF Bar
  <2>2. On(c, "side") /\ IsMouseButtonPressed => Inside(c) /\ IsMouseButtonDown
    BY DEF On, IsMouseButtonPressed, IsMouseButtonDown
  <2> QED BY <1>1, <2>1, <2>2 DEF GuiStep, Slides
<1>2. CASE ~UsesBar(control[c])
  <2>1. ~Slides(control[c]) /\ gui' = gui
    BY <1>2 DEF Slides, Sliders, Scrolling, Bar
  <2> QED BY <2>1, CursorStep
<1> QED BY <1>1, <1>2

LEMMA LastStartRange ==
  ASSUME NEW k, k.items \in 1 .. MaxItems
  PROVE  LastStart(k) \in 0 .. MaxItems /\ (~UsesBar(k) => LastStart(k) = 0)
BY GuiAssumption DEF LastStart, UsesBar

LEMMA ScrolledRange ==
  ASSUME GuiShape, NEW c \in DOMAIN control, NEW v \in Int, NEW max \in Nat
  PROVE  /\ Scrolled(c, v, max) \in 0 .. max
         /\ gui.dragging /\ gui.active # c /\ v \in 0 .. max => Scrolled(c, v, max) = v
<1> DEFINE n == Clip(v, max)
<1>1. n \in 0 .. max /\ (v \in 0 .. max => n = v)
  BY ClipRange
<1>2. input.x \in Int /\ input.wheel \in Int
  BY Cell
<1> HIDE DEF n
<1>3. Clip(input.x, max) \in 0 .. max
  BY <1>2, ClipRange
<1>4. Clip(IF IsMouseButtonPressed /\ input.x # n THEN input.x ELSE n + input.wheel, max) \in 0 .. max
  <2>1. (IF IsMouseButtonPressed /\ input.x # n THEN input.x ELSE n + input.wheel) \in Int
    BY <1>1, <1>2
  <2> QED BY <2>1, ClipRange
<1>5. Scrolled(c, v, max) =
        CASE Enabled /\ gui.dragging /\ IsMouseButtonDown /\ gui.active = c -> Clip(input.x, max)
          [] Free /\ On(c, "side") ->
               Clip(IF IsMouseButtonPressed /\ input.x # n THEN input.x ELSE n + input.wheel, max)
          [] OTHER -> n
  BY DEF Scrolled, n
<1>6. Free => ~gui.dragging
  BY DEF Free
<1> QED BY <1>1, <1>3, <1>4, <1>5, <1>6

LEMMA ListCalled ==
  ASSUME GuiInv, NEW c \in DOMAIN control, GuiListView(c)
  PROVE  Called(c)
<1> DEFINE o == control[c]
           last == LastStart(o)
           start == StartIndex(o)
           row == start + input.x
           hit == /\ Free /\ On(c, "body") /\ IsMouseButtonPressed
                  /\ input.x < Visible /\ row < o.items
           rolled == IF Free /\ Inside(c) /\ UsesBar(o)
                       THEN Clip(start - input.wheel, last) ELSE start
           a == IF ~hit THEN o.active ELSE IF o.active = row THEN -1 ELSE row
           s == IF UsesBar(o) THEN Scrolled(c, rolled, last) ELSE rolled
           k == [o EXCEPT !.active = a, !.scroll = s]
<1>1. GuiShape
  BY DEF GuiInv
<1>2. o.kind = "list" /\ Returns(c, k, FALSE) /\ Bar(c) /\ UNCHANGED fault
  BY DEF GuiListView, Call
<1>3. /\ Right(o) /\ o \in Control /\ o.active \in -IntMax .. IntMax /\ o.active >= -1
      /\ o.scroll \in 0 .. MaxItems /\ o.items \in 1 .. MaxItems
      /\ input.x \in 0 .. MaxX /\ input.wheel \in -1 .. 1
      /\ MaxItems <= IntMax /\ MaxItems \in Nat /\ IntMax \in Nat /\ IntMax > 0
  BY <1>1, <1>2, Cell DEF Right
<1>4. last \in 0 .. MaxItems /\ last \in Nat
  BY <1>3, LastStartRange
<1>5. start \in 0 .. last /\ (o.scroll <= last => start = o.scroll)
  <2>1. start = IF o.scroll > last THEN 0 ELSE o.scroll
    BY DEF StartIndex
  <2> HIDE DEF start, last
  <2> QED BY <1>3, <1>4, <2>1
<1>6. gui.dragging => ~hit /\ rolled = start
  BY DEF Free
<1> HIDE DEF last, start
<1>7. row \in Nat
  BY <1>3, <1>4, <1>5
<1>8. a \in -IntMax .. IntMax /\ a >= -1 /\ (gui.dragging => a = o.active)
  BY <1>3, <1>6, <1>7
<1>9. rolled \in 0 .. last /\ rolled \in Int
  <2> DEFINE w == start - input.wheel
  <2>1. w \in Int
    BY <1>3, <1>4, <1>5
  <2> HIDE DEF w
  <2>2. Clip(w, last) \in 0 .. last
    BY <1>4, <2>1, ClipRange
  <2>3. rolled \in 0 .. last
    BY <1>5, <2>2 DEF w
  <2> HIDE DEF rolled
  <2> QED BY <1>4, <2>3
<1> HIDE DEF rolled, hit
<1>10. s \in 0 .. last /\ (gui.dragging /\ gui.active # c => s = rolled)
  <2>1. /\ Scrolled(c, rolled, last) \in 0 .. last
        /\ gui.dragging /\ gui.active # c => Scrolled(c, rolled, last) = rolled
    BY <1>1, <1>4, <1>9, ScrolledRange
  <2> QED BY <1>9, <2>1
<1>11. s \in 0 .. MaxItems /\ s <= last
  BY <1>3, <1>4, <1>10
<1> HIDE DEF o, a, s
<1>12. /\ k \in Control /\ k.kind = o.kind /\ k.items = o.items /\ k.active = a
       /\ k.scroll = s /\ k.text = o.text /\ k.edit = o.edit
       /\ a = o.active /\ s = o.scroll => k = o
  BY <1>3, <1>8, <1>11 DEF Control
<1>13. gui.dragging /\ gui.active # c => k = o \/ Stale(o)
  <2>1. CASE o.scroll <= last
    BY <1>5, <1>6, <1>8, <1>10, <1>12, <2>1
  <2>2. CASE ~(o.scroll <= last)
    BY <1>2, <1>3, <1>4, <2>2 DEF Stale, Scrolling, last
  <2> QED BY <2>1, <2>2
<1> HIDE DEF k
<1>14. Right(k) /\ k.scroll <= LastStart(k)
  <2>1. LastStart(k) = last
    BY <1>12 DEF LastStart, UsesBar, last
  <2>2. Right(k)
    BY <1>2, <1>3, <1>8, <1>12 DEF Right, Numbers
  <2> QED BY <1>11, <1>12, <2>1, <2>2
<1>15. Becomes(c, k)
  BY <1>2, <1>12, <1>14 DEF Becomes, Returns, Boxes, Numbers, Texts, o
<1>16. Undisturbed(c, k)
  BY <1>2, <1>13 DEF Undisturbed, Returns, o
<1>17. GuiStep(c)
  BY <1>1, <1>2, BarStep DEF Scrolling, o
<1>18. result' \in BOOLEAN /\ fault' \in {"no", "outside", "inside"}
  BY <1>1, <1>2 DEF Returns, GuiShape
<1> QED BY <1>15, <1>16, <1>17, <1>18 DEF Called

LEMMA ScrollPanelCalled ==
  ASSUME GuiInv, NEW c \in DOMAIN control, GuiScrollPanel(c)
  PROVE  Called(c)
<1> DEFINE o == control[c]
           last == LastStart(o)
           rolled == Clip(IF Enabled /\ Inside(c) THEN o.scroll - 2 * input.wheel ELSE o.scroll,
                          last)
           s == Scrolled(c, rolled, last)
           k == [o EXCEPT !.scroll = s]
<1>1. GuiShape
  BY DEF GuiInv
<1>2. o.kind = "scrollpanel" /\ Returns(c, k, FALSE) /\ Bar(c) /\ UNCHANGED fault
  BY DEF GuiScrollPanel, Call
<1>3. /\ Right(o) /\ o \in Control /\ o.scroll \in 0 .. MaxItems /\ o.items \in 1 .. MaxItems
      /\ input.wheel \in -1 .. 1 /\ MaxItems \in Nat
  BY <1>1, Cell DEF Right
<1>4. last \in 0 .. MaxItems /\ last \in Nat
  BY <1>3, LastStartRange
<1> HIDE DEF last
<1>5. rolled \in 0 .. last /\ rolled \in Int
  <2> DEFINE w == IF Enabled /\ Inside(c) THEN o.scroll - 2 * input.wheel ELSE o.scroll
  <2>1. w \in Int
    BY <1>3
  <2> HIDE DEF w
  <2>2. Clip(w, last) \in 0 .. last
    BY <1>4, <2>1, ClipRange
  <2>3. rolled \in 0 .. last
    BY <2>2 DEF w
  <2> HIDE DEF rolled
  <2> QED BY <1>4, <2>3
<1> HIDE DEF rolled
<1>6. s \in 0 .. last
  BY <1>1, <1>4, <1>5, ScrolledRange
<1>7. s \in 0 .. MaxItems
  BY <1>3, <1>4, <1>6
<1> HIDE DEF o, s
<1>8. /\ k \in Control /\ k.kind = o.kind /\ k.items = o.items /\ k.active = o.active
      /\ k.text = o.text /\ k.edit = o.edit
  BY <1>3, <1>7 DEF Control
<1> HIDE DEF k
<1>9. Right(k)
  BY <1>3, <1>8 DEF Right
<1>10. Becomes(c, k)
  BY <1>2, <1>8, <1>9 DEF Becomes, Returns, Boxes, Numbers, Texts, o
<1>11. Undisturbed(c, k)
  BY <1>2 DEF Undisturbed, o
<1>12. GuiStep(c)
  BY <1>1, <1>2, BarStep DEF Scrolling, o
<1>13. result' \in BOOLEAN /\ fault' \in {"no", "outside", "inside"}
  BY <1>1, <1>2 DEF Returns, GuiShape
<1> QED BY <1>10, <1>11, <1>12, <1>13 DEF Called

-----------------------------------------------------------------------------
(* Numbers *)

LEMMA ParsedRange ==
  ASSUME NEW n \in Int
  PROVE  /\ Parsed(n) \subseteq -IntMax .. IntMax
         /\ n \in -IntMax .. IntMax => Parsed(n) = {n}
BY GuiAssumption DEF Parsed

LEMMA TypedRange ==
  ASSUME NEW n \in -IntMax .. IntMax
  PROVE  Typed(n) \subseteq -IntMax .. IntMax
<1>1. IntMax \in Nat /\ n \in Int
  BY GuiAssumption
<1>2. Parsed(10 * n + (IF n < 0 THEN -9 ELSE 9)) \subseteq -IntMax .. IntMax
  <2>1. 10 * n + (IF n < 0 THEN -9 ELSE 9) \in Int
    BY <1>1
  <2> QED BY <2>1, ParsedRange
<1>3. Digits(n) \in -IntMax .. IntMax
  <2>1. ASSUME NEW m \in Nat PROVE m \div 10 \in 0 .. m
    OBVIOUS
  <2>2. CASE n < 0
    <3>1. -n \in Nat /\ -n <= IntMax
      BY <1>1, <2>2
    <3> DEFINE q == (-n) \div 10
    <3>2. q \in 0 .. -n
      BY <2>1, <3>1
    <3> HIDE DEF q
    <3>3. -q \in -IntMax .. IntMax
      BY <1>1, <3>1, <3>2
    <3> QED BY <2>2, <3>3 DEF Digits, q
  <2>3. CASE ~(n < 0)
    <3>1. n \in Nat /\ n <= IntMax
      BY <1>1, <2>3
    <3> DEFINE q == n \div 10
    <3>2. q \in 0 .. n
      BY <2>1, <3>1
    <3> HIDE DEF q
    <3>3. q \in -IntMax .. IntMax
      BY <1>1, <3>1, <3>2
    <3> QED BY <2>3, <3>3 DEF Digits, q
  <2> QED BY <2>2, <2>3
<1> QED BY <1>2, <1>3 DEF Typed

LEMMA BoxedCalled ==
  ASSUME GuiInv, NEW c \in DOMAIN control, control[c].kind \in Numbers,
         NEW n \in -IntMax .. IntMax, Boxed(c, control[c], n),
         gui.dragging => n = control[c].active \/ Stale(control[c])
  PROVE  Called(c)
<1> DEFINE o == control[c]
           ended == Ended(c, o)
<1>1. GuiShape
  BY DEF GuiInv
<1>2. PICK m \in IF Free /\ o.edit THEN Typed(n) ELSE {IF Free THEN Clamped(o, n) ELSE n} :
        /\ Returns(c, [o EXCEPT !.active = m, !.edit = (@ # ended)], ended)
        /\ UNCHANGED <<gui, fault>>
  BY DEF Boxed
<1>3. /\ Right(o) /\ o \in Control /\ o.edit \in BOOLEAN
      /\ IntMax \in Nat /\ MaxItems \in Nat /\ MaxItems <= IntMax
  BY <1>1, Cell DEF Right
<1>4. Clamped(o, n) \in -IntMax .. IntMax
  <2>1. Clip(n, MaxItems) \in 0 .. MaxItems
    BY <1>3, ClipRange
  <2> QED BY <1>3, <2>1 DEF Clamped
<1>5. m \in -IntMax .. IntMax
  BY <1>2, <1>4, TypedRange
<1>6. ended \in BOOLEAN /\ (gui.dragging => ~Free /\ ~ended /\ m = n)
  BY <1>2 DEF Ended, Free
<1>7. ~Slides(o)
  BY DEF Slides, Sliders, Scrolling, Numbers
<1> DEFINE e == (o.edit # ended)
           k == [o EXCEPT !.active = m, !.edit = e]
<1>8. Returns(c, k, ended) /\ e \in BOOLEAN
  BY <1>2
<1>9. (e => IF o.edit THEN ~ended ELSE ended) /\ (~ended => (e <=> o.edit))
  BY <1>3, <1>6
<1> HIDE DEF o, ended, e
<1>10. /\ k \in Control /\ k.kind = o.kind /\ k.items = o.items /\ k.active = m
       /\ k.text = o.text /\ k.edit = e
  BY <1>3, <1>5, <1>8 DEF Control
<1>11. m = o.active /\ (e <=> o.edit) => k = o
  BY <1>3, <1>8 DEF Control
<1> HIDE DEF k
<1>12. o.kind \in Numbers /\ o.kind \notin Texts \cup {"list", "toggle", "checkbox"} /\ o.kind \in Editable
  BY DEF Numbers, Texts, Editable, o
<1>13. Right(k)
  BY <1>10, <1>12 DEF Right
<1>14. Becomes(c, k)
  BY <1>8, <1>9, <1>10, <1>12, <1>13 DEF Becomes, Returns, o, ended
<1>15. Undisturbed(c, k)
  BY <1>6, <1>8, <1>9, <1>11 DEF Undisturbed, Returns, o
<1>16. GuiStep(c)
  BY <1>1, <1>2, <1>7, CursorStep DEF o
<1>17. result' \in BOOLEAN /\ fault' \in {"no", "outside", "inside"}
  BY <1>1, <1>2, <1>6, <1>8 DEF Returns, GuiShape
<1> QED BY <1>14, <1>15, <1>16, <1>17 DEF Called

LEMMA NumbersCalled ==
  ASSUME GuiInv, NEW c \in DOMAIN control, GuiValueBox(c) \/ GuiSpinner(c)
  PROVE  Called(c)
<1> DEFINE o == control[c]
<1>1. GuiShape
  BY DEF GuiInv
<1>2. /\ o.active \in -IntMax .. IntMax /\ o.edit \in BOOLEAN /\ o.active \in Int
      /\ IntMax \in Nat /\ MaxItems \in Nat /\ MaxItems <= IntMax
  BY <1>1, Cell
<1>3. CASE GuiValueBox(c)
  BY <1>2, <1>3, BoxedCalled DEF GuiValueBox, Call, Numbers
<1>4. CASE GuiSpinner(c)
  <2> DEFINE pushed == Clicked(c) /\ input.part = "side"
             step == IF ~pushed THEN 0 ELSE IF input.x = 0 THEN -1 ELSE 1
  <2>1. PICK n \in Parsed(o.active + step) : Boxed(c, o, Clamped(o, n))
    BY <1>4 DEF GuiSpinner
  <2>2. step \in Int /\ (gui.dragging => step = 0)
    BY DEF Clicked, Free
  <2>3. o.kind \in Numbers /\ o.kind = "spinner"
    BY <1>4 DEF GuiSpinner, Call, Numbers
  <2> HIDE DEF step
  <2>4. n \in -IntMax .. IntMax /\ (gui.dragging => n = o.active)
    <3>1. o.active + step \in Int /\ (gui.dragging => o.active + step = o.active)
      BY <1>2, <2>2
    <3> QED BY <1>2, <2>1, <3>1, ParsedRange
  <2>5. n \in Int
    BY <1>2, <2>4
  <2>6. Clamped(o, n) \in -IntMax .. IntMax
    <3>1. Clip(n, MaxItems) \in 0 .. MaxItems
      BY <1>2, <2>5, ClipRange
    <3> QED BY <1>2, <2>4, <3>1 DEF Clamped
  <2>7. gui.dragging => Clamped(o, n) = o.active \/ Stale(o)
    BY <2>3, <2>4 DEF Clamped, Stale
  <2> QED BY <2>1, <2>3, <2>6, <2>7, BoxedCalled
<1> QED BY <1>3, <1>4

-----------------------------------------------------------------------------
(* Text boxes *)

\* A text with a cursor that an operation on texts may leave.
Fits(e) ==
  /\ e \in [text : Seq(0 .. 2), cursor : Nat, fault : {"no", "outside"}]
  /\ Len(e.text) < BufferSize

LEMMA EditedFits ==
  ASSUME NEW t \in Seq(0 .. 2), Len(t) < BufferSize, NEW i \in Nat
  PROVE  Fits(Edited(t, i)) /\ Edited(t, i).text = t /\ Edited(t, i).cursor = i
<1>1. "no" \in {"no", "outside"}
  OBVIOUS
<1> QED BY <1>1 DEF Fits, Edited

LEMMA OutsideFits == Fits(Outside)
<1>1. "outside" \in {"no", "outside"} /\ <<>> \in Seq(0 .. 2) /\ Len(<<>>) = 0 /\ 0 \in Nat
  OBVIOUS
<1>2. 0 < BufferSize
  BY GuiAssumption
<1> QED BY <1>1, <1>2 DEF Fits, Outside

\* The part of a text from byte m to byte n.
LEMMA PartOfText ==
  ASSUME NEW t \in Seq(0 .. 2), NEW m \in Int, NEW n \in Int, m >= 1, n <= Len(t)
  PROVE  /\ SubSeq(t, m, n) \in Seq(0 .. 2)
         /\ Len(SubSeq(t, m, n)) = IF m <= n THEN n - m + 1 ELSE 0
<1>1. \A i \in m .. n : t[i] \in 0 .. 2
  OBVIOUS
<1> QED BY <1>1, SubSeqProperties

LEMMA InsertFits ==
  ASSUME NEW t \in Seq(0 .. 2), Len(t) < BufferSize, NEW i \in 0 .. Len(t)
  PROVE  LET e == InsertCodepoint(t, i) IN Fits(e) /\ e.cursor \in 0 .. Len(e.text)
<1> DEFINE a == SubSeq(t, 1, i)
           b == SubSeq(t, i + 1, Len(t))
<1>1. CASE input.char > 0 /\ Len(t) + CodepointSize < BufferSize
  <2>1. Encoded \in Seq(0 .. 2) /\ CodepointSize \in {1, 2} /\ Len(Encoded) = CodepointSize
    <3>1. <<2, 0>> \in Seq(0 .. 2) /\ <<1>> \in Seq(0 .. 2) /\ Len(<<2, 0>>) = 2 /\ Len(<<1>>) = 1
      OBVIOUS
    <3> QED BY <3>1 DEF Encoded, CodepointSize
  <2>2. a \in Seq(0 .. 2) /\ Len(a) = i
    <3>1. 1 \in Int /\ i \in Int /\ 1 >= 1 /\ i <= Len(t)
      OBVIOUS
    <3> QED BY <3>1, PartOfText
  <2>3. b \in Seq(0 .. 2) /\ Len(b) = Len(t) - i
    <3>1. i + 1 \in Int /\ Len(t) \in Int /\ i + 1 >= 1 /\ Len(t) <= Len(t)
      OBVIOUS
    <3> QED BY <3>1, PartOfText
  <2> HIDE DEF a, b
  <2> DEFINE h == a \o Encoded
             s == h \o b
  <2>4. h \in Seq(0 .. 2) /\ Len(h) = i + CodepointSize
    BY <2>1, <2>2, ConcatProperties
  <2> HIDE DEF h
  <2>5. s \in Seq(0 .. 2) /\ Len(s) = i + CodepointSize + Len(t) - i
    BY <2>3, <2>4, ConcatProperties
  <2>6. InsertCodepoint(t, i) = Edited(s, i + CodepointSize)
    BY <1>1 DEF InsertCodepoint, a, b, h
  <2> HIDE DEF s
  <2>7. /\ Len(s) < BufferSize /\ i + CodepointSize \in Nat
        /\ i + CodepointSize \in 0 .. Len(s)
    BY <1>1, <2>1, <2>5
  <2> QED BY <2>5, <2>6, <2>7, EditedFits
<1>2. CASE ~(input.char > 0 /\ Len(t) + CodepointSize < BufferSize)
  <2>1. InsertCodepoint(t, i) = Edited(t, i)
    BY <1>2 DEF InsertCodepoint
  <2> QED BY <2>1, EditedFits
<1> QED BY <1>1, <1>2

\* Whatever the bytes taken out, and wherever the text is then ended.
LEMMA ErasedFits ==
  ASSUME NEW t \in Seq(0 .. 2), Len(t) < BufferSize, NEW i \in Int, i <= Len(t),
         NEW n \in Nat, i + n >= 0, NEW cursor \in Int
  PROVE  Fits(Erased(t, i, n, cursor))
<1> DEFINE a == SubSeq(t, 1, i)
           b == SubSeq(t, i + n + 1, Len(t))
           rest == a \o b
           length == Len(t) - CodepointSize
           end == IF Len(rest) < length THEN Len(rest) ELSE length
           s == SubSeq(rest, 1, end)
<1>1. a \in Seq(0 .. 2) /\ Len(a) = IF i >= 1 THEN i ELSE 0
  BY PartOfText
<1>2. b \in Seq(0 .. 2) /\ Len(b) = IF i + n < Len(t) THEN Len(t) - i - n ELSE 0
  <2>1. i + n + 1 \in Int /\ Len(t) \in Int /\ i + n + 1 >= 1 /\ Len(t) <= Len(t)
    OBVIOUS
  <2> QED BY <2>1, PartOfText
<1> HIDE DEF a, b
<1>3. rest \in Seq(0 .. 2) /\ Len(rest) \in Nat
  <2>1. rest \in Seq(0 .. 2)
    BY <1>1, <1>2, ConcatProperties
  <2> HIDE DEF rest
  <2> QED BY <2>1
<1>4. Erased(t, i, n, cursor) = IF length < 0 \/ cursor < 0 THEN Outside ELSE Edited(s, cursor)
  BY DEF Erased, a, b
<1> HIDE DEF rest
<1>5. length \in Int /\ length < BufferSize
  BY GuiAssumption DEF CodepointSize
<1> HIDE DEF length
<1>6. CASE length < 0 \/ cursor < 0
  BY <1>4, <1>6, OutsideFits
<1>7. CASE ~(length < 0 \/ cursor < 0)
  <2>1. end \in Nat /\ end <= Len(rest) /\ end < BufferSize
    BY <1>3, <1>5, <1>7, GuiAssumption
  <2> HIDE DEF end
  <2>2. s \in Seq(0 .. 2) /\ Len(s) = IF 1 <= end THEN end - 1 + 1 ELSE 0
    BY <1>3, <2>1, PartOfText
  <2> HIDE DEF s
  <2>3. Len(s) < BufferSize /\ cursor \in Nat
    BY <1>7, <2>1, <2>2
  <2> QED BY <1>4, <1>7, <2>2, <2>3, EditedFits
<1> QED BY <1>6, <1>7

LEMMA KeyedFits ==
  ASSUME NEW t \in Seq(0 .. 2), Len(t) < BufferSize, NEW i \in 0 .. Len(t),
         NEW e \in Keyed(t, i)
  PROVE  Fits(e)
<1> USE DEF Keyed
<1>1. Len(t) \in Nat /\ i \in Nat /\ i \in Int /\ i <= Len(t)
  OBVIOUS
<1>2. ASSUME NEW j \in Nat, e = Edited(t, j) PROVE Fits(e)
  BY <1>2, EditedFits
<1>3. CASE e = DeleteNext(t, i)
  <2>1. SizeAt(t, i) \in Nat /\ i + SizeAt(t, i) >= 0
    BY DEF SizeAt
  <2>2. Fits(Erased(t, i, SizeAt(t, i), i))
    BY <1>1, <2>1, ErasedFits
  <2> QED BY <1>1, <1>2, <1>3, <2>2 DEF DeleteNext
<1>4. CASE e \in Backspace(t, i)
  <2>1. PICK n \in SizesBefore(t, i) :
          e = IF i > 0 THEN Erased(t, i - n, n, i - CodepointSize)
              ELSE IF n = 0 \/ t = <<>> THEN Edited(t, i) ELSE Outside
    BY <1>4 DEF Backspace
  <2>2. n \in Nat
    BY DEF SizesBefore
  <2>3. i - CodepointSize \in Int
    BY <1>1 DEF CodepointSize
  <2>4. i - n \in Int /\ i - n <= Len(t) /\ i - n + n >= 0
    BY <1>1, <2>2
  <2>5. Fits(Erased(t, i - n, n, i - CodepointSize))
    BY <2>2, <2>3, <2>4, ErasedFits
  <2> QED BY <1>1, <1>2, <2>1, <2>5, OutsideFits
<1>5. CASE e \in MoveLeft(t, i)
  <2>1. PICK n \in SizesBefore(t, i) : e = Edited(t, IF i >= n THEN i - n ELSE i)
    BY <1>5 DEF MoveLeft
  <2>2. n \in Nat
    BY DEF SizesBefore
  <2>3. (IF i >= n THEN i - n ELSE i) \in Nat
    BY <1>1, <2>2
  <2> QED BY <1>2, <2>1, <2>3
<1>6. CASE e = MoveRight(t, i)
  <2>1. (IF i + SizeAt(t, i) <= Len(t) THEN i + SizeAt(t, i) ELSE i) \in Nat
    BY <1>1 DEF SizeAt
  <2> QED BY <1>2, <1>6, <2>1 DEF MoveRight
<1>7. CASE e = Edited(t, 0) \/ e = Edited(t, Len(t)) \/ e = Edited(t, i)
  BY <1>1, <1>2, <1>7
<1>8. \/ e = DeleteNext(t, i) \/ e \in Backspace(t, i) \/ e \in MoveLeft(t, i)
      \/ e = MoveRight(t, i)
      \/ e = Edited(t, 0) \/ e = Edited(t, Len(t)) \/ e = Edited(t, i)
  BY DEF Keyed
<1> QED BY <1>3, <1>4, <1>5, <1>6, <1>7, <1>8

\* A text that is edited, or one that a click is only about to open.
LEMMA TextBoxFits ==
  ASSUME GuiShape, NEW c \in DOMAIN control, control[c].kind \in Texts,
         NEW length \in Nat, NEW e \in TextBox(c, control[c], length)
  PROVE  Fits(e) /\ (~Free => e.text = control[c].text)
<1> DEFINE k == control[c]
           i == Clip(gui.cursor, Len(k.text))
           typed == InsertCodepoint(k.text, i)
<1>1. k.text \in Seq(0 .. 2) /\ Len(k.text) < BufferSize /\ gui.cursor \in Nat
  BY Cell DEF Right
<1> HIDE DEF k
<1>2. CASE Free /\ k.edit
  <2>1. i \in 0 .. Len(k.text)
    <3>1. gui.cursor \in Int /\ Len(k.text) \in Nat
      BY <1>1
    <3> QED BY <3>1, ClipRange
  <2> HIDE DEF i
  <2>2. Fits(typed) /\ typed.cursor \in 0 .. Len(typed.text)
    BY <1>1, <2>1, InsertFits
  <2>3. e \in UNION {Placed(c, f) : f \in Keyed(typed.text, typed.cursor)}
    BY <1>2 DEF TextBox, k, i
  <2>4. PICK f \in Keyed(typed.text, typed.cursor) : e \in Placed(c, f)
    BY <2>3
  <2> HIDE DEF typed
  <2>5. typed.text \in Seq(0 .. 2) /\ Len(typed.text) < BufferSize
    BY <2>2 DEF Fits
  <2>6. Fits(f)
    BY <2>2, <2>5, KeyedFits
  <2>7. ASSUME NEW j \in 0 .. Len(f.text), e = [f EXCEPT !.cursor = j] PROVE Fits(e)
    <3>1. j \in Nat /\ Len(f.text) < BufferSize
      BY <2>6, <2>7 DEF Fits
    <3>2. f \in [text : Seq(0 .. 2), cursor : Nat, fault : {"no", "outside"}]
      BY <2>6 DEF Fits
    <3>3. /\ e \in [text : Seq(0 .. 2), cursor : Nat, fault : {"no", "outside"}]
          /\ e.text = f.text
      BY <2>7, <3>1, <3>2
    <3> QED BY <3>1, <3>3 DEF Fits
  <2>8. e = f \/ \E j \in 0 .. Len(f.text) : e = [f EXCEPT !.cursor = j]
    BY <2>4 DEF Placed
  <2> QED BY <1>2, <2>6, <2>7, <2>8
<1>3. CASE ~(Free /\ k.edit)
  <2> DEFINE j == IF Ended(c, k) THEN length ELSE gui.cursor
  <2>1. j \in Nat /\ e = Edited(k.text, j)
    BY <1>1, <1>3 DEF TextBox, k
  <2> HIDE DEF j
  <2> QED BY <1>1, <2>1, EditedFits DEF k
<1> QED BY <1>2, <1>3

LEMMA EditsCalled ==
  ASSUME GuiInv, NEW c \in DOMAIN control, control[c].kind \in Texts,
         NEW e, Fits(e), ~Free => e.text = control[c].text,
         NEW secret \in BOOLEAN, NEW edit \in BOOLEAN, NEW r \in BOOLEAN,
         edit => IF control[c].edit THEN ~Ended(c, control[c]) ELSE Ended(c, control[c]),
         ~Free => ~r /\ secret = control[c].secret /\ edit = control[c].edit,
         Returns(c, [control[c] EXCEPT !.text = e.text, !.secret = secret, !.edit = edit], r),
         Edits(c, control[c], e)
  PROVE  Called(c)
<1> DEFINE o == control[c]
           k == [o EXCEPT !.text = e.text, !.secret = secret, !.edit = edit]
           i == IF o.edit /\ Ended(c, o) THEN 0 ELSE e.cursor
<1>1. GuiShape
  BY DEF GuiInv
<1>2. /\ Right(o) /\ o \in Control
      /\ e.text \in Seq(0 .. 2) /\ Len(e.text) < BufferSize /\ e.cursor \in Nat
      /\ e.fault \in {"no", "outside"}
  BY <1>1, Cell DEF Right, Fits
<1>3. ~Slides(o)
  BY DEF Slides, Sliders, Scrolling, Texts
<1>4. o.kind \in Texts /\ o.kind \notin Numbers \cup {"list", "toggle", "checkbox"} /\ o.kind \in Editable
  BY DEF Numbers, Texts, Editable
<1>5. gui' = [gui EXCEPT !.cursor = i] /\ i \in Nat
  BY <1>2 DEF Edits
<1>6. fault' \in {"no", "outside", "inside"}
  BY <1>2 DEF Edits
<1>7. gui.dragging => ~Free
  BY DEF Free
<1> HIDE DEF i, o
<1>8. /\ k \in Control /\ k.kind = o.kind /\ k.items = o.items /\ k.active = o.active
      /\ k.text = e.text /\ k.edit = edit
  BY <1>2 DEF Control
<1>9. e.text = o.text /\ secret = o.secret /\ edit = o.edit => k = o
  BY <1>2 DEF Control
<1>10. Returns(c, k, r)
  BY DEF o
<1> HIDE DEF k
<1>11. Right(k)
  BY <1>2, <1>4, <1>8 DEF Right
<1>12. Becomes(c, k)
  BY <1>4, <1>8, <1>10, <1>11 DEF Becomes, Returns, o
<1>13. Undisturbed(c, k)
  BY <1>7, <1>9, <1>10 DEF Undisturbed, Returns, o
<1>14. GuiStep(c)
  BY <1>3, <1>5 DEF GuiStep, o
<1>15. result' \in BOOLEAN
  BY <1>10 DEF Returns
<1> QED BY <1>6, <1>12, <1>13, <1>14, <1>15 DEF Called

LEMMA TextBoxCalled ==
  ASSUME GuiInv, NEW c \in DOMAIN control, GuiTextBox(c)
  PROVE  Called(c)
<1> DEFINE o == control[c]
           r == Ended(c, o)
           edit == (o.edit # r)
           secret == o.secret
<1>1. GuiShape
  BY DEF GuiInv
<1>2. o.kind \in Texts
  BY DEF GuiTextBox, Call, Texts
<1>3. o \in Control /\ o.edit \in BOOLEAN /\ secret \in BOOLEAN /\ Len(o.text) \in Nat
  BY <1>1, Cell DEF Right
<1>4. PICK e \in TextBox(c, o, Len(o.text)) :
        Returns(c, [o EXCEPT !.text = e.text, !.edit = edit], r) /\ Edits(c, o, e)
  BY DEF GuiTextBox
<1>5. Fits(e) /\ (~Free => e.text = o.text)
  BY <1>1, <1>2, <1>3, TextBoxFits
<1>6. r \in BOOLEAN /\ edit \in BOOLEAN /\ (~Free => ~r)
  BY DEF Ended
<1>7. edit => IF o.edit THEN ~r ELSE r
  BY <1>3, <1>6
<1>8. ~Free => edit = o.edit
  BY <1>3, <1>6
<1> HIDE DEF edit
<1>9. [o EXCEPT !.text = e.text, !.edit = edit]
        = [o EXCEPT !.text = e.text, !.secret = secret, !.edit = edit]
  <2>1. o.secret = secret
    OBVIOUS
  <2> HIDE DEF o, secret
  <2> QED BY <1>3, <2>1 DEF Control
<1> HIDE DEF r, secret
<1>10. Returns(c, [o EXCEPT !.text = e.text, !.secret = secret, !.edit = edit], r)
  BY <1>4, <1>9
<1>11. secret = o.secret
  BY DEF secret
<1>12. edit => IF o.edit THEN ~Ended(c, o) ELSE Ended(c, o)
  BY <1>7 DEF r
<1> QED BY <1>2, <1>3, <1>4, <1>5, <1>6, <1>8, <1>10, <1>11, <1>12, EditsCalled

LEMMA InputBoxCalled ==
  ASSUME GuiInv, NEW c \in DOMAIN control, GuiTextInputBox(c)
  PROVE  Called(c)
<1> DEFINE o == control[c]
           answered == Clicked(c) /\ input.part = "side" /\ input.x # 1
           flips == Clicked(c) /\ input.part = "side" /\ input.x = 1
           ended == Ended(c, o)
           edit == (o.edit # ended) /\ ~answered
           secret == (o.secret # flips)
           length == IF o.secret THEN Len(o.text) ELSE Stars
<1>1. GuiShape
  BY DEF GuiInv
<1>2. o.kind \in Texts
  BY DEF GuiTextInputBox, Call, Texts
<1>3. o.edit \in BOOLEAN /\ o.secret \in BOOLEAN /\ length \in Nat
  BY <1>1, Cell DEF Stars
<1>4. PICK e \in TextBox(c, o, length) :
        /\ Returns(c, [o EXCEPT !.text = e.text, !.secret = secret, !.edit = edit], answered)
        /\ Edits(c, o, e)
  BY DEF GuiTextInputBox
<1> HIDE DEF length
<1>5. Fits(e) /\ (~Free => e.text = o.text)
  BY <1>1, <1>2, <1>3, TextBoxFits
<1>6. /\ ended \in BOOLEAN /\ answered \in BOOLEAN /\ flips \in BOOLEAN
      /\ ~Free => ~ended /\ ~answered /\ ~flips
  BY DEF Ended, Clicked
<1> HIDE DEF answered, flips
<1>7. edit \in BOOLEAN /\ secret \in BOOLEAN
  OBVIOUS
<1>8. edit => IF o.edit THEN ~Ended(c, o) ELSE Ended(c, o)
  BY <1>3, <1>6
<1>9. ~Free => ~answered /\ secret = o.secret /\ edit = o.edit
  BY <1>3, <1>6
<1> HIDE DEF edit, secret
<1> QED BY <1>2, <1>4, <1>5, <1>6, <1>7, <1>8, <1>9, EditsCalled

-----------------------------------------------------------------------------
(* The steps of the program *)

\* Every call of a control is one by Called.
LEMMA GuiCallIsCalled ==
  ASSUME GuiInv, NEW c \in DOMAIN control, GuiCall(c)
  PROVE  Call(c, control[c].kind) /\ Called(c)
<1>1. ASSUME NEW kind, Call(c, kind) PROVE Call(c, control[c].kind) /\ control[c].kind = kind
  BY <1>1 DEF Call
<1>2. CASE GuiButton(c) \/ GuiLabelButton(c)
  BY <1>1, <1>2, ButtonsCalled DEF GuiButton, GuiLabelButton
<1>3. CASE GuiToggle(c) \/ GuiCheckBox(c)
  BY <1>1, <1>3, TogglesCalled DEF GuiToggle, GuiCheckBox
<1>4. CASE GuiToggleGroup(c) \/ GuiTabBar(c)
  BY <1>1, <1>4, ItemsCalled DEF GuiToggleGroup, GuiTabBar
<1>5. CASE GuiToggleSlider(c)
  BY <1>1, <1>5, ToggleSliderCalled DEF GuiToggleSlider
<1>6. CASE GuiComboBox(c)
  BY <1>1, <1>6, ComboCalled DEF GuiComboBox
<1>7. CASE GuiDropdownBox(c)
  BY <1>1, <1>7, DropdownCalled DEF GuiDropdownBox
<1>8. CASE GuiColorPanel(c)
  BY <1>1, <1>8, PanelCalled DEF GuiColorPanel
<1>9. CASE GuiSliderPro(c) \/ GuiColorBarAlpha(c) \/ GuiColorBarHue(c)
  <2>1. Call(c, control[c].kind) /\ control[c].kind \in Sliders /\ Slid(c)
    BY <1>1, <1>9 DEF GuiSliderPro, GuiColorBarAlpha, GuiColorBarHue, Sliders
  <2> QED BY <2>1, SlidersCalled
<1>10. CASE GuiListView(c)
  BY <1>1, <1>10, ListCalled DEF GuiListView
<1>11. CASE GuiScrollPanel(c)
  BY <1>1, <1>11, ScrollPanelCalled DEF GuiScrollPanel
<1>12. CASE GuiValueBox(c) \/ GuiSpinner(c)
  BY <1>1, <1>12, NumbersCalled DEF GuiValueBox, GuiSpinner
<1>13. CASE GuiTextBox(c)
  BY <1>1, <1>13, TextBoxCalled DEF GuiTextBox
<1>14. CASE GuiTextInputBox(c)
  BY <1>1, <1>14, InputBoxCalled DEF GuiTextInputBox
<1> QED
  BY <1>2, <1>3, <1>4, <1>5, <1>6, <1>7, <1>8, <1>9, <1>10, <1>11, <1>12, <1>13, <1>14
     DEF GuiCall

\* Between frames at most one box is edited, so that what a frame makes of it
\* does not matter.
LEMMA OneBetween ==
  ASSUME GuiShape, OneOrTaken, turn \in {0, Len(control) + 1},
         NEW c \in EditedBoxes, NEW d \in EditedBoxes
  PROVE  c = d
<1>1. Len(control) \in Nat /\ DOMAIN control = 1 .. Len(control)
  BY DEF GuiShape
<1>2. c \in 1 .. Len(control) /\ d \in 1 .. Len(control)
  BY <1>1 DEF EditedBoxes
<1>3. ~(c < d)
  BY <1>1, <1>2 DEF OneOrTaken
<1>4. ~(d < c)
  BY <1>1, <1>2 DEF OneOrTaken
<1> QED BY <1>2, <1>3, <1>4

LEMMA BetweenInv ==
  ASSUME GuiInv, Between, GuiShape', turn' \in {0, 1}, EditedBoxes' = EditedBoxes
  PROVE  GuiInv'
<1>1. GuiShape /\ OneOrTaken /\ turn \in {0, Len(control) + 1}
  BY DEF GuiInv, Between
<1>2. DOMAIN control' \subseteq Nat \ {0}
  BY DEF GuiShape
<1>3. \A c \in DOMAIN control' : ~(c < turn') /\ turn' # c + 1
  BY <1>2
<1>4. EditedBoxes' \subseteq DOMAIN control'
  BY DEF EditedBoxes
<1>5. OneOrTaken'
  <2> SUFFICES ASSUME NEW c \in EditedBoxes', NEW d \in EditedBoxes', c < d PROVE FALSE
    BY DEF OneOrTaken
  <2>1. c = d
    BY <1>1, OneBetween
  <2>2. c \in Nat
    BY <1>2, <1>4
  <2> QED BY <2>1, <2>2
<1>6. Shown'
  BY <1>3 DEF Shown
<1>7. TakenOver'
  BY <1>3, <1>4 DEF TakenOver
<1>8. Ending'
  BY <1>3 DEF Ending
<1> QED BY <1>5, <1>6, <1>7, <1>8 DEF GuiInv

\* GuiLock, GuiUnlock, GuiDisable and GuiEnable.
LEMMA SetsInv ==
  ASSUME GuiInv, NEW g \in Globals(Len(control)), Sets(g)
  PROVE  GuiInv'
<1>1. GuiShape
  BY DEF GuiInv
<1>2. Len(control) \in Nat
  BY <1>1 DEF GuiShape
<1>3. GuiShape'
  BY <1>1, <1>2 DEF GuiShape, Sets, Right
<1>4. turn' \in {0, 1} /\ EditedBoxes' = EditedBoxes /\ Between
  BY DEF Sets, EditedBoxes
<1> QED BY <1>3, <1>4, BetweenInv

LEMMA SettingsInv ==
  ASSUME GuiInv, GuiLock \/ GuiUnlock \/ GuiDisable \/ GuiEnable
  PROVE  GuiInv'
<1>1. gui \in Globals(Len(control))
  BY DEF GuiInv, GuiShape
<1>2. ASSUME NEW b \in BOOLEAN PROVE [gui EXCEPT !.locked = b] \in Globals(Len(control))
  <2> DEFINE g == [gui EXCEPT !.locked = b]
  <2>1. /\ gui \in [state : {"NORMAL", "DISABLED"}, locked : BOOLEAN, dragging : BOOLEAN,
                    active : 0 .. Len(control), cursor : Nat]
        /\ gui.dragging <=> gui.active # 0
    BY <1>1 DEF Globals
  <2>2. /\ g \in [state : {"NORMAL", "DISABLED"}, locked : BOOLEAN, dragging : BOOLEAN,
                  active : 0 .. Len(control), cursor : Nat]
        /\ g.dragging = gui.dragging /\ g.active = gui.active
    BY <2>1
  <2> HIDE DEF g
  <2>3. g \in Globals(Len(control))
    BY <2>1, <2>2 DEF Globals
  <2> QED BY <2>3 DEF g
<1>3. ASSUME NEW s \in {"NORMAL", "DISABLED"}
      PROVE  [gui EXCEPT !.state = s] \in Globals(Len(control))
  <2> DEFINE g == [gui EXCEPT !.state = s]
  <2>1. /\ gui \in [state : {"NORMAL", "DISABLED"}, locked : BOOLEAN, dragging : BOOLEAN,
                    active : 0 .. Len(control), cursor : Nat]
        /\ gui.dragging <=> gui.active # 0
    BY <1>1 DEF Globals
  <2>2. /\ g \in [state : {"NORMAL", "DISABLED"}, locked : BOOLEAN, dragging : BOOLEAN,
                  active : 0 .. Len(control), cursor : Nat]
        /\ g.dragging = gui.dragging /\ g.active = gui.active
    BY <2>1
  <2> HIDE DEF g
  <2>3. g \in Globals(Len(control))
    BY <2>1, <2>2 DEF Globals
  <2> QED BY <2>3 DEF g
<1>4. CASE GuiLock \/ GuiUnlock
  <2>1. PICK b \in BOOLEAN : Sets([gui EXCEPT !.locked = b])
    BY <1>4 DEF GuiLock, GuiUnlock
  <2> QED BY <1>2, <2>1, SetsInv
<1>5. CASE GuiDisable \/ GuiEnable
  <2>1. PICK s \in {"NORMAL", "DISABLED"} : Sets([gui EXCEPT !.state = s])
    BY <1>5 DEF GuiDisable, GuiEnable
  <2> QED BY <1>3, <2>1, SetsInv
<1> QED BY <1>4, <1>5

LEMMA SetItemsInv ==
  ASSUME GuiInv, NEW c \in DOMAIN control, NEW n \in ItemCounts, SetItems(c, n)
  PROVE  GuiInv'
<1> DEFINE o == control[c]
           k == [o EXCEPT !.items = n]
<1>1. GuiShape /\ control \in Seq(Control) /\ Right(o) /\ o \in Control
  BY Cell DEF GuiInv, GuiShape, Right
<1>2. control' = [control EXCEPT ![c] = k] /\ turn' = 0 /\ UNCHANGED <<gui, input, result, fault>>
  BY DEF SetItems
<1>3. n \in 1 .. MaxItems
  BY GuiAssumption
<1> HIDE DEF o
<1>4. /\ k \in Control /\ k.kind = o.kind /\ k.active = o.active /\ k.text = o.text
      /\ k.edit = o.edit
  BY <1>1, <1>3 DEF Control
<1> HIDE DEF k
<1>5. Right(k)
  BY <1>1, <1>4 DEF Right
<1>6. /\ control' \in Seq(Control) /\ Len(control') = Len(control)
      /\ DOMAIN control' = DOMAIN control /\ control'[c] = k
      /\ \A d \in DOMAIN control : d # c => control'[d] = control[d]
      /\ Len(control) \in Nat
  BY <1>1, <1>2, <1>4
<1>7. \A d \in DOMAIN control' : Right(control'[d])
  BY <1>1, <1>5, <1>6 DEF GuiShape
<1>8. GuiShape'
  BY <1>1, <1>2, <1>6, <1>7 DEF GuiShape
<1>9. EditedBoxes' = EditedBoxes
  BY <1>4, <1>6 DEF EditedBoxes, o
<1>10. Between /\ turn' \in {0, 1}
  BY <1>2 DEF SetItems
<1> QED BY <1>8, <1>9, <1>10, BetweenInv

LEMMA NextFrameInv ==
  ASSUME GuiInv, NextFrame
  PROVE  GuiInv'
<1>1. GuiShape
  BY DEF GuiInv
<1>2. Len(control) \in Nat
  BY <1>1 DEF GuiShape
<1>3. Between /\ turn' = 1 /\ result' = FALSE /\ UNCHANGED <<gui, control, fault>>
  BY DEF NextFrame
<1>4. input' \in InputRecord
  <2>1. PICK b \in Buttons, w \in Wheel, c \in 0 .. Len(control) :
          \E p \in Parts(c), x \in Coordinates(c) :
            \E k \in IF c = 0 /\ Editing # {} THEN Keys ELSE {"none"},
               h \in IF c = 0 /\ Editing # {} THEN Chars \cup {0} ELSE {0} :
              input' = [control |-> c, part |-> p, x |-> x, button |-> b, wheel |-> w,
                        key |-> k, char |-> h]
    BY DEF NextFrame
  <2>2. PICK p \in Parts(c), x \in Coordinates(c) :
          \E k \in IF c = 0 /\ Editing # {} THEN Keys ELSE {"none"},
             h \in IF c = 0 /\ Editing # {} THEN Chars \cup {0} ELSE {0} :
            input' = [control |-> c, part |-> p, x |-> x, button |-> b, wheel |-> w,
                      key |-> k, char |-> h]
    BY <2>1
  <2>3. PICK k \in IF c = 0 /\ Editing # {} THEN Keys ELSE {"none"},
             h \in IF c = 0 /\ Editing # {} THEN Chars \cup {0} ELSE {0} :
          input' = [control |-> c, part |-> p, x |-> x, button |-> b, wheel |-> w,
                    key |-> k, char |-> h]
    BY <2>2
  <2>4. b \in {"up", "pressed", "held", "released"}
    BY DEF Buttons
  <2>5. w \in -1 .. 1
    BY DEF Wheel
  <2>6. c \in Nat /\ p \in {"body", "side"}
    BY <1>2 DEF Parts
  <2>7. x \in 0 .. MaxX
    BY GuiAssumption DEF Coordinates
  <2>8. k \in {"none", "enter", "backspace", "delete", "left", "right", "home", "end"}
    BY DEF Keys
  <2>9. h \in 0 .. 2
    BY GuiAssumption
  <2> QED BY <2>3, <2>4, <2>5, <2>6, <2>7, <2>8, <2>9 DEF InputRecord
<1>5. GuiShape'
  <2>1. result' \in BOOLEAN
    BY <1>3
  <2>2. turn' \in 0 .. Len(control') + 1
    BY <1>2, <1>3
  <2>3. \A c \in DOMAIN control' : Right(control'[c])
    BY <1>1, <1>3 DEF GuiShape, Right
  <2> QED BY <1>1, <1>3, <1>4, <2>1, <2>2, <2>3 DEF GuiShape
<1>6. EditedBoxes' = EditedBoxes
  BY <1>3 DEF EditedBoxes
<1> QED BY <1>3, <1>5, <1>6, BetweenInv

LEMMA GuiStutters ==
  ASSUME GuiInv, UNCHANGED guiVars
  PROVE  GuiInv'
BY DEF GuiInv, GuiShape, Right, Shown, LastStart, UsesBar, OneOrTaken, TakenOver, EditedBoxes,
       Presses, Free, Enabled, On, Inside, IsMouseButtonPressed, IsMouseButtonDown, Ending,
       Slides, guiVars

LEMMA GuiInitInv ==
  ASSUME GuiInit
  PROVE  GuiInv
<1>1. PICK w \in Windows : control = [c \in DOMAIN w |-> NewControl(w[c])]
  BY DEF GuiInit
<1>2. w \in Seq(STRING) /\ MaxItems \in Nat \ {0} /\ MaxX \in Nat /\ IntMax \in Nat /\ 0 < BufferSize
  BY GuiAssumption
<1>3. ASSUME NEW kind \in STRING
      PROVE  Right(NewControl(kind)) /\ NewControl(kind) \in Control
             /\ NewControl(kind).kind = kind /\ NewControl(kind).edit = FALSE
  <2>1. /\ NewControl(kind) \in Control /\ NewControl(kind).kind = kind
        /\ NewControl(kind).active = 0 /\ NewControl(kind).edit = FALSE
        /\ NewControl(kind).text = <<>>
    <3>1. /\ 0 \in -IntMax .. IntMax /\ 0 \in 0 .. MaxItems /\ MaxItems \in 1 .. MaxItems
          /\ <<>> \in Seq(0 .. 2) /\ FALSE \in BOOLEAN
      BY <1>2
    <3> QED BY <3>1 DEF NewControl, Control
  <2>2. Len(<<>>) = 0
    OBVIOUS
  <2> HIDE DEF NewControl
  <2> QED BY <1>2, <2>1, <2>2 DEF Right
<1>4. /\ control \in Seq(Control) /\ DOMAIN control = 1 .. Len(control) /\ Len(control) \in Nat
      /\ \A c \in DOMAIN control : Right(control[c]) /\ control[c].edit = FALSE
  <2>1. w \in [1 .. Len(w) -> STRING] /\ Len(w) \in Nat
    BY <1>2
  <2>2. \A c \in 1 .. Len(w) : NewControl(w[c]) \in Control
    BY <1>3, <2>1
  <2>3. control = [c \in 1 .. Len(w) |-> NewControl(w[c])]
    BY <1>1, <2>1
  <2>4. control \in [1 .. Len(w) -> Control]
    BY <2>2, <2>3
  <2>5. control \in Seq(Control) /\ Len(control) = Len(w)
    BY <2>1, <2>4
  <2>6. \A c \in 1 .. Len(w) : Right(control[c]) /\ control[c].edit = FALSE
    <3> TAKE c \in 1 .. Len(w)
    <3>1. control[c] = NewControl(w[c]) /\ w[c] \in STRING
      BY <2>1, <2>3
    <3> QED BY <1>3, <3>1
  <2> QED BY <2>1, <2>5, <2>6
<1>5. /\ gui = [state |-> "NORMAL", locked |-> FALSE, dragging |-> FALSE, active |-> 0, cursor |-> 0]
      /\ input = NoInput /\ turn = 0 /\ result = FALSE /\ fault = "no"
  BY DEF GuiInit
<1>6. gui \in Globals(Len(control))
  <2>1. gui \in [state : {"NORMAL", "DISABLED"}, locked : BOOLEAN, dragging : BOOLEAN,
                 active : 0 .. Len(control), cursor : Nat]
    <3>1. 0 \in 0 .. Len(control) /\ FALSE \in BOOLEAN /\ "NORMAL" \in {"NORMAL", "DISABLED"}
      BY <1>4
    <3> QED BY <1>5, <3>1
  <2>2. gui.dragging = FALSE /\ gui.active = 0
    BY <1>5
  <2> QED BY <2>1, <2>2 DEF Globals
<1>7. input \in InputRecord
  <2>1. MaxX \in 0 .. MaxX /\ 0 \in -1 .. 1 /\ 0 \in 0 .. 2 /\ 0 \in Nat
    BY <1>2
  <2> QED BY <1>5, <2>1 DEF InputRecord, NoInput
<1>8. GuiShape
  <2>1. result \in BOOLEAN /\ fault \in {"no", "outside", "inside"} /\ turn \in 0 .. Len(control) + 1
    <3>1. result = FALSE
      BY <1>5
    <3>2. result \in BOOLEAN
      BY <3>1
    <3>3. turn \in 0 .. Len(control) + 1
      BY <1>4, <1>5
    <3> QED BY <1>5, <3>2, <3>3
  <2> QED BY <1>4, <1>6, <1>7, <2>1 DEF GuiShape
<1>9. EditedBoxes = {}
  BY <1>4 DEF EditedBoxes
<1>10. \A c \in DOMAIN control : turn # c + 1 /\ ~(c < turn)
  BY <1>4, <1>5
<1>11. Shown /\ OneOrTaken /\ TakenOver /\ Ending
  BY <1>9, <1>10 DEF Shown, OneOrTaken, TakenOver, Ending
<1> QED BY <1>8, <1>11 DEF GuiInv

LEMMA GuiNextInv ==
  ASSUME GuiInv, [GuiNext]_guiVars
  PROVE  GuiInv'
<1>1. CASE NextFrame
  BY <1>1, NextFrameInv
<1>2. CASE GuiLock \/ GuiUnlock \/ GuiDisable \/ GuiEnable
  BY <1>2, SettingsInv
<1>3. ASSUME NEW c \in DOMAIN control, GuiCall(c) PROVE GuiInv'
  BY <1>3, GuiCallIsCalled, CalledInv
<1>4. ASSUME NEW c \in DOMAIN control, NEW n \in ItemCounts, SetItems(c, n) PROVE GuiInv'
  BY <1>4, SetItemsInv
<1>5. CASE UNCHANGED guiVars
  BY <1>5, GuiStutters
<1> QED BY <1>1, <1>2, <1>3, <1>4, <1>5 DEF GuiNext

LEMMA GuiInvariant == GuiSpec => []GuiInv
BY GuiInitInv, GuiNextInv, PTL DEF GuiSpec

-----------------------------------------------------------------------------
(* The theorems *)

LEMMA GuiTypes ==
  ASSUME GuiInv
  PROVE  GuiTypeOK
<1>1. GuiShape /\ Shown
  BY DEF GuiInv
<1>2. /\ gui \in [state : {"NORMAL", "DISABLED"}, locked : BOOLEAN, dragging : BOOLEAN,
                  active : 0 .. Len(control), cursor : Nat]
      /\ gui.dragging <=> gui.active # 0
  BY <1>1 DEF GuiShape, Globals
<1>3. turn \in 0 .. Len(control) + 1 /\ result \in BOOLEAN /\ fault \in {"no", "outside", "inside"}
  BY <1>1 DEF GuiShape
<1>4. ASSUME NEW c \in DOMAIN control
      PROVE  LET k == control[c] IN
             /\ k.active \in -IntMax .. IntMax
             /\ k.active = -1 => k.kind \in Numbers \cup {"list"}
             /\ k.scroll \in 0 .. MaxItems /\ k.items \in 1 .. MaxItems
             /\ k.kind = "list" /\ turn = c + 1 => k.scroll \in 0 .. LastStart(k)
             /\ k.text \in Seq(0 .. 2)
             /\ k.edit \in BOOLEAN /\ k.secret \in BOOLEAN
             /\ k.edit => k.kind \in Editable
  <2> DEFINE k == control[c]
  <2>1. /\ Right(k) /\ k.active \in -IntMax .. IntMax /\ k.scroll \in 0 .. MaxItems
        /\ k.items \in 1 .. MaxItems /\ k.text \in Seq(0 .. 2)
        /\ k.edit \in BOOLEAN /\ k.secret \in BOOLEAN /\ IntMax \in Nat /\ MaxItems \in Nat
    BY <1>1, Cell
  <2>2. k.active = -1 => k.kind \in Numbers \cup {"list"}
    BY <2>1 DEF Right
  <2>3. k.edit => k.kind \in Editable
    BY <2>1 DEF Right
  <2>4. LastStart(k) \in 0 .. MaxItems
    BY <2>1, LastStartRange
  <2>5. k.kind = "list" /\ turn = c + 1 => k.scroll \in 0 .. LastStart(k)
    BY <1>1, <2>1, <2>4 DEF Shown
  <2> QED BY <2>1, <2>2, <2>3, <2>5
<1> QED BY <1>2, <1>3, <1>4 DEF GuiTypeOK

\* What the controls and the globals of raygui hold makes sense for the
\* window: only a number box or a list has no choice (-1), the slider being
\* dragged is one of the window, a list that has just been drawn begins at an
\* item it has, and only controls that can be edited are.
THEOREM GuiTypeCorrect == GuiSpec => []GuiTypeOK
BY GuiInvariant, GuiTypes, PTL

\* The text of a box never fills its buffer: whatever is typed, erased, moved
\* over or clicked, and however the size of a character was mistaken, there is
\* room for the 0 that ends it.
THEOREM TextsFit == GuiSpec => []TextFits
<1>1. GuiInv => TextFits
  BY DEF GuiInv, GuiShape, Right, TextFits
<1> QED BY <1>1, GuiInvariant, PTL

\* When a frame is complete at most one of the number and text boxes of a
\* window is edited, although each call looks at its own box only.
THEOREM OneIsEdited == GuiSpec => []OneEditing
<1>1. ASSUME GuiInv, FrameDone
      PROVE  Cardinality({c \in Editing : control[c].kind # "dropdown"}) <= 1
  <2> DEFINE S == {c \in Editing : control[c].kind # "dropdown"}
  <2>1. GuiShape /\ OneOrTaken /\ turn \in {0, Len(control) + 1}
    BY <1>1 DEF GuiInv, FrameDone
  <2>2. S \subseteq EditedBoxes
    BY <2>1 DEF Editing, EditedBoxes, Boxes, GuiShape, Right, Editable
  <2>3. \A c, d \in S : c = d
    BY <2>1, <2>2, OneBetween
  <2> HIDE DEF S
  <2>4. ASSUME S = {} PROVE Cardinality(S) <= 1
    <3>1. Cardinality({}) = 0
      BY FS_EmptySet
    <3> QED BY <2>4, <3>1
  <2>5. ASSUME NEW c \in S PROVE Cardinality(S) <= 1
    <3>1. S = {c}
      BY <2>3
    <3>2. Cardinality({c}) = 1
      BY FS_Singleton
    <3> QED BY <3>1, <3>2
  <2>6. S = {} \/ \E c \in S : TRUE
    OBVIOUS
  <2>7. Cardinality(S) <= 1
    BY <2>4, <2>5, <2>6
  <2> QED BY <2>7 DEF S
<1>2. GuiInv => OneEditing
  BY <1>1 DEF OneEditing
<1> QED BY <1>2, GuiInvariant, PTL

\* A drag does not outlive the button in a window with a slider or a scroll
\* bar: the frame without it ends the drag, whichever slider comes first and
\* whatever stands between them.
THEOREM DragsEnd == GuiSpec => []DragEnds
<1>1. ASSUME GuiInv PROVE DragEnds
  <2> SUFFICES ASSUME FrameDone, Enabled, ~IsMouseButtonDown, HasSlider, gui.dragging
               PROVE  FALSE
    BY DEF DragEnds
  <2>1. PICK c \in DOMAIN control : Slides(control[c])
    BY DEF HasSlider, Slides
  <2>2. c < turn
    BY <1>1 DEF GuiInv, GuiShape, FrameDone
  <2> QED BY <1>1, <2>1, <2>2 DEF GuiInv, Ending
<1> QED BY <1>1, GuiInvariant, PTL

\* While a slider is dragged no other control changes its value or answers,
\* nor follows the mouse that passes over it, but for one whose items have
\* become less and for a scroll panel under the wheel.
THEOREM DragsExclude == GuiSpec => DragExclusive
<1> DEFINE Exclusive ==
             \A c \in DOMAIN control :
               turn = c /\ gui.dragging /\ IsMouseButtonDown /\ gui.active # c =>
                 \/ control'[c] = control[c] /\ ~result'
                 \/ Stale(control[c]) \/ control[c].kind = "scrollpanel"
<1>1. ASSUME GuiInv, GuiNext PROVE Exclusive
  <2> SUFFICES ASSUME NEW c \in DOMAIN control, turn = c, gui.dragging, IsMouseButtonDown,
                      gui.active # c
               PROVE  \/ control'[c] = control[c] /\ ~result'
                      \/ Stale(control[c]) \/ control[c].kind = "scrollpanel"
    OBVIOUS
  <2>1. GuiShape /\ control \in Seq(Control) /\ ~Between
    <3>1. control \in Seq(Control) /\ DOMAIN control = 1 .. Len(control) /\ Len(control) \in Nat
      BY <1>1 DEF GuiInv, GuiShape
    <3> QED BY <1>1, <3>1 DEF GuiInv, Between
  <2>2. PICK d \in DOMAIN control : GuiCall(d)
    BY <1>1, <2>1 DEF GuiNext, NextFrame, GuiLock, GuiUnlock, GuiDisable, GuiEnable, Sets, SetItems
  <2>3. Call(d, control[d].kind) /\ Called(d) /\ d = c
    <3>1. Call(d, control[d].kind) /\ Called(d)
      BY <1>1, <2>2, GuiCallIsCalled
    <3> QED BY <3>1 DEF Call
  <2>4. PICK k : Becomes(c, k) /\ Undisturbed(c, k)
    BY <2>3 DEF Called
  <2>5. control'[c] = k
    BY <2>1, <2>4, WindowAfter
  <2> QED BY <2>4, <2>5 DEF Undisturbed
<1>2. GuiInv /\ [GuiNext]_guiVars => [Exclusive]_guiVars
  BY <1>1
<1>3. GuiSpec => [][Exclusive]_guiVars
  BY <1>2, GuiInvariant, PTL DEF GuiSpec
<1> QED BY <1>3 DEF DragExclusive

-----------------------------------------------------------------------------
(* The two parts of the game together *)

Game2DInv == GameInv /\ GuiInv

LEMMA Game2DInitInv == Init => Game2DInv
BY GameInitInv, GuiInitInv DEF Init, Game2DInv

LEMMA Game2DNextInv == Game2DInv /\ [Next]_vars => Game2DInv'
<1> SUFFICES ASSUME Game2DInv, [Next]_vars PROVE Game2DInv'
  OBVIOUS
<1>1. [GameNext]_gameVars
  BY DEF Next, vars
<1>2. [GuiNext]_guiVars
  BY DEF Next, vars
<1>3. GameInv'
  BY <1>1, GameNextInv DEF Game2DInv
<1>4. GuiInv'
  BY <1>2, GuiNextInv DEF Game2DInv
<1> QED BY <1>3, <1>4 DEF Game2DInv

LEMMA Game2DInvariant == Spec => []Game2DInv
BY Game2DInitInv, Game2DNextInv, PTL DEF Spec

\* The types of both parts of the game hold side by side: no step of the
\* server and its clients touches the controls, nor the other way round.
THEOREM Game2DTypeCorrect == Spec => []TypeOK
<1>1. Game2DInv => TypeOK
  <2>1. GameInv => GameTypeOK
    BY DEF GameInv
  <2>2. GuiInv => GuiTypeOK
    BY GuiTypes
  <2> QED BY <2>1, <2>2 DEF Game2DInv, TypeOK
<1> QED BY <1>1, Game2DInvariant, PTL

-----------------------------------------------------------------------------
(***************************************************************************)
(* Characters.  As long as no fault has been seen, the texts are of whole  *)
(* characters, and the cursor is between two of them in the text that is   *)
(* edited; otherwise a dialog has just put it behind its stars, or a click *)
(* on another box, which ends the editing, has moved it.                   *)
(***************************************************************************)

TextsWhole == \A c \in DOMAIN control : control[c].kind \in Texts => Whole(control[c].text)

EditedTexts == {c \in DOMAIN control : control[c].edit /\ control[c].kind \in Texts}

BetweenCharacters(c) == ~InsideCharacter(control[c].text, gui.cursor)
AtStars(c) == gui.cursor = Stars /\ control[c].kind = "inputbox"
Leaving(c) == \E b \in DOMAIN control : Presses(b) /\ b < turn /\ turn <= c

CursorRight == \A c \in EditedTexts : BetweenCharacters(c) \/ AtStars(c) \/ Leaving(c)

WholeInv == GuiInv /\ (fault = "no" => TextsWhole /\ CursorRight)

\* The start and the end of a text are not inside a character.
LEMMA WholeEnds ==
  ASSUME NEW t \in Seq(0 .. 2), Whole(t)
  PROVE  ~InsideCharacter(t, 0) /\ ~InsideCharacter(t, Len(t))
<1>1. 0 \in 0 .. Len(t) /\ Len(t) \in Nat
  OBVIOUS
<1> QED BY <1>1 DEF Whole, InsideCharacter

LEMMA ClippedCursor ==
  ASSUME NEW t \in Seq(0 .. 2), Whole(t), NEW i \in Nat, ~InsideCharacter(t, i)
  PROVE  Clip(i, Len(t)) \in 0 .. Len(t) /\ ~InsideCharacter(t, Clip(i, Len(t)))
<1>1. Len(t) \in Nat
  OBVIOUS
<1>2. CASE i > Len(t)
  <2>1. Clip(i, Len(t)) = Len(t)
    BY <1>1, <1>2 DEF Clip
  <2> QED BY <1>1, <2>1, WholeEnds
<1>3. CASE ~(i > Len(t))
  <2>1. Clip(i, Len(t)) = i
    BY <1>1, <1>3 DEF Clip
  <2> QED BY <1>1, <1>3, <2>1
<1> QED BY <1>2, <1>3

\* A character inserted between two others leaves them whole, and the cursor
\* behind it.
LEMMA InsertWhole ==
  ASSUME NEW t \in Seq(0 .. 2), Whole(t), NEW i \in 0 .. Len(t), ~InsideCharacter(t, i)
  PROVE  LET e == InsertCodepoint(t, i) IN
         e.text \in Seq(0 .. 2) /\ Whole(e.text) /\ e.cursor \in 0 .. Len(e.text)
         /\ ~InsideCharacter(e.text, e.cursor)
<1> DEFINE a == SubSeq(t, 1, i)
           b == SubSeq(t, i + 1, Len(t))
           n == CodepointSize
           h == a \o Encoded
           s == h \o b
<1>1. CASE input.char > 0 /\ Len(t) + CodepointSize < BufferSize
  <2>1. InsertCodepoint(t, i).text = s /\ InsertCodepoint(t, i).cursor = i + n
    BY <1>1 DEF InsertCodepoint, Edited
  <2>2. /\ Encoded \in Seq(0 .. 2) /\ n \in {1, 2} /\ Len(Encoded) = n
        /\ n = 1 => Encoded[1] = 1
        /\ n = 2 => Encoded[1] = 2 /\ Encoded[2] = 0
    <3>1. /\ <<2, 0>> \in Seq(0 .. 2) /\ <<1>> \in Seq(0 .. 2)
          /\ Len(<<2, 0>>) = 2 /\ Len(<<1>>) = 1 /\ <<1>>[1] = 1
          /\ <<2, 0>>[1] = 2 /\ <<2, 0>>[2] = 0
      OBVIOUS
    <3> QED BY <3>1 DEF Encoded, CodepointSize
  <2>3. a \in Seq(0 .. 2) /\ Len(a) = i /\ \A j \in 1 .. i : a[j] = t[j]
    <3>1. 1 \in Int /\ i \in Int /\ (\A j \in 1 .. i : t[j] \in 0 .. 2)
      OBVIOUS
    <3>2. /\ a \in Seq(0 .. 2) /\ Len(a) = IF 1 <= i THEN i - 1 + 1 ELSE 0
          /\ \A j \in 1 .. i - 1 + 1 : a[j] = t[1 + j - 1]
      BY <3>1, SubSeqProperties
    <3> HIDE DEF a
    <3> QED BY <3>2
  <2>4. b \in Seq(0 .. 2) /\ Len(b) = Len(t) - i /\ \A j \in 1 .. Len(t) - i : b[j] = t[i + j]
    <3>1. i + 1 \in Int /\ Len(t) \in Int /\ (\A j \in i + 1 .. Len(t) : t[j] \in 0 .. 2)
      OBVIOUS
    <3>2. /\ b \in Seq(0 .. 2) /\ Len(b) = IF i + 1 <= Len(t) THEN Len(t) - (i + 1) + 1 ELSE 0
          /\ \A j \in 1 .. Len(t) - (i + 1) + 1 : b[j] = t[i + 1 + j - 1]
      BY <3>1, SubSeqProperties
    <3>3. /\ Len(t) \in Nat /\ Len(t) - (i + 1) + 1 = Len(t) - i
          /\ i + 1 <= Len(t) \/ Len(t) - i = 0
          /\ \A j \in 1 .. Len(t) - i : i + 1 + j - 1 = i + j
      OBVIOUS
    <3> HIDE DEF b
    <3> QED BY <3>2, <3>3
  <2> HIDE DEF a, b, n
  <2>5. /\ h \in Seq(0 .. 2) /\ Len(h) = i + n
        /\ \A j \in 1 .. i + n : h[j] = IF j <= i THEN t[j] ELSE Encoded[j - i]
    <3>1. /\ h \in Seq(0 .. 2) /\ Len(h) = Len(a) + Len(Encoded)
          /\ \A j \in 1 .. Len(a) + Len(Encoded) :
               h[j] = IF j <= Len(a) THEN a[j] ELSE Encoded[j - Len(a)]
      BY <2>2, <2>3, ConcatProperties
    <3> HIDE DEF h
    <3> QED BY <2>2, <2>3, <3>1
  <2> HIDE DEF h
  <2>6. /\ s \in Seq(0 .. 2) /\ Len(s) = Len(t) + n
        /\ \A j \in 1 .. Len(t) + n : s[j] = IF j <= i + n THEN h[j] ELSE b[j - (i + n)]
    <3>1. /\ s \in Seq(0 .. 2) /\ Len(s) = Len(h) + Len(b)
          /\ \A j \in 1 .. Len(h) + Len(b) :
               s[j] = IF j <= Len(h) THEN h[j] ELSE b[j - Len(h)]
      BY <2>4, <2>5, ConcatProperties
    <3> HIDE DEF s
    <3> QED BY <2>2, <2>4, <2>5, <3>1
  <2> HIDE DEF s
  <2>7. \A j \in 1 .. i : s[j] = t[j]
    BY <2>2, <2>5, <2>6
  <2>8. s[i + 1] = Encoded[1] /\ (n = 2 => s[i + 2] = Encoded[2])
    BY <2>2, <2>5, <2>6
  <2>9. \A j \in i + 1 .. Len(t) : s[j + n] = t[j]
    <3> TAKE j \in i + 1 .. Len(t)
    <3> DEFINE m == j + n
               d == j - i
    <3>1. m \in 1 .. Len(t) + n /\ ~(m <= i + n) /\ m - (i + n) = d
      BY <2>2
    <3>2. d \in 1 .. Len(t) - i /\ i + d = j
      BY <2>2
    <3> HIDE DEF m, d
    <3>3. s[m] = b[d]
      BY <2>6, <3>1
    <3>4. b[d] = t[j]
      BY <2>4, <3>2
    <3> QED BY <3>3, <3>4 DEF m
  <2>10. \A j \in 0 .. Len(t) : (j > 0 /\ t[j] = 2) <=> (j < Len(t) /\ t[j + 1] = 0)
    BY DEF Whole, InsideCharacter
  <2>11. ~(i < Len(t) /\ t[i + 1] = 0)
    BY DEF InsideCharacter
  <2>12. ~(i > 0 /\ t[i] = 2)
    BY <2>10, <2>11
  <2>13. ASSUME NEW j \in 0 .. Len(s)
         PROVE  (j > 0 /\ s[j] = 2) <=> (j < Len(s) /\ s[j + 1] = 0)
    <3>1. CASE j < i
      <4>1. j + 1 \in 1 .. i /\ (j > 0 => j \in 1 .. i) /\ j < Len(t) /\ j < Len(s) /\ j \in 0 .. Len(t)
        BY <2>2, <2>6, <3>1
      <4> QED BY <2>7, <2>10, <4>1
    <3>2. CASE j = i
      <4>1. j < Len(s) /\ s[j + 1] # 0
        BY <2>2, <2>6, <2>8, <3>2
      <4>2. ~(j > 0 /\ s[j] = 2)
        BY <2>7, <2>12, <3>2
      <4> QED BY <4>1, <4>2
    <3>3. CASE j = i + 1 /\ n = 2
      BY <2>2, <2>6, <2>8, <3>3
    <3>4. CASE j = i + n
      <4>1. j > 0 /\ s[j] # 2
        BY <2>2, <2>8, <3>4
      <4>2. CASE i < Len(t)
        <5>1. i + 1 \in i + 1 .. Len(t) /\ i + 1 + n = j + 1
          BY <2>2, <3>4, <4>2
        <5>2. s[j + 1] = t[i + 1]
          BY <2>9, <5>1
        <5> QED BY <2>11, <4>1, <4>2, <5>2
      <4>3. CASE ~(i < Len(t))
        <5>1. ~(j < Len(s))
          BY <2>2, <2>6, <3>4, <4>3
        <5> QED BY <4>1, <5>1
      <4> QED BY <4>2, <4>3
    <3>5. CASE j > i + n
      <4> DEFINE m == j - n
      <4>1. m \in i + 1 .. Len(t) /\ m + n = j /\ m \in 0 .. Len(t) /\ m > 0 /\ j > 0
        BY <2>2, <2>6, <3>5
      <4>2. (j < Len(s)) <=> (m < Len(t))
        BY <2>2, <2>6, <3>5
      <4> HIDE DEF m
      <4>3. s[j] = t[m]
        BY <2>9, <4>1
      <4>4. m < Len(t) => s[j + 1] = t[m + 1]
        <5> HAVE m < Len(t)
        <5>1. m + 1 \in i + 1 .. Len(t) /\ m + 1 + n = j + 1
          BY <2>2, <4>1
        <5> QED BY <2>9, <5>1
      <4> QED BY <2>10, <4>1, <4>2, <4>3, <4>4
    <3> QED BY <2>2, <2>6, <3>1, <3>2, <3>3, <3>4, <3>5
  <2>14. Whole(s)
    BY <2>13 DEF Whole, InsideCharacter
  <2>15. i + n \in 0 .. Len(s) /\ ~InsideCharacter(s, i + n)
    <3>1. i + n \in 0 .. Len(s) /\ s[i + n] # 2
      BY <2>2, <2>6, <2>8
    <3> QED BY <2>13, <3>1 DEF InsideCharacter
  <2> QED BY <2>1, <2>6, <2>14, <2>15
<1>2. CASE ~(input.char > 0 /\ Len(t) + CodepointSize < BufferSize)
  <2>1. InsertCodepoint(t, i).text = t /\ InsertCodepoint(t, i).cursor = i
    BY <1>2 DEF InsertCodepoint, Edited
  <2> QED BY <2>1
<1> QED BY <1>1, <1>2

\* So do the keys that only move the cursor.
LEMMA MovesWhole ==
  ASSUME NEW t \in Seq(0 .. 2), Whole(t), NEW i \in 0 .. Len(t), ~InsideCharacter(t, i),
         input.key \notin {"delete", "backspace"}, NEW e \in Keyed(t, i)
  PROVE  ~Broken(e)
<1>1. Len(t) \in Nat /\ i \in Nat /\ \A j \in 1 .. Len(t) : t[j] \in 0 .. 2
  OBVIOUS
<1>2. \A j \in 0 .. Len(t) : (j > 0 /\ t[j] = 2) <=> (j < Len(t) /\ t[j + 1] = 0)
  BY DEF Whole, InsideCharacter
<1>3. ~(i < Len(t) /\ t[i + 1] = 0)
  BY DEF InsideCharacter
<1>4. ASSUME NEW j, ~InsideCharacter(t, j), e = Edited(t, j) PROVE ~Broken(e)
  BY <1>4 DEF Broken, Edited
<1>5. CASE e \in MoveLeft(t, i)
  <2>1. PICK n \in SizesBefore(t, i) : e = Edited(t, IF i >= n THEN i - n ELSE i)
    BY <1>5 DEF MoveLeft
  <2> DEFINE j == IF i >= n THEN i - n ELSE i
  <2>2. ~(j < Len(t) /\ t[j + 1] = 0)
    <3>1. CASE i = 0
      <4>1. j = 0
        BY <3>1 DEF SizesBefore
      <4> QED BY <1>3, <3>1, <4>1
    <3>2. CASE i > 0 /\ t[i] = 1
      <4>1. n = 1
        BY <3>2 DEF SizesBefore
      <4>2. j = i - 1 /\ j + 1 = i
        BY <1>1, <3>2, <4>1
      <4> QED BY <3>2, <4>2
    <3>3. CASE i > 0 /\ t[i] # 1
      <4>1. n = 2
        BY <3>3 DEF SizesBefore
      <4>2. t[i] = 0
        <5>1. t[i] # 2
          BY <1>2, <1>3, <3>3
        <5> QED BY <1>1, <3>3, <5>1
      <4>3. i - 1 \in 0 .. Len(t) /\ i - 1 < Len(t) /\ i - 1 + 1 = i
        BY <1>1, <3>3
      <4>4. i - 1 > 0 /\ t[i - 1] = 2
        BY <1>2, <4>2, <4>3
      <4>5. j = i - 2 /\ j + 1 = i - 1
        BY <1>1, <4>1, <4>4
      <4> QED BY <4>4, <4>5
    <3> QED BY <1>1, <3>1, <3>2, <3>3
  <2>3. ~InsideCharacter(t, j)
    BY <2>2 DEF InsideCharacter
  <2> HIDE DEF j
  <2>4. e = Edited(t, j)
    BY <2>1 DEF j
  <2> QED BY <1>4, <2>3, <2>4
<1>6. CASE e = MoveRight(t, i)
  <2> DEFINE n == SizeAt(t, i)
             j == IF i + n <= Len(t) THEN i + n ELSE i
  <2>1. ~(j < Len(t) /\ t[j + 1] = 0)
    <3>1. CASE i < Len(t) /\ t[i + 1] = 2
      <4>1. n = 2
        BY <3>1 DEF SizeAt
      <4>2. i + 1 \in 0 .. Len(t) /\ i + 1 > 0
        BY <1>1, <3>1
      <4>3. i + 1 < Len(t) /\ t[i + 1 + 1] = 0
        BY <1>2, <3>1, <4>2
      <4>4. j = i + 2 /\ i + 2 \in 0 .. Len(t) /\ i + 2 = i + 1 + 1 /\ t[i + 2] # 2
        BY <1>1, <4>1, <4>3
      <4> HIDE DEF j
      <4> QED BY <1>2, <4>4
    <3>2. CASE i < Len(t) /\ t[i + 1] # 2
      <4>1. n = 1
        BY <3>2 DEF SizeAt
      <4>2. j = i + 1 /\ i + 1 \in 0 .. Len(t)
        BY <1>1, <3>2, <4>1
      <4> HIDE DEF j
      <4> QED BY <1>2, <3>2, <4>2
    <3>3. CASE ~(i < Len(t))
      <4>1. n = 1
        BY <3>3 DEF SizeAt
      <4>2. j = i
        BY <1>1, <3>3, <4>1
      <4> QED BY <3>3, <4>2
    <3> QED BY <3>1, <3>2, <3>3
  <2>2. e = Edited(t, j)
    BY <1>6 DEF MoveRight
  <2> HIDE DEF j
  <2>3. ~InsideCharacter(t, j)
    BY <2>1 DEF InsideCharacter
  <2> QED BY <1>4, <2>2, <2>3
<1>7. CASE e = Edited(t, 0) \/ e = Edited(t, Len(t)) \/ e = Edited(t, i)
  BY <1>4, <1>7, WholeEnds
<1>8. \/ e \in MoveLeft(t, i) \/ e = MoveRight(t, i)
      \/ e = Edited(t, 0) \/ e = Edited(t, Len(t)) \/ e = Edited(t, i)
  BY DEF Keyed
<1> QED BY <1>5, <1>6, <1>7, <1>8

-----------------------------------------------------------------------------
(* What calls make of the texts and of the cursor *)

LEMMA OthersKeepCursor ==
  ASSUME GuiInv, NEW c \in DOMAIN control, GuiCall(c), control[c].kind \notin Texts
  PROVE  gui'.cursor = gui.cursor /\ fault' = fault
<1>1. gui \in [state : {"NORMAL", "DISABLED"}, locked : BOOLEAN, dragging : BOOLEAN,
               active : 0 .. Len(control), cursor : Nat]
  BY DEF GuiInv, GuiShape, Globals
<1>2. ASSUME NEW starts, gui' = Dragged(c, starts) PROVE gui'.cursor = gui.cursor
  BY <1>1, <1>2 DEF Dragged
<1>3. CASE GuiTextBox(c) \/ GuiTextInputBox(c)
  BY <1>3 DEF GuiTextBox, GuiTextInputBox, Call, Texts
<1>4. CASE GuiSliderPro(c) \/ GuiColorBarAlpha(c) \/ GuiColorBarHue(c)
  BY <1>2, <1>4 DEF GuiSliderPro, GuiColorBarAlpha, GuiColorBarHue, Slid
<1>5. CASE GuiListView(c) \/ GuiScrollPanel(c)
  <2>1. Bar(c) /\ UNCHANGED fault
    BY <1>5 DEF GuiListView, GuiScrollPanel
  <2> QED BY <1>2, <2>1 DEF Bar
<1>6. CASE GuiValueBox(c) \/ GuiSpinner(c)
  BY <1>6 DEF GuiValueBox, GuiSpinner, Boxed
<1>7. CASE \/ GuiButton(c) \/ GuiLabelButton(c) \/ GuiToggle(c) \/ GuiCheckBox(c)
           \/ GuiToggleGroup(c) \/ GuiTabBar(c) \/ GuiToggleSlider(c)
           \/ GuiComboBox(c) \/ GuiDropdownBox(c) \/ GuiColorPanel(c)
  <2>1. UNCHANGED <<gui, fault>>
    BY <1>7 DEF GuiButton, GuiLabelButton, GuiToggle, GuiCheckBox, GuiToggleGroup, GuiTabBar,
       GuiToggleSlider, GuiComboBox, GuiDropdownBox, GuiColorPanel
  <2> QED BY <2>1
<1> QED BY <1>3, <1>4, <1>5, <1>6, <1>7 DEF GuiCall

\* A text box shows length bytes, or as many stars.
LEMMA TextCall ==
  ASSUME GuiInv, NEW c \in DOMAIN control, GuiCall(c), control[c].kind \in Texts
  PROVE  \E length \in Nat : \E e \in TextBox(c, control[c], length) :
           /\ length = Len(control[c].text) \/ (length = Stars /\ control[c].kind = "inputbox")
           /\ control'[c].text = e.text
           /\ control'[c].edit => (control[c].edit # Ended(c, control[c]))
           /\ gui'.cursor = IF control[c].edit /\ Ended(c, control[c]) THEN 0 ELSE e.cursor
           /\ fault' = IF control[c].edit /\ e.fault = "no" /\ Broken(e) THEN "inside" ELSE e.fault
<1> DEFINE k == control[c]
<1>1. /\ control \in Seq(Control) /\ k \in Control /\ Len(k.text) \in Nat /\ k.edit \in BOOLEAN
      /\ gui \in [state : {"NORMAL", "DISABLED"}, locked : BOOLEAN, dragging : BOOLEAN,
                  active : 0 .. Len(control), cursor : Nat]
  BY Cell DEF GuiInv, GuiShape, Right, Globals
<1>2. ASSUME NEW m, control' = [control EXCEPT ![c] = m] PROVE control'[c] = m
  BY <1>1, <1>2
<1>3. ASSUME NEW e, Edits(c, k, e)
      PROVE  /\ gui'.cursor = IF k.edit /\ Ended(c, k) THEN 0 ELSE e.cursor
             /\ fault' = IF k.edit /\ e.fault = "no" /\ Broken(e) THEN "inside" ELSE e.fault
  <2> DEFINE i == IF k.edit /\ Ended(c, k) THEN 0 ELSE e.cursor
  <2>1. gui' = [gui EXCEPT !.cursor = i]
    BY <1>3 DEF Edits
  <2> HIDE DEF i, k
  <2>2. gui'.cursor = i
    BY <1>1, <2>1
  <2> QED BY <1>3, <2>2 DEF Edits, i
<1>4. CASE GuiTextBox(c)
  <2> DEFINE edit == (k.edit # Ended(c, k))
  <2>1. PICK e \in TextBox(c, k, Len(k.text)) :
          control' = [control EXCEPT ![c] = [k EXCEPT !.text = e.text, !.edit = edit]]
          /\ Edits(c, k, e)
    BY <1>4 DEF GuiTextBox, Returns
  <2>2. control'[c] = [k EXCEPT !.text = e.text, !.edit = edit]
    BY <1>2, <2>1
  <2> HIDE DEF k, edit
  <2>3. control'[c].text = e.text /\ control'[c].edit = edit
    BY <1>1, <2>2 DEF Control
  <2> QED BY <1>1, <1>3, <2>1, <2>3 DEF k, edit
<1>5. CASE GuiTextInputBox(c)
  <2> DEFINE length == IF k.secret THEN Len(k.text) ELSE Stars
             answered == Clicked(c) /\ input.part = "side" /\ input.x # 1
             secret == (k.secret # (Clicked(c) /\ input.part = "side" /\ input.x = 1))
             edit == (k.edit # Ended(c, k)) /\ ~answered
  <2>1. PICK e \in TextBox(c, k, length) :
          /\ control' = [control EXCEPT ![c] = [k EXCEPT !.text = e.text, !.secret = secret,
                                                         !.edit = edit]]
          /\ Edits(c, k, e)
    BY <1>5 DEF GuiTextInputBox, Returns
  <2>2. control'[c] = [k EXCEPT !.text = e.text, !.secret = secret, !.edit = edit]
    BY <1>2, <2>1
  <2>3. edit => (k.edit # Ended(c, k))
    OBVIOUS
  <2>4. length \in Nat /\ (length = Len(k.text) \/ (length = Stars /\ k.kind = "inputbox"))
    BY <1>1, <1>5 DEF GuiTextInputBox, Call, Stars
  <2> HIDE DEF k, edit, secret, length
  <2>5. control'[c].text = e.text /\ control'[c].edit = edit
    BY <1>1, <2>2 DEF Control
  <2> QED BY <1>3, <2>1, <2>3, <2>4, <2>5 DEF k
<1>6. GuiTextBox(c) \/ GuiTextInputBox(c)
  <2>1. ~(GuiButton(c) \/ GuiLabelButton(c) \/ GuiToggle(c) \/ GuiCheckBox(c))
    BY DEF GuiButton, GuiLabelButton, GuiToggle, GuiCheckBox, Call, Texts
  <2>2. ~(GuiToggleGroup(c) \/ GuiTabBar(c) \/ GuiToggleSlider(c) \/ GuiComboBox(c))
    BY DEF GuiToggleGroup, GuiTabBar, GuiToggleSlider, GuiComboBox, Call, Texts
  <2>3. ~(GuiDropdownBox(c) \/ GuiColorPanel(c) \/ GuiListView(c) \/ GuiScrollPanel(c))
    BY DEF GuiDropdownBox, GuiColorPanel, GuiListView, GuiScrollPanel, Call, Texts
  <2>4. ~(GuiSliderPro(c) \/ GuiColorBarAlpha(c) \/ GuiColorBarHue(c))
    BY DEF GuiSliderPro, GuiColorBarAlpha, GuiColorBarHue, Call, Texts
  <2>5. ~(GuiValueBox(c) \/ GuiSpinner(c))
    BY DEF GuiValueBox, GuiSpinner, Call, Texts
  <2> QED BY <2>1, <2>2, <2>3, <2>4, <2>5 DEF GuiCall
<1> QED BY <1>4, <1>5, <1>6

\* Without an erasure, a click or a cursor behind stars no character breaks.
LEMMA TypingIsWhole ==
  ASSUME WholeInv, NEW c \in DOMAIN control, GuiCall(c), fault' = "inside"
  PROVE  \/ input.key \in {"delete", "backspace"}
         \/ IsMouseButtonPressed
         \/ AtStars(c)
<1> SUFFICES ASSUME input.key \notin {"delete", "backspace"}, ~IsMouseButtonPressed, ~AtStars(c)
             PROVE  FALSE
  OBVIOUS
<1> DEFINE k == control[c]
           t == k.text
           i == Clip(gui.cursor, Len(t))
           typed == InsertCodepoint(t, i)
<1>1. GuiInv /\ GuiShape /\ fault = "no" /\ TextsWhole /\ CursorRight
  <2>1. Call(c, k.kind)
    BY GuiCallIsCalled DEF WholeInv
  <2> QED BY <2>1 DEF WholeInv, GuiInv, Call
<1>2. k.kind \in Texts
  BY <1>1, OthersKeepCursor
<1>3. PICK length \in Nat : \E e \in TextBox(c, k, length) :
        fault' = IF k.edit /\ e.fault = "no" /\ Broken(e) THEN "inside" ELSE e.fault
  BY <1>1, <1>2, TextCall
<1>4. PICK e \in TextBox(c, k, length) :
        fault' = IF k.edit /\ e.fault = "no" /\ Broken(e) THEN "inside" ELSE e.fault
  BY <1>3
<1>5. e.fault \in {"no", "outside"}
  <2>1. Fits(e)
    BY <1>1, <1>2, TextBoxFits
  <2> QED BY <2>1 DEF Fits
<1>6. k.edit /\ Broken(e)
  <2>1. e.fault # "inside"
    BY <1>5
  <2> HIDE DEF k
  <2> QED BY <1>4, <2>1
<1>7. t \in Seq(0 .. 2) /\ Whole(t) /\ gui.cursor \in Nat
  BY <1>1, <1>2, Cell DEF TextsWhole
<1>8. ~InsideCharacter(t, gui.cursor)
  <2>1. c \in EditedTexts /\ ~Leaving(c)
    BY <1>2, <1>6 DEF EditedTexts, Leaving, Presses
  <2> QED BY <1>1, <2>1 DEF CursorRight, BetweenCharacters
<1>9. CASE Free
  <2>1. i \in 0 .. Len(t) /\ ~InsideCharacter(t, i)
    BY <1>7, <1>8, ClippedCursor
  <2>2. PICK f \in Keyed(typed.text, typed.cursor) : e \in Placed(c, f)
    BY <1>6, <1>9 DEF TextBox
  <2>3. e = f
    BY <2>2 DEF Placed
  <2> HIDE DEF i, t
  <2>4. /\ typed.text \in Seq(0 .. 2) /\ Whole(typed.text)
        /\ typed.cursor \in 0 .. Len(typed.text) /\ ~InsideCharacter(typed.text, typed.cursor)
    BY <1>7, <2>1, InsertWhole
  <2> HIDE DEF typed
  <2>5. ~Broken(f)
    BY <2>2, <2>4, MovesWhole
  <2> QED BY <1>6, <2>3, <2>5
<1>10. CASE ~Free
  <2>1. e = Edited(t, gui.cursor)
    BY <1>4, <1>10 DEF TextBox, Ended
  <2>2. e.text = t /\ e.cursor = gui.cursor
    BY <2>1 DEF Edited
  <2> QED BY <1>6, <1>7, <1>8, <2>2 DEF Broken
<1> QED BY <1>9, <1>10

\* A text that is not called, and that is edited, has the cursor as before, or
\* the control called has moved it.
LEMMA NeighbourKeeps ==
  ASSUME WholeInv, NEW c \in DOMAIN control, GuiCall(c), NEW d \in EditedTexts', d # c
  PROVE  /\ d \in EditedTexts /\ control'[d] = control[d]
         /\ gui'.cursor = gui.cursor => (BetweenCharacters(d) \/ AtStars(d) \/ Leaving(d))'
<1>1. GuiInv /\ GuiShape /\ Call(c, control[c].kind) /\ Called(c) /\ CursorRight
      /\ control \in Seq(Control)
  <2>1. GuiInv /\ Call(c, control[c].kind) /\ Called(c)
    BY GuiCallIsCalled DEF WholeInv
  <2> QED BY <2>1 DEF WholeInv, GuiInv, GuiShape, Call
<1>2. PICK k : Becomes(c, k)
  BY <1>1 DEF Called
<1>3. /\ DOMAIN control' = DOMAIN control /\ DOMAIN control = 1 .. Len(control)
      /\ Len(control) \in Nat
      /\ control'[c] = k /\ \A e \in DOMAIN control : e # c => control'[e] = control[e]
  BY <1>1, <1>2, WindowAfter
<1>4. d \in DOMAIN control /\ control'[d] = control[d] /\ d \in EditedTexts
  BY <1>3 DEF EditedTexts
<1>5. ASSUME gui'.cursor = gui.cursor PROVE (BetweenCharacters(d) \/ AtStars(d) \/ Leaving(d))'
  <2>1. CASE BetweenCharacters(d)
    BY <1>4, <1>5, <2>1 DEF BetweenCharacters, InsideCharacter
  <2>2. CASE AtStars(d)
    BY <1>4, <1>5, <2>2 DEF AtStars
  <2>3. CASE Leaving(d)
    <3>1. PICK b \in DOMAIN control : Presses(b) /\ b < turn /\ turn <= d
      BY <2>3 DEF Leaving
    <3>2. turn = c /\ turn' = c + 1
      BY <1>1 DEF Call
    <3>3. c # Len(control) /\ c + 1 <= d /\ b < c + 1
      BY <1>3, <1>4, <3>1, <3>2
    <3>4. Presses(b)'
      BY <1>1, <3>1, <3>3, PressesAfter
    <3> QED BY <1>3, <3>2, <3>3, <3>4 DEF Leaving
  <2> QED BY <1>1, <1>4, <2>1, <2>2, <2>3 DEF CursorRight
<1> QED BY <1>4, <1>5

LEMMA CallWhole ==
  ASSUME WholeInv, NEW c \in DOMAIN control, GuiCall(c), fault' = "no"
  PROVE  TextsWhole' /\ CursorRight'
<1> DEFINE o == control[c]
<1>1. GuiInv /\ GuiShape /\ Call(c, o.kind) /\ Called(c) /\ fault = "no" /\ turn = c /\ turn' = c + 1
      /\ control \in Seq(Control) /\ TextsWhole /\ CursorRight /\ OneOrTaken /\ TakenOver
  <2>1. GuiInv /\ Call(c, o.kind) /\ Called(c)
    BY GuiCallIsCalled DEF WholeInv
  <2> QED BY <2>1 DEF WholeInv, GuiInv, GuiShape, Call
<1>2. PICK k : Becomes(c, k)
  BY <1>1 DEF Called
<1>3. /\ DOMAIN control' = DOMAIN control /\ DOMAIN control = 1 .. Len(control)
      /\ Len(control) \in Nat
      /\ control'[c] = k /\ \A e \in DOMAIN control : e # c => control'[e] = control[e]
  BY <1>1, <1>2, WindowAfter
<1>4. control'[c].kind = o.kind
  BY <1>2, <1>3 DEF Becomes
<1>5. ASSUME NEW d \in EditedTexts', d # c, gui'.cursor = gui.cursor
      PROVE  (BetweenCharacters(d) \/ AtStars(d) \/ Leaving(d))'
  BY <1>5, NeighbourKeeps
<1>6. ASSUME NEW d \in DOMAIN control, d # c, control[d].kind \in Texts PROVE Whole(control'[d].text)
  BY <1>1, <1>3, <1>6 DEF TextsWhole
<1>7. CASE o.kind \notin Texts
  <2>1. gui'.cursor = gui.cursor
    BY <1>1, <1>7, OthersKeepCursor
  <2>2. c \notin EditedTexts'
    BY <1>4, <1>7 DEF EditedTexts
  <2>3. CursorRight'
    BY <1>5, <2>1, <2>2 DEF CursorRight
  <2>4. TextsWhole'
    BY <1>3, <1>4, <1>6, <1>7 DEF TextsWhole
  <2> QED BY <2>3, <2>4
<1>8. CASE o.kind \in Texts
  <2>1. PICK length \in Nat : \E e \in TextBox(c, o, length) :
          /\ length = Len(o.text) \/ (length = Stars /\ o.kind = "inputbox")
          /\ control'[c].text = e.text
          /\ control'[c].edit => (o.edit # Ended(c, o))
          /\ gui'.cursor = IF o.edit /\ Ended(c, o) THEN 0 ELSE e.cursor
          /\ fault' = IF o.edit /\ e.fault = "no" /\ Broken(e) THEN "inside" ELSE e.fault
    BY <1>1, <1>8, TextCall
  <2>2. PICK e \in TextBox(c, o, length) :
          /\ length = Len(o.text) \/ (length = Stars /\ o.kind = "inputbox")
          /\ control'[c].text = e.text
          /\ control'[c].edit => (o.edit # Ended(c, o))
          /\ gui'.cursor = IF o.edit /\ Ended(c, o) THEN 0 ELSE e.cursor
          /\ fault' = IF o.edit /\ e.fault = "no" /\ Broken(e) THEN "inside" ELSE e.fault
    BY <2>1
  <2>3. o.text \in Seq(0 .. 2) /\ Whole(o.text) /\ o.edit \in BOOLEAN
    BY <1>1, <1>8, Cell DEF TextsWhole
  <2>4. o.edit => ~Broken(e)
    <3> HIDE DEF o
    <3> QED BY <2>2
  <2>5. ~o.edit => e.text = o.text /\ e.cursor = IF Ended(c, o) THEN length ELSE gui.cursor
    BY DEF TextBox, Edited
  <2>6. Whole(control'[c].text)
    BY <2>2, <2>3, <2>4, <2>5 DEF Broken
  <2>7. TextsWhole'
    BY <1>3, <1>6, <2>6 DEF TextsWhole
  <2>8. ASSUME c \in EditedTexts' PROVE (BetweenCharacters(c) \/ AtStars(c))'
    <3>1. o.edit # Ended(c, o)
      BY <2>2, <2>8 DEF EditedTexts
    <3>2. CASE o.edit
      <4>1. ~Ended(c, o) /\ ~InsideCharacter(e.text, e.cursor)
        BY <2>4, <3>1, <3>2 DEF Broken
      <4>2. gui'.cursor = e.cursor /\ control'[c].text = e.text
        BY <2>2, <4>1
      <4> QED BY <4>1, <4>2 DEF BetweenCharacters, InsideCharacter
    <3>3. CASE ~o.edit
      <4>1. gui'.cursor = length /\ control'[c].text = o.text
        <5>1. Ended(c, o)
          BY <2>3, <3>1, <3>3 DEF Ended
        <5> QED BY <2>2, <2>5, <3>3, <5>1
      <4>2. CASE length = Len(o.text)
        <5>1. ~InsideCharacter(o.text, Len(o.text))
          BY <2>3, WholeEnds
        <5> QED BY <4>1, <4>2, <5>1 DEF BetweenCharacters, InsideCharacter
      <4>3. CASE length = Stars /\ o.kind = "inputbox"
        BY <1>4, <4>1, <4>3 DEF AtStars
      <4> QED BY <2>2, <4>2, <4>3
    <3> QED BY <3>2, <3>3
  <2>9. ASSUME NEW d \in EditedTexts', d # c PROVE (BetweenCharacters(d) \/ AtStars(d) \/ Leaving(d))'
    <3>1. d \in EditedTexts /\ control'[d] = control[d] /\ d \in EditedBoxes
          /\ d \in 1 .. Len(control) /\ c \in 1 .. Len(control)
      <4>1. d \in EditedTexts /\ control'[d] = control[d]
        BY <2>9, NeighbourKeeps
      <4> QED BY <1>3, <4>1 DEF EditedTexts, EditedBoxes, Boxes
    <3>2. CASE gui'.cursor = gui.cursor
      BY <1>5, <2>9, <3>2
    <3>3. CASE o.edit
      <4>1. c \in EditedBoxes
        BY <1>8, <3>3 DEF EditedBoxes, Boxes
      <4>2. ~(c < d)
        BY <1>1, <3>1, <4>1 DEF OneOrTaken
      <4>3. d < c /\ Presses(d)
        <5>1. d < c
          BY <2>9, <3>1, <4>2
        <5> QED BY <1>1, <3>1, <4>1, <5>1 DEF OneOrTaken
      <4>4. Ended(c, o)
        BY <2>9, <3>3, <4>3 DEF Presses, Ended, On, Inside
      <4>5. gui'.cursor = 0
        BY <2>2, <3>3, <4>4
      <4>6. control[d].text \in Seq(0 .. 2) /\ Whole(control[d].text)
        BY <1>1, <3>1, Cell DEF TextsWhole, EditedTexts
      <4>7. ~InsideCharacter(control[d].text, 0)
        BY <4>6, WholeEnds
      <4> QED BY <3>1, <4>5, <4>7 DEF BetweenCharacters, InsideCharacter
    <3>4. CASE ~o.edit /\ Ended(c, o)
      <4>1. Presses(c)
        BY <1>8, <3>4 DEF Ended, Presses, Boxes
      <4>2. ~(d < turn)
        BY <1>1, <2>9, <3>1, <4>1 DEF TakenOver
      <4>3. c # Len(control) /\ c + 1 <= d /\ c < c + 1
        BY <1>1, <1>3, <2>9, <3>1, <4>2
      <4>4. Presses(c)'
        BY <1>1, <4>1, <4>3, PressesAfter
      <4> QED BY <1>1, <1>3, <4>3, <4>4 DEF Leaving
    <3>5. CASE ~o.edit /\ ~Ended(c, o)
      <4>1. gui'.cursor = gui.cursor
        BY <2>2, <2>5, <3>5
      <4> QED BY <3>2, <4>1
    <3> QED BY <3>3, <3>4, <3>5
  <2>10. CursorRight'
    BY <2>8, <2>9 DEF CursorRight
  <2> QED BY <2>7, <2>10
<1> QED BY <1>7, <1>8

-----------------------------------------------------------------------------
(* What the program does between frames *)

LEMMA BetweenWhole ==
  ASSUME WholeInv, Between, GuiInv', fault' = fault, gui'.cursor = gui.cursor,
         DOMAIN control' = DOMAIN control,
         \A c \in DOMAIN control : /\ control'[c].kind = control[c].kind
                                   /\ control'[c].text = control[c].text
                                   /\ control'[c].edit = control[c].edit
  PROVE  WholeInv'
<1>1. TextsWhole /\ CursorRight
  BY DEF WholeInv, Between
<1>2. DOMAIN control = 1 .. Len(control) /\ Len(control) \in Nat /\ turn \in {0, Len(control) + 1}
  BY DEF WholeInv, GuiInv, GuiShape, Between
<1>3. TextsWhole'
  BY <1>1 DEF TextsWhole
<1>4. ASSUME NEW c \in EditedTexts' PROVE BetweenCharacters(c)' \/ AtStars(c)'
  <2>1. c \in EditedTexts /\ c \in DOMAIN control
    BY <1>4 DEF EditedTexts
  <2>2. ~Leaving(c)
    BY <1>2, <2>1 DEF Leaving
  <2>3. BetweenCharacters(c) \/ AtStars(c)
    BY <1>1, <2>1, <2>2 DEF CursorRight
  <2> QED BY <2>1, <2>3 DEF BetweenCharacters, AtStars, InsideCharacter
<1>5. CursorRight'
  BY <1>4 DEF CursorRight
<1> QED BY <1>3, <1>5 DEF WholeInv

LEMMA WholeInit ==
  ASSUME GuiInit
  PROVE  WholeInv
<1>1. GuiInv
  BY GuiInitInv
<1>2. PICK w \in Windows : control = [c \in DOMAIN w |-> NewControl(w[c])]
  BY DEF GuiInit
<1>3. \A c \in DOMAIN control : control[c].text = <<>> /\ control[c].edit = FALSE
  BY <1>2 DEF NewControl
<1>4. Whole(<<>>)
  <2>1. Len(<<>>) = 0
    OBVIOUS
  <2> QED BY <2>1 DEF Whole, InsideCharacter
<1>5. TextsWhole /\ CursorRight
  <2>1. TextsWhole
    BY <1>3, <1>4 DEF TextsWhole
  <2>2. EditedTexts = {}
    BY <1>3 DEF EditedTexts
  <2> QED BY <2>1, <2>2 DEF CursorRight
<1> QED BY <1>1, <1>5 DEF WholeInv

LEMMA WholeNextInv ==
  ASSUME WholeInv, [GuiNext]_guiVars
  PROVE  WholeInv'
<1>1. GuiInv /\ GuiInv' /\ GuiShape
  <2>1. GuiInv /\ GuiInv'
    BY GuiNextInv DEF WholeInv
  <2> QED BY <2>1 DEF GuiInv
<1>2. CASE NextFrame
  BY <1>1, <1>2, BetweenWhole DEF NextFrame
<1>3. CASE GuiLock \/ GuiUnlock \/ GuiDisable \/ GuiEnable
  <2>1. PICK g : Sets(g) /\ g.cursor = gui.cursor
    <3>1. gui \in [state : {"NORMAL", "DISABLED"}, locked : BOOLEAN, dragging : BOOLEAN,
                   active : 0 .. Len(control), cursor : Nat]
      BY <1>1 DEF GuiShape, Globals
    <3>2. \A b : [gui EXCEPT !.locked = b].cursor = gui.cursor
                 /\ [gui EXCEPT !.state = b].cursor = gui.cursor
      BY <3>1
    <3> QED BY <1>3, <3>2 DEF GuiLock, GuiUnlock, GuiDisable, GuiEnable
  <2> QED BY <1>1, <2>1, BetweenWhole DEF Sets
<1>4. ASSUME NEW c \in DOMAIN control, NEW n \in ItemCounts, SetItems(c, n) PROVE WholeInv'
  <2>1. Between /\ control' = [control EXCEPT ![c].items = n] /\ UNCHANGED <<gui, fault>>
    BY <1>4 DEF SetItems
  <2>2. DOMAIN control' = DOMAIN control
    BY <2>1
  <2>3. ASSUME NEW d \in DOMAIN control
        PROVE  /\ control'[d].kind = control[d].kind /\ control'[d].text = control[d].text
               /\ control'[d].edit = control[d].edit
    <3>1. control[d] \in Control
      BY <1>1, Cell DEF Right
    <3>2. CASE d = c
      <4>1. control'[d] = [control[d] EXCEPT !.items = n]
        BY <1>1, <2>1, <3>2 DEF GuiShape
      <4> QED BY <3>1, <4>1 DEF Control
    <3>3. CASE d # c
      BY <1>1, <2>1, <3>3 DEF GuiShape
    <3> QED BY <3>2, <3>3
  <2> QED BY <1>1, <2>1, <2>2, <2>3, BetweenWhole
<1>5. ASSUME NEW c \in DOMAIN control, GuiCall(c) PROVE WholeInv'
  <2>1. fault' = "no" => TextsWhole' /\ CursorRight'
    BY <1>5, CallWhole
  <2> QED BY <1>1, <2>1 DEF WholeInv
<1>6. CASE UNCHANGED guiVars
  <2>1. UNCHANGED <<gui, control, input, turn, fault>>
    BY <1>6 DEF guiVars
  <2>2. (fault = "no" => TextsWhole /\ CursorRight)'
    BY <2>1 DEF WholeInv, TextsWhole, CursorRight, EditedTexts, BetweenCharacters, AtStars,
       Leaving, Presses, Free, Enabled, On, Inside, IsMouseButtonPressed
  <2> QED BY <1>1, <2>2 DEF WholeInv
<1> QED BY <1>2, <1>3, <1>4, <1>5, <1>6 DEF GuiNext

LEMMA WholeInvariant == GuiSpec => []WholeInv
BY WholeInit, WholeNextInv, PTL DEF GuiSpec

\* A character of a text is never torn, nor the cursor put inside one, by
\* typing or by the keys that move the cursor, through every insertion and
\* every move over characters of one or two bytes: it takes an erasure, a
\* click, or a dialog that was clicked while it showed stars.
THEOREM TypingIsClean == GuiSpec => TypingKeepsWhole
<1> DEFINE Clean ==
             fault' = "inside" =>
               \/ fault = "inside"
               \/ input.key \in {"delete", "backspace"}
               \/ input.button = "pressed"
               \/ gui.cursor = Stars /\ control[turn].kind = "inputbox"
<1>1. ASSUME WholeInv, GuiNext PROVE Clean
  <2> SUFFICES ASSUME fault' = "inside", fault # "inside"
               PROVE  \/ input.key \in {"delete", "backspace"}
                      \/ input.button = "pressed"
                      \/ gui.cursor = Stars /\ control[turn].kind = "inputbox"
    OBVIOUS
  <2>1. PICK c \in DOMAIN control : GuiCall(c)
    BY <1>1 DEF GuiNext, NextFrame, GuiLock, GuiUnlock, GuiDisable, GuiEnable, Sets, SetItems
  <2>2. turn = c
    BY <1>1, <2>1, GuiCallIsCalled DEF WholeInv, Call
  <2>3. input.key \in {"delete", "backspace"} \/ IsMouseButtonPressed \/ AtStars(c)
    BY <1>1, <2>1, TypingIsWhole
  <2> QED BY <2>2, <2>3 DEF IsMouseButtonPressed, AtStars
<1>2. WholeInv /\ [GuiNext]_guiVars => [Clean]_guiVars
  BY <1>1
<1>3. GuiSpec => [][Clean]_guiVars
  BY <1>2, WholeInvariant, PTL DEF GuiSpec
<1> QED BY <1>3 DEF TypingKeepsWhole
=============================================================================
