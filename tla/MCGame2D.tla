------------------------------ MODULE MCGame2D ------------------------------
(***************************************************************************)
(* The two parts of the 2D game, its server with its clients and the       *)
(* controls of raygui it carries, checked side by side: a behaviour is one *)
(* of the part it starts with, and the other stays in its initial state.   *)
(***************************************************************************)
EXTENDS GameServer, Gui

VARIABLE part

vars == <<gameVars, guiVars, part>>

Init ==
  /\ GameInit /\ GuiInit
  /\ \/ part = "gui"
     \/ part = "game" /\ control[1].kind = "inputbox"

Next ==
  \/ part = "game" /\ GameNext /\ UNCHANGED <<guiVars, part>>
  \/ part = "gui" /\ GuiNext /\ UNCHANGED <<gameVars, part>>

Spec == Init /\ [][Next]_vars /\ (part = "game" => GameFairness)

\* The types of the two parts.
TypeOK == GameTypeOK /\ GuiTypeOK

Frames == <<0, 0, 1>>

MenuWindows ==
  {<<"inputbox">>, <<"slider", "hue", "button">>, <<"alpha", "labelbutton", "colorpanel">>,
   <<"slider", "list">>, <<"scrollpanel", "toggleslider">>, <<"dropdown", "checkbox">>,
   <<"tabs", "combo">>, <<"group", "toggle">>, <<"spinner">>, <<"valuebox", "textbox">>}
=============================================================================
