--------------------------- MODULE MCRobotControl ---------------------------
(* Instances of RobotControl: speeds of a few milliseconds.                *)
EXTENDS RobotControl

Press(buttons) == [AtEase EXCEPT !.buttons = buttons]

\* Joystick states that between them do everything the handler does, some of
\* them several things at once.
SomeJoysticks ==
  {AtEase, [AtEase EXCEPT !.walk = TRUE],
   Press({"S"}), Press({"C", "S"}),
   [Press({"X"}) EXCEPT !.walk = TRUE],
   Press({"Up", "Select"}),
   [Press({"Down", "L2R2", "L1"}) EXCEPT !.RightX = 1, !.RightY = -1]}

\* A walker that also turns, for the runs about movements alone.
Walking == {AtEase, [AtEase EXCEPT !.walk = TRUE], Press({"S"})}

OneAim == {<<-1, 1>>}

NoAim == {}

=============================================================================
