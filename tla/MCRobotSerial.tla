---------------------------- MODULE MCRobotSerial ----------------------------
(* Instances of RobotSerial: payloads of a few bytes instead of 20.        *)
EXTENDS RobotSerial

\* Buttons only: every byte is 0 or 1.
ButtonStates == {<<{}, {}, {}>>, <<{0}, {}, {0}>>}

SmallAims == {<<{0}, {}>>, <<{0}, {0, 1, 2}>>}

\* A damaged byte becomes a header, a button or a wrong value.
SomeNoise == {C, A, {}, {0}, {2}}

==============================================================================
