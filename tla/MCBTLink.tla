------------------------------ MODULE MCBTLink ------------------------------
(* An instance of BTLink: four lines, the second of them log text.        *)
EXTENDS BTLink

SomeLogLines == {2}

=============================================================================
