------------------------- MODULE MCCapturedCommand -------------------------
\* Instances of CapturedCommand.
EXTENDS CapturedCommand
=============================================================================
