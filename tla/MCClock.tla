------------------------------ MODULE MCClock ------------------------------
EXTENDS Clock

\* The end of a year: every field changes at once.
MCCalendar == <<
  <<59, 59, 23, 31, 12, 24>>,
  <<0, 0, 0, 1, 1, 25>>,
  <<1, 0, 0, 1, 1, 25>>,
  <<2, 0, 0, 1, 1, 25>> >>
=============================================================================
