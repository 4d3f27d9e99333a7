------------------------------ MODULE MCAsyncLog ------------------------------
(* Instance of AsyncLog for TLC: two loggers of two lines each, a queue of *)
(* two, a file for every two lines and one midnight.                       *)
EXTENDS AsyncLog

Lines == Loggers \X (1..MaxLines)
TheWriter == {Writer}
===============================================================================
