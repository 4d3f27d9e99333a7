---------------------------- MODULE MCHttpExchange ----------------------------
(* Instance of HttpExchange for TLC.  Four attempts to read instead of ten  *)
(* and a buffer of sixteen bytes instead of 2048: the requests are as long, *)
(* against those, as real ones are against the real numbers.                *)
EXTENDS HttpExchange

Line(is, end) == [is |-> is, end |-> end]
Ask(lines, length, body) == [lines |-> lines, length |-> length, body |-> body]

Gets == {Ask(<<Line("get", 4), Line("other", 7), Line("blank", 9)>>, 0, 0),
         Ask(<<Line("get", 6), Line("blank", 8)>>, 0, 0),                     \* ends too soon
         Ask(<<Line("get", 4), Line("close", 7), Line("blank", 9)>>, 0, 0),
         Ask(<<Line("get", 4), Line("bad", 7), Line("blank", 9)>>, 0, 0),
         Ask(<<Line("get", 4), Line("other", 15), Line("blank", 17)>>, 0, 0)}  \* over the buffer

Posts == {Ask(<<Line("post", 4), Line("close", 7), Line("blank", 9)>>, 0, 0),
          Ask(<<Line("post", 4), Line("length", 7), Line("blank", 9)>>, 3, 3),
          Ask(<<Line("post", 4), Line("length", 7), Line("blank", 9)>>, 2, 5)}  \* and a tail

GetsAndPosts == Gets \cup Posts
===============================================================================
