--------------------------- MODULE MCStreamChecker ---------------------------
(***************************************************************************)
(* Small instances of StreamChecker: every predicate, over records whose      *)
(* field n is 1, 1.5, null, absent, NaN, a text or an array, or an integer at  *)
(* and past Exact that is a float64, falls between two or is spelled          *)
(* otherwise; some of them both as an integer and as a float, or as a literal; *)
(* and an object that holds NaN or is equal to another, at some depth.          *)
(***************************************************************************)
EXTENDS StreamCheckerProperties

Int64(n) == V("int", 2 * n)

MCObjects == 1..20

\* Beyond 16 the floats are 4 apart: 22 is half way from 20 to 24, and reads as 24.
MCSpelling == 48 :> 44

Sent == <<
  [n |-> Int64(1)],
  [n |-> V("float", 2), m |-> V("map", 1)],
  [n |-> V("float", 3), m |-> V("map", 2)],
  [n |-> Int64(10), m |-> V("map", 3)],
  [n |-> V("float", 20)],
  [n |-> V("nil", 0), m |-> V("map", 4)],
  [m |-> V("string", 0)],
  [n |-> V("nan", 0), m |-> V("map", 20)],
  [n |-> V("string", 1), m |-> V("nil", 0)],
  [n |-> V("array", 1), m |-> V("string", 2)],
  [n |-> Int64(8)],
  [n |-> Int64(9)],
  [n |-> Int64(22)],
  [n |-> Int64(24)],
  [n |-> V("float", 48)],
  [n |-> V("literal", 2)],
  [n |-> V("literal", 22)],
  [m |-> V("map", 8)],
  [m |-> V("map", 18)],
  [n |-> V("float", 2)]>>

\* Object o that was sent is read from its JSON text as object MCRead[o].
MCRead == [o \in 1..40 |-> IF o <= 20 THEN o + 20 ELSE o]

MCMember ==
  [o \in 1..40 |->
     IF o <= 20 THEN Sent[o] ELSE [name \in DOMAIN Sent[o - 20] |-> FromJSON(Sent[o - 20][name])]]

\* Of the objects with one text the first stands for it; 8, 18 and 19 hold NaN.
MCText ==
  [o \in (1..40) \ {8, 18, 19, 28, 38, 39} |->
     CASE o \in {20, 21, 36, 40} -> 1
       [] o \in {31, 32} -> 11
       [] o \in {15, 33, 34, 35} -> 13
       [] o \in 22..30 -> o - 20
       [] OTHER -> o]

N == <<"$", "n">>
M == <<"$", "m">>
MN == <<"$", "m", "n">>

P(op) == [op |-> op, arg |-> "", min |-> {}, max |-> {}, values |-> <<>>]

R(id, path, pred) ==
  [id |-> id, version |-> "", kind |-> IF pred.op \in StreamOps THEN "stream" ELSE "record",
   path |-> path, predicate |-> pred, severity |-> "", action |-> "reject"]

Type(id, path, type) == R(id, path, [P("type") EXCEPT !.arg = type])

Of(rs) == [ir |-> "1.0", id |-> "numbers", version |-> "1", input |-> "record-stream", rules |-> rs]

MCGiven == {
  Of(<<R(3, N, P("unique")), R(2, N, [P("range") EXCEPT !.min = {2}, !.max = {20}]),
       Type(4, N, "integer"), R(1, MN, P("unique"))>>),
  Of(<<R(2, Root, [P("count") EXCEPT !.min = {4}]), Type(1, N, "number"),
       R(4, M, P("required")), R(3, M, P("unique"))>>),
  Of(<<R(4, N, [P("enum") EXCEPT !.values = <<V("float", 2), V("string", 1), V("nil", 0)>>]),
       Type(3, Root, "object"), Type(2, M, "object"), R(1, MN, P("not_null"))>>),
  Of(<<R(3, N, P("unique")), R(2, N, [P("range") EXCEPT !.max = {16}]),
       R(1, N, [P("enum") EXCEPT !.values = <<V("float", 16), V("float", 48)>>]), Type(4, N, "integer")>>),
  Of(<<R(2, N, [P("regex") EXCEPT !.arg = "^1"]), R(3, M, [P("format") EXCEPT !.arg = "email"]),
       Type(1, N, "array"), Type(4, N, "string"), Type(5, N, "boolean")>>),
  \* of whole records; object 12 is read from a contract file as object 32
  Of(<<R(2, Root, P("unique")), R(1, M, P("unique")),
       R(3, Root, [P("enum") EXCEPT !.values = <<V("map", 32), V("map", 21)>>])>>),
  \* two that Validate refuses: two rules of one id, a range without bounds
  Of(<<R(2, N, P("unique")), R(2, M, P("required")), R(2, N, P("unique"))>>),
  Of(<<R(1, N, P("range"))>>)}

MCMatches == {<<"^1", 1>>}
=============================================================================
