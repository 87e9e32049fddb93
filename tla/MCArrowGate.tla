----------------------------- MODULE MCArrowGate -----------------------------
(***************************************************************************)
(* Small instances of ArrowGate: an input with an integer id and a text       *)
(* email, either of them null in some rows.                                  *)
(***************************************************************************)
EXTENDS ArrowGateProperties

Int64(n) == V("int", 2 * n)

MCColumns == {"id", "email"}

\* What a host may hold in the columns: 9 is no float64, and 20 is a uint64.
Texts == <<V("string", 1), V("nil", 0)>>

MCHosted ==
  [id : {V("nil", 0), Int64(9), Int64(20), V("float", 3), V("bool", 1)},
   email : {Texts[1], Texts[2]}]

\* ... and the gate in the input: 20 wraps to -12, and a value of another kind than
\* its column's is 0.
Ids == <<V("nil", 0), Int64(9), Int64(-12), Int64(0), Int64(8), V("float", 3), V("float", 0), V("bool", 1)>>

MCMember ==
  [o \in 1..(2 * Len(Ids)) |-> [id |-> Ids[(o + 1) \div 2], email |-> Texts[((o + 1) % 2) + 1]]]

\* The integer and the float 0 are one text.
MCText == [o \in DOMAIN MCMember |-> IF o \in {13, 14} THEN o - 6 ELSE o]

\* Of other producers: a null id, a null email, neither.
MCRecord == {1, 3, 4}

MCSpelling == <<>>

P(op) == [op |-> op, arg |-> "", min |-> {}, max |-> {}, values |-> <<>>]

R(id, kind, path, op, action) ==
  [id |-> id, version |-> "", kind |-> kind, path |-> path, predicate |-> P(op),
   severity |-> "", action |-> action]

Of(rs) == [ir |-> "1.0", id |-> "orders", version |-> "1", input |-> "record-stream", rules |-> rs]

MCContracts == {
  Of(<<R(2, "record", <<"$", "email">>, "not_null", "quarantine"),
       [R(3, "stream", Root, "count", "warn") EXCEPT !.predicate.min = {4}]>>),
  Of(<<R(2, "record", <<"$", "id">>, "not_null", "quarantine"),
       R(3, "record", <<"$", "email">>, "not_null", "halt")>>),
  Of(<<R(4, "record", <<"$", "id">>, "not_null", "quarantine"),
       R(3, "record", <<"$", "email">>, "not_null", "warn")>>),
  Of(<<>>)}

MCRequests ==
  [contract : MCContracts, source : {TRUE}, sinks : {Sinks, {"accepted"}, {}}]
=============================================================================
