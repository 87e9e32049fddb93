----------------------------- MODULE MCArtifact -----------------------------
(***************************************************************************)
(* Drafts that leave things out, say them twice, say them in another order,   *)
(* or say what a language, a width or the IR does not allow.                 *)
(***************************************************************************)
EXTENDS ArtifactProperties

P(op) == [op |-> op, arg |-> Unset, min |-> {}, max |-> {}, values |-> <<>>]

R(id, kind, path, predicate) ==
  [id |-> id, version |-> Unset, kind |-> kind, path |-> path, predicate |-> predicate,
   severity |-> Unset, action |-> "reject"]

Of(rules) == [ir |-> "1.0", id |-> "orders", version |-> "1", input |-> "record-stream", rules |-> rules]

Id == <<"$", "id">>
Pattern(arg) == R(2, "record", Id, [P("regex") EXCEPT !.arg = arg])
Few == [P("count") EXCEPT !.min = {2}, !.max = {6}]

MCDrafts == {
  Of(<<R(3, Unset, Id, P("unique")), R(1, Unset, Root, Few)>>),
  Of(<<R(1, "stream", Root, Few), [R(3, "stream", Id, P("unique")) EXCEPT !.version = "1", !.severity = "error"]>>),
  Of(<<[R(3, "stream", Id, P("unique")) EXCEPT !.version = "", !.severity = ""], R(1, "stream", Root, Few)>>),
  \* a kind that is not the predicate's, and an empty one
  Of(<<R(3, "record", Id, P("unique"))>>),
  Of(<<R(3, "", Id, P("unique"))>>),
  \* patterns: of every language, of the SDKs' languages only, empty, and of no predicate
  Of(<<Pattern("^1")>>), Of(<<Pattern("(?=1)")>>), Of(<<Pattern("")>>),
  Of(<<R(2, "record", Id, [P("required") EXCEPT !.arg = ""])>>),
  \* ids that UTF-16 orders otherwise; 9 is not a float64
  Of(<<R(5, "record", Id, P("not_null")), R(4, "record", Id, P("required"))>>),
  Of(<<R(2, "record", Id, [P("range") EXCEPT !.min = {16}, !.max = {18}])>>),
  Of(<<R(2, "record", Id, [P("range") EXCEPT !.min = {18}, !.max = {16}])>>),
  Of(<<R(2, "record", Id, [P("range") EXCEPT !.min = {48}])>>),
  \* a half past Exact, that is a whole float64
  Of(<<R(2, "record", Id, [P("range") EXCEPT !.min = {11}])>>),
  \* what nobody admits: a count elsewhere than at $, no bounds, two rules of one id
  Of(<<R(2, "stream", Id, Few)>>), Of(<<R(2, "record", Id, P("range"))>>),
  Of(<<R(1, "record", Id, P("required")), R(1, "record", Id, P("not_null"))>>)}

MCDialect == [lang \in {"python", "typescript"} |-> {"^1", "(?=1)"}]

MCUtf16 == <<1, 2, 3, 5, 4>>

MCSpelling == 48 :> 44
=============================================================================
