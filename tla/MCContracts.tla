----------------------------- MODULE MCContracts -----------------------------
(***************************************************************************)
(* Contracts and records for the small instances of the gates: rules over    *)
(* the fields id and email with every action, in orders that are not the      *)
(* order of their ids.                                                      *)
(***************************************************************************)
EXTENDS Reporting

String(n) == V("string", n)

\* The gates' runs have text keys only.
MCSpelling == <<>>

\* Two records share an id (1 and 2), one of them and the record with a
\* null id have no email.
MCMember == <<
  [id |-> String(1), email |-> String(1)],
  [id |-> String(1)],
  [id |-> V("nil", 0)]>>

MCText == <<1, 2, 3>>

Pred(op) == [op |-> op, arg |-> "", min |-> {}, max |-> {}, values |-> <<>>]

Rule(id, kind, path, pred, severity, action) ==
  [id |-> id, version |-> "", kind |-> kind, path |-> path, predicate |-> pred,
   severity |-> severity, action |-> action]

UniqueId(id, action) == Rule(id, "stream", <<"$", "id">>, Pred("unique"), "", action)

NeedsEmail(id, action) == Rule(id, "record", <<"$", "email">>, Pred("required"), "warning", action)

IdNotNull(id, action) == Rule(id, "record", <<"$", "id">>, Pred("not_null"), "error", action)

CountIn(id, low, high, action) ==
  Rule(id, "stream", Root, [Pred("count") EXCEPT !.min = {2 * low}, !.max = {2 * high}], "", action)

Of(rs) == [ir |-> "1.0", id |-> "orders", version |-> "1", input |-> "record-stream", rules |-> rs]

MCContracts == {
  Of(<<UniqueId(3, "quarantine"), NeedsEmail(2, "warn"), CountIn(1, 2, 2, "reject")>>),
  Of(<<UniqueId(2, "reject"), IdNotNull(4, "halt"), NeedsEmail(3, "quarantine")>>),
  Of(<<CountIn(2, 1, 2, "warn"), IdNotNull(3, "reject"), UniqueId(5, "halt")>>),
  Of(<<UniqueId(2, "warn"), UniqueId(3, "reject")>>),
  \* one that Validate refuses: two rules of one id
  Of(<<UniqueId(2, "warn"), UniqueId(2, "reject")>>)}
=============================================================================
