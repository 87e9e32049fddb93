------------------------------ MODULE Artifact ------------------------------
(***************************************************************************)
(* The contract file and what is made of it: an author states a contract by   *)
(* hand or in a language with an SDK (sdk/python/actually_fine/contract.py,    *)
(* sdk/typescript/src/index.ts, contract.CanonicalJSON in Go), and the          *)
(* commands run, validate and inspect read it (cmd/actually-fine/main.go,       *)
(* contract/contract.go).                                                   *)
(*                                                                         *)
(* A document is a contract as its JSON text holds it: a member that is left   *)
(* out is Unset, which is not the empty string, and bounds are the digits     *)
(* written. Numbers in the values of an enum go the way of bounds and are     *)
(* left out. SHA-256 tells any two texts apart: a digest is the document that  *)
(* it was taken from.                                                       *)
(***************************************************************************)
EXTENDS Result, Numbers

CONSTANTS
  Drafts,      \* contracts as authors state them
  Dialect,     \* the patterns that the regular expressions of each SDK's language compile
  Utf16,       \* the place of a rule id in the order of UTF-16 code units
  MaxReports   \* bound on the commands given

Languages == {"python", "typescript"}

Unset == "unset"

ASSUME DraftsAssumption == Drafts \subseteq Contracts /\ Drafts # {}
ASSUME DialectAssumption == DOMAIN Dialect = Languages
ASSUME Utf16Assumption == \A d \in Drafts : \A i \in DOMAIN d.rules : Utf16[d.rules[i].id] \in Nat
ASSUME MaxReportsAssumption == MaxReports \in Nat

\* No member that is left out is a pattern, and what the program writes are texts.
ASSUME UnsetAssumption == Unset \notin Patterns
ASSUME TextsAssumption == {"", Unset, "record", "stream", "1.0", "record-stream"} \subseteq STRING

\* A file that is no contract: no JSON value of the right shape, a member that the IR
\* does not have, or something after the contract.
Forms == {"contract", "malformed", "unknown member", "trailing data"}

VARIABLES
  file,       \* what --contract names: its form and its document
  announced,  \* the digest that came with the file, if one did
  reports     \* what the commands returned, and of which file

vars == <<file, announced, reports>>

Or(x, default) == IF x = Unset THEN default ELSE x

(***************************************************************************)
(* Go: Decode, CanonicalJSON and Digest                                     *)
(***************************************************************************)
Floats(bounds) == {Rounded(b) : b \in bounds}

Shortest(bounds) == {Digits(b) : b \in bounds}

\* A member left out is the zero value, a number is a float64.
UnmarshalRule(r) ==
  [r EXCEPT !.version = Or(@, ""), !.kind = Or(@, ""), !.severity = Or(@, ""),
            !.predicate.arg = Or(@, ""), !.predicate.min = Floats(@), !.predicate.max = Floats(@)]

Unmarshal(doc) ==
  [doc EXCEPT !.rules = [i \in DOMAIN doc.rules |-> UnmarshalRule(doc.rules[i])]]

\* Mutated: what follows the contract is not looked at.
DecodesFirst(f) == f.form \in {"contract", "trailing data"} /\ Validate(Unmarshal(f.doc))

Decodes(f) == f.form = "contract" /\ Validate(Unmarshal(f.doc))

\* omitempty drops the empty string, and a number has its shortest digits.
MarshalRule(r) ==
  [r EXCEPT !.predicate.arg = IF @ = "" THEN Unset ELSE @,
            !.predicate.min = Shortest(@), !.predicate.max = Shortest(@)]

Marshal(c) == [c EXCEPT !.rules = [i \in DOMAIN c.rules |-> MarshalRule(c.rules[i])]]

CanonicalJSON(c) == Marshal(Normalize(c))

(***************************************************************************)
(* The SDKs                                                                *)
(***************************************************************************)
\* Python's integers have any width, its other numbers and TypeScript's are float64s.
Held(lang, bounds) ==
  {IF lang = "python" /\ b % 2 = 0 THEN b ELSE Rounded(b) : b \in bounds}

\* Python writes a float that is whole as an integer, digit for digit.
Spelled(lang, bounds) ==
  IF lang = "python" THEN Held(lang, bounds) ELSE Shortest(Held(lang, bounds))

\* Mutated: unique is taken for a rule of records.
DerivedKindOfCount(r) == IF r.predicate.op = "count" THEN "stream" ELSE "record"

DerivedKind(r) == IF r.predicate.op \in StreamOps THEN "stream" ELSE "record"

\* `self.kind or expected_kind` and `kind ?? expectedKind` differ on the empty string.
KindOf(lang, r) ==
  IF r.kind = Unset \/ (lang = "python" /\ r.kind = "") THEN DerivedKind(r) ELSE r.kind

RuleCompiles(lang, r) ==
  LET p == r.predicate IN
  /\ r.id # 0
  /\ p.op \in RecordOps \cup StreamOps
  /\ KindOf(lang, r) = DerivedKind(r)
  /\ PathValid(r.path)
  /\ r.action \in Actions
  /\ Or(r.severity, "error") \in {"warning", "error"}
  /\ Or(r.version, "1") = "1"
  /\ p.op = "type" => p.arg \in Types
  /\ p.op = "format" => p.arg = "email"
  /\ p.op = "regex" => p.arg \in Dialect[lang]
  /\ p.op \in {"range", "count"} => BoundsValid([min |-> Held(lang, p.min), max |-> Held(lang, p.max)])
  /\ p.op = "count" => r.path = Root
  /\ p.op = "enum" => p.values # <<>>

Compiles(lang, d) ==
  /\ d.id # "" /\ d.version # ""
  /\ d.rules # <<>>
  /\ \A i \in DOMAIN d.rules : RuleCompiles(lang, d.rules[i])
  /\ IdsUnique(d.rules)

RuleIR(lang, r) ==
  [r EXCEPT !.version = Or(@, "1"), !.kind = KindOf(lang, r), !.severity = Or(@, "error"),
            !.predicate.min = Spelled(lang, @), !.predicate.max = Spelled(lang, @)]

\* Mutated: the rules are emitted as they were added.
ToIRUnsorted(lang, d) ==
  [d EXCEPT !.ir = "1.0", !.input = "record-stream",
            !.rules = [i \in DOMAIN d.rules |-> RuleIR(lang, d.rules[i])]]

\* Python compares texts by code point, which is the order of UTF-8, and TypeScript by
\* UTF-16 code unit.
ToIR(lang, d) ==
  [d EXCEPT !.ir = "1.0", !.input = "record-stream",
            !.rules = SortedBy([i \in DOMAIN d.rules |-> RuleIR(lang, d.rules[i])],
                               [i \in DOMAIN d.rules |-> IF lang = "python" THEN d.rules[i].id
                                                         ELSE Utf16[d.rules[i].id]])]

(***************************************************************************)
(* Authors and commands                                                    *)
(***************************************************************************)
Nothing == [form |-> "malformed", doc |-> CHOOSE d \in Drafts : TRUE]

Init == file = Nothing /\ announced = {} /\ reports = {}

\* A contract that no command is still to read need not be written.
Awaited == Cardinality(reports) < MaxReports

Write(form, d) ==
  /\ Awaited
  /\ file' = [form |-> form, doc |-> d]
  /\ announced' = {}
  /\ UNCHANGED reports

\* An author that is refused is left with the file there was.
Publish(doc) ==
  /\ Awaited
  /\ file' = [form |-> "contract", doc |-> doc]
  /\ announced' = {doc}
  /\ UNCHANGED reports

Compile(lang, d) == Compiles(lang, d) /\ Publish(ToIR(lang, d))

\* A Go program that holds the contract as values.
Canonicalize(d) == Validate(Unmarshal(d)) /\ Publish(CanonicalJSON(Unmarshal(d)))

Report(command, refused, digests) ==
  /\ Awaited
  /\ reports' = reports \cup {[command |-> command, file |-> file, announced |-> announced,
                               refused |-> refused, digest |-> digests]}
  /\ UNCHANGED <<file, announced>>

\* validateContract, inspectContract and the beginning of run; a file that does not
\* decode is exit code 2.
Refuse(command) == ~Decodes(file) /\ Report(command, TRUE, {})

\* Whether the digest is printed is not looked at.
Answer(command) ==
  /\ Decodes(file)
  /\ \E digests \in {{}, {CanonicalJSON(Unmarshal(file.doc))}} : Report(command, FALSE, digests)

\* run goes on with the decoded contract and prints no digest.
Run == Decodes(file) /\ Report("run", FALSE, {})

\* What inspect has printed becomes the contract.
Adopt(r) == r.command = "inspect" /\ r.digest # {} /\ \E doc \in r.digest : Publish(doc)

Next ==
  \/ \E d \in Drafts :
       \/ \E form \in Forms : Write(form, d)
       \/ \E lang \in Languages : Compile(lang, d)
       \/ Canonicalize(d)
  \/ \E command \in {"run", "validate", "inspect"} : Refuse(command)
  \/ \E command \in {"validate", "inspect"} : Answer(command)
  \/ Run
  \/ \E r \in reports : Adopt(r)

Spec == Init /\ [][Next]_vars
=============================================================================
