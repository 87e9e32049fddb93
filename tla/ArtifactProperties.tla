------------------------- MODULE ArtifactProperties -------------------------
(***************************************************************************)
(* What the SDKs and the commands must agree on.                             *)
(***************************************************************************)
EXTENDS Artifact

\* Type correctness: a digest is taken of a complete document, in which no rule leaves
\* its version, its kind or its severity to a default.
TypeOK ==
  /\ file.form \in Forms /\ file.doc \in Contracts
  /\ \A r \in reports :
       /\ r.command \in {"run", "validate", "inspect"} /\ r.refused \in BOOLEAN
       /\ Cardinality(r.digest) <= 1
       /\ \A doc \in r.digest \cup r.announced : \A i \in DOMAIN doc.rules :
            /\ doc.rules[i].version = "1"
            /\ doc.rules[i].kind \in {"record", "stream"}
            /\ doc.rules[i].severity \in {"warning", "error"}

\* The contracts that mean the same to every language: patterns that Go compiles, ids
\* that both orders of texts agree on ...
PortablePatterns(doc) ==
  \A i \in DOMAIN doc.rules : doc.rules[i].predicate.op = "regex" => doc.rules[i].predicate.arg \in Patterns

PortableIds(doc) ==
  \A i, j \in DOMAIN doc.rules :
    doc.rules[i].id < doc.rules[j].id <=> Utf16[doc.rules[i].id] < Utf16[doc.rules[j].id]

\* ... and texts and numbers that every language spells alike.
PortableSpelling(doc) ==
  \A i \in DOMAIN doc.rules :
    /\ doc.rules[i].predicate.arg # ""
    /\ \A b \in doc.rules[i].predicate.min \cup doc.rules[i].predicate.max : Magnitude(b) <= 2 * Exact

\* sdk/python/README.md: the compiler "rejects invalid IR before it is emitted". What an
\* SDK compiles no command refuses, but for a pattern of its language that Go does not
\* have; and in a contract with portable ids the engine finds nothing to normalize.
CompiledAdmitted ==
  announced # {} /\ PortablePatterns(file.doc) =>
    /\ Decodes(file)
    /\ PortableIds(file.doc) => Normalize(Unmarshal(file.doc)) = Unmarshal(file.doc)

\* sdk/typescript/README.md: the compiler "emits the same canonical IR and digest as the
\* Go engine"; so does Python's, and so does inspect of what inspect printed.
DigestsAgree ==
  \A r \in reports :
    r.digest # {} /\ r.announced # {} /\ PortableIds(r.file.doc) /\ PortableSpelling(r.file.doc) =>
      r.digest = r.announced

\* What a rule says, however much of it is left to defaults.
Meaning(r) ==
  [r EXCEPT !.version = IF @ \in {"", Unset} THEN "1" ELSE @,
            !.severity = IF @ \in {"", Unset} THEN "error" ELSE @,
            !.kind = Or(@, ""),
            !.predicate.arg = Or(@, ""), !.predicate.min = Floats(@), !.predicate.max = Floats(@)]

Equivalent(c, d) ==
  /\ <<c.ir, c.id, c.version, c.input, Len(c.rules)>> = <<d.ir, d.id, d.version, d.input, Len(d.rules)>>
  /\ {Meaning(c.rules[i]) : i \in DOMAIN c.rules} = {Meaning(d.rules[i]) : i \in DOMAIN d.rules}

\* docs/contract-ir.md: "Equivalent contracts must produce the same canonical JSON and
\* digest even when their object keys or rule order differ." Whoever wrote two files
\* and whichever commands read them, equivalent contracts are both admitted or both
\* refused, and have one digest; contracts that are not equivalent have two. A file
\* that holds something else than one contract is refused.
EquivalentContracts ==
  \A q, r \in reports :
    /\ q.file.form # "contract" => q.refused
    /\ q.file.form = "contract" /\ r.file.form = "contract" =>
         /\ Equivalent(q.file.doc, r.file.doc) => q.refused = r.refused
         /\ q.digest # {} /\ r.digest # {} =>
              (q.digest = r.digest <=> Equivalent(q.file.doc, r.file.doc))
=============================================================================
