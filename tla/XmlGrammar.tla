----------------------------- MODULE XmlGrammar -----------------------------
(***************************************************************************)
(* What the recognizers of expat promise: regular expressions over tokens  *)
(* or symbols, read one letter at a time by their derivatives.  After some *)
(* input the derivative is the language of what may still follow: it is    *)
(* empty when the input can no longer be right, and holds the empty word   *)
(* when the input may end here.                                            *)
(***************************************************************************)
EXTENDS Naturals, Sequences, FiniteSets

\* op "sym": one letter of set; "cat": a, then b; "alt": one of the languages of;
\* "star": any number of a.
Sym1(letters) == [op |-> "sym", set |-> letters]
Eps == [op |-> "eps"]
None == [op |-> "none"]
One(c) == Sym1({c})

Cat2(r, q) ==
  CASE r = None \/ q = None -> None
    [] r = Eps -> q
    [] q = Eps -> r
    [] OTHER -> [op |-> "cat", a |-> r, b |-> q]

RECURSIVE Cat(_)
Cat(rs) == IF rs = <<>> THEN Eps ELSE Cat2(Head(rs), Cat(Tail(rs)))

\* Alternatives are kept flat, so that equal languages met again are equal terms.
Flat(r) == IF r.op = "alt" THEN r.of ELSE {r}
Alt(rs) ==
  LET all == UNION {Flat(r) : r \in rs \ {None}}
  IN  IF all = {} THEN None
      ELSE IF Cardinality(all) = 1 THEN CHOOSE r \in all : TRUE
      ELSE [op |-> "alt", of |-> all]

Star(r) == [op |-> "star", a |-> r]
Plus1(r) == Cat2(r, Star(r))
Opt(r) == Alt({r, Eps})

\* A name for a language that a function rules defines.
Ref(name) == [op |-> "ref", name |-> name]
NoRules == <<>>

RECURSIVE Nullable(_, _)
Nullable(rules, r) ==
  CASE r.op \in {"eps", "star"} -> TRUE
    [] r.op = "cat" -> Nullable(rules, r.a) /\ Nullable(rules, r.b)
    [] r.op = "alt" -> \E q \in r.of : Nullable(rules, q)
    [] r.op = "ref" -> Nullable(rules, rules[r.name])
    [] OTHER -> FALSE

RECURSIVE Derive(_, _, _)
Derive(rules, r, c) ==
  CASE r.op = "sym" -> IF c \in r.set THEN Eps ELSE None
    [] r.op = "cat" ->
         Alt({Cat2(Derive(rules, r.a, c), r.b)}
               \cup (IF Nullable(rules, r.a) THEN {Derive(rules, r.b, c)} ELSE {}))
    [] r.op = "alt" -> Alt({Derive(rules, q, c) : q \in r.of})
    [] r.op = "star" -> Cat2(Derive(rules, r.a, c), r)
    [] r.op = "ref" -> Derive(rules, rules[r.name], c)
    [] OTHER -> None

RECURSIVE DeriveAll(_, _, _)
DeriveAll(rules, r, w) ==
  IF w = <<>> THEN r ELSE DeriveAll(rules, Derive(rules, r, Head(w)), Tail(w))

Viable(r) == r # None
=============================================================================
