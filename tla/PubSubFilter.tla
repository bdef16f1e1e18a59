---------------------------- MODULE PubSubFilter ----------------------------
(* Subscription filters (pubsub-front/filter.rs): text to tokens, tokens to  *)
(* the expression, and what the expression says of a message's attributes.   *)
(*                                                                           *)
(* A text is a sequence of characters; a word of the language counts as one  *)
(* letter, and letters in a row make one identifier.                         *)
EXTENDS Integers, Sequences, FiniteSets, SequencesExt, FiniteSetsExt

CONSTANTS Letters   \* the alphanumeric characters, and "_"

Symbols == {"(", ")", "=", ":", ",", ".", "-"}
Bad == [k |-> "bad"]

Ident(w) == [ident |-> w]
Text(s) == [text |-> s]
Symbol(c) == [symbol |-> c]
NotEqual == Symbol("!=")

-----------------------------------------------------------------------------

At(text, i) == IF i \in DOMAIN text THEN text[i] ELSE "end"

\* The quoted text from i on, an escape standing for what follows it.
RECURSIVE Quoted(_, _, _)
Quoted(text, i, value) ==
  CASE At(text, i) = "end" -> <<>>
    [] At(text, i) = "quote" -> <<value, i + 1>>
    [] At(text, i) = "\\" -> IF At(text, i + 1) = "end" THEN <<>>
                             ELSE Quoted(text, i + 2, Append(value, text[i + 1]))
    [] OTHER -> Quoted(text, i + 1, Append(value, text[i]))

\* <<tokens>>, or <<>> if the text is none.
RECURSIVE TokensFrom(_, _, _)
TokensFrom(text, i, tokens) ==
  LET c == At(text, i)
      quoted == Quoted(text, i + 1, <<>>)
      end == CHOOSE j \in i..Len(text) + 1 :
               At(text, j) \notin Letters /\ \A l \in i..j - 1 : text[l] \in Letters
  IN CASE c = "end" -> <<tokens>>
       [] c = " " -> TokensFrom(text, i + 1, tokens)
       [] c = "quote" -> IF quoted = <<>> THEN <<>>
                         ELSE TokensFrom(text, quoted[2], Append(tokens, Text(quoted[1])))
       [] c = "!" /\ At(text, i + 1) = "=" -> TokensFrom(text, i + 2, Append(tokens, NotEqual))
       [] c \in Symbols -> TokensFrom(text, i + 1, Append(tokens, Symbol(c)))
       [] c \in Letters -> TokensFrom(text, end, Append(tokens, Ident(SubSeq(text, i, end - 1))))
       [] OTHER -> <<>>

tokenize(text) == TokensFrom(text, 1, <<>>)

-----------------------------------------------------------------------------
(* Parsing returns <<expression, place after it>>.                           *)

peek(ts, i) == IF i \in DOMAIN ts THEN ts[i] ELSE Symbol("end")
keyword(ts, i, word) == peek(ts, i) = Ident(<<word>>)
symbol(ts, i, c) == peek(ts, i) = Symbol(c)
Fails(i) == <<Bad, i>>

key(ts, i) ==
  LET t == peek(ts, i)
  IN IF "ident" \in DOMAIN t THEN <<t.ident>> ELSE IF "text" \in DOMAIN t THEN <<t.text>> ELSE <<>>

attribute_path(ts, i) ==
  IF keyword(ts, i, "attributes") /\ symbol(ts, i + 1, ".") THEN key(ts, i + 2) ELSE <<>>

RECURSIVE or(_, _)

primary(ts, i) ==
  LET inner == or(ts, i + 1)
      prefixed == attribute_path(ts, i + 2)
      named == attribute_path(ts, i)
      isText(j) == "text" \in DOMAIN peek(ts, j)
      compare(kind) == [k |-> kind, key |-> named[1], v |-> peek(ts, i + 4).text]
  IN CASE symbol(ts, i, "(") ->
            IF inner[1] /= Bad /\ symbol(ts, inner[2], ")") THEN <<inner[1], inner[2] + 1>>
            ELSE Fails(i)
       [] keyword(ts, i, "hasPrefix") ->
            IF symbol(ts, i + 1, "(") /\ prefixed /= <<>> /\ symbol(ts, i + 5, ",") /\ isText(i + 6)
               /\ symbol(ts, i + 7, ")")
            THEN <<[k |-> "prefix", key |-> prefixed[1], v |-> peek(ts, i + 6).text], i + 8>>
            ELSE Fails(i)
       [] keyword(ts, i, "attributes") /\ symbol(ts, i + 1, ":") ->
            IF key(ts, i + 2) = <<>> THEN Fails(i)
            ELSE <<[k |-> "exists", key |-> key(ts, i + 2)[1]], i + 3>>
       [] OTHER ->
            IF named = <<>> \/ ~isText(i + 4) THEN Fails(i)
            ELSE IF symbol(ts, i + 3, "=") THEN <<compare("equals"), i + 5>>
            ELSE IF peek(ts, i + 3) = NotEqual THEN <<compare("differs"), i + 5>>
            ELSE Fails(i)

RECURSIVE unary(_, _)
unary(ts, i) ==
  LET inner == unary(ts, i + 1)
  IN IF keyword(ts, i, "NOT") \/ symbol(ts, i, "-")
       THEN IF inner[1] = Bad THEN inner ELSE <<[k |-> "not", of |-> inner[1]], inner[2]>>
     ELSE primary(ts, i)

RECURSIVE AndFrom(_, _)
AndFrom(ts, left) ==
  LET right == unary(ts, left[2] + 1)
  IN IF left[1] = Bad \/ ~keyword(ts, left[2], "AND") THEN left
     ELSE IF right[1] = Bad THEN right
     ELSE AndFrom(ts, <<[k |-> "and", l |-> left[1], r |-> right[1]], right[2]>>)

and(ts, i) == AndFrom(ts, unary(ts, i))

(* Mutant: a disjunction takes single terms. *)
RECURSIVE MutOr(_, _)
MutOr(ts, left) ==
  LET right == unary(ts, left[2] + 1)
  IN IF left[1] = Bad \/ ~keyword(ts, left[2], "OR") THEN left
     ELSE IF right[1] = Bad THEN right
     ELSE MutOr(ts, <<[k |-> "or", l |-> left[1], r |-> right[1]], right[2]>>)

RECURSIVE OrFrom(_, _)
OrFrom(ts, left) ==
  LET right == and(ts, left[2] + 1)
  IN IF left[1] = Bad \/ ~keyword(ts, left[2], "OR") THEN left
     ELSE IF right[1] = Bad THEN right
     ELSE OrFrom(ts, <<[k |-> "or", l |-> left[1], r |-> right[1]], right[2]>>)

or(ts, i) == OrFrom(ts, and(ts, i))

parse(text) ==
  LET ts == tokenize(text)
      got == or(ts[1], 1)
  IN IF ts = <<>> THEN Bad ELSE IF got[2] /= Len(ts[1]) + 1 THEN Bad ELSE got[1]

RECURSIVE matches(_, _)
matches(f, attributes) ==
  CASE f.k = "equals" -> f.key \in DOMAIN attributes /\ attributes[f.key] = f.v
    [] f.k = "differs" -> ~(f.key \in DOMAIN attributes /\ attributes[f.key] = f.v)
    [] f.k = "exists" -> f.key \in DOMAIN attributes
    [] f.k = "prefix" -> f.key \in DOMAIN attributes /\ IsPrefix(f.v, attributes[f.key])
    [] f.k = "not" -> ~matches(f.of, attributes)
    [] f.k = "and" -> matches(f.l, attributes) /\ matches(f.r, attributes)
    [] f.k = "or" -> matches(f.l, attributes) \/ matches(f.r, attributes)

-----------------------------------------------------------------------------
(* What a user writes: terms joined by AND and OR, a term [neg, key, op, v]   *)
(* possibly negated or a parenthesised disjunction of two.                   *)

InQuotes(s) ==
  <<"quote">> \o FlattenSeq([i \in DOMAIN s |-> IF s[i] \in {"quote", "\\"} THEN <<"\\", s[i]>>
                                               ELSE <<s[i]>>]) \o <<"quote">>

WrittenKey(s) == IF s /= <<>> /\ \A i \in DOMAIN s : s[i] \in Letters THEN s ELSE InQuotes(s)

WrittenAtom(a) ==
  CASE a.op = "exists" -> <<"attributes", ":">> \o WrittenKey(a.key)
    [] a.op = "prefix" -> <<"hasPrefix", "(", "attributes", ".">> \o WrittenKey(a.key)
                          \o <<",">> \o InQuotes(a.v) \o <<")">>
    [] a.op = "equals" -> <<"attributes", ".">> \o WrittenKey(a.key) \o <<"=">> \o InQuotes(a.v)
    [] a.op = "differs" -> <<"attributes", ".">> \o WrittenKey(a.key) \o <<" ", "!", "=">>
                           \o InQuotes(a.v)

WrittenTerm(t) ==
  t.neg \o IF "either" \in DOMAIN t
             THEN <<"(">> \o WrittenAtom(t.either[1]) \o <<" ", "OR", " ">>
                  \o WrittenAtom(t.either[2]) \o <<")">>
           ELSE WrittenAtom(t.atom)

\* ops[i] joins terms i and i + 1.
Written(terms, ops) ==
  FlattenSeq([i \in DOMAIN terms |-> WrittenTerm(terms[i])
                                     \o IF i = Len(terms) THEN <<>> ELSE <<" ", ops[i], " ">>])

AtomHolds(a, attributes) ==
  LET has == a.key \in DOMAIN attributes
  IN CASE a.op = "exists" -> has
       [] a.op = "equals" -> has /\ attributes[a.key] = a.v
       [] a.op = "differs" -> has => attributes[a.key] /= a.v
       [] a.op = "prefix" -> has /\ \E s \in {SubSeq(attributes[a.key], 1, n) : n \in 0..Len(attributes[a.key])} : s = a.v

TermHolds(t, attributes) ==
  LET holds == IF "either" \in DOMAIN t
                 THEN \E i \in 1..2 : AtomHolds(t.either[i], attributes)
               ELSE AtomHolds(t.atom, attributes)
      negations == Cardinality({i \in DOMAIN t.neg : t.neg[i] \in {"NOT", "-"}})
  IN IF negations % 2 = 1 THEN ~holds ELSE holds

(* FilterMeant: a filter as written delivers exactly the messages it         *)
(* describes: some run of terms between two ORs holds whole.  Negations bind *)
(* to their term, AND before OR, and quoted keys and values may hold any     *)
(* character (tokenize, Parser and Filter::matches).                         *)
FilterMeant(terms, ops, attributes) ==
  LET f == parse(Written(terms, ops))
      n == Len(terms)
      meant == \E i \in 1..n, j \in 1..n :
                 /\ i <= j /\ (i = 1 \/ ops[i - 1] = "OR") /\ (j = n \/ ops[j] = "OR")
                 /\ \A l \in i..j : TermHolds(terms[l], attributes)
                 /\ \A l \in i..j - 1 : ops[l] = "AND"
  IN f /= Bad /\ matches(f, attributes) = meant
=============================================================================
