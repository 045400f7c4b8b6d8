------------------------------ MODULE MatchTree ------------------------------
(***************************************************************************)
(* The token-match engine of the knowledge rules (pkg/knowledge):          *)
(* isTokenMatch over a TokenMatch tree, the two functions containsAny and  *)
(* containsAll that init() registers for compiled expressions, and the     *)
(* token helpers of pkg/util it calls (NormalizeTokens, TokensPresentOR,   *)
(* TokensPresentAND; that package is not in the repository, so these are   *)
(* modelled from the spec).                                                *)
(*                                                                         *)
(* A TokenMatch is a record                                                *)
(*   [type |-> "and" | "or", tokens |-> set of tokens,                     *)
(*    terms |-> sequence of TokenMatch, expr |-> NoExpr | Expression]      *)
(* An Expression stands for a compiled expr-lang program over the map      *)
(* "tokens":                                                               *)
(*   [kind |-> "bool", disjuncts |-> sequence of sets of [fn, keys]]      *)
(*        "c11 and c12 or c21 ...": an or of ands of containsAny /         *)
(*        containsAll calls, in the order written ("and" binds tighter),   *)
(*   [kind |-> "fault", ...]    a program whose run returns an error,      *)
(*   [kind |-> "nonbool", ...]  a program whose value is not a bool.       *)
(* The Satisfied field the code writes back is only read by DumpMatchTree  *)
(* (debug output) and is left out.                                         *)
(***************************************************************************)
EXTENDS Naturals, Sequences, FiniteSets, Functions

CONSTANTS
  Norm,       \* NormalizeTokens' per-token conversion (lower-case, trim)
  NoExpr,     \* TokenMatch.CompiledExpr == nil
  Panic       \* a Go runtime panic (here: result.(bool) on a non-bool)

(* util.NormalizeTokens: the set of normalised tokens of a token slice.    *)
NormalizeTokens(tokens) == { Norm[t] : t \in Range(tokens) }

(* util.TokensPresentOR / util.TokensPresentAND over the token map.        *)
TokensPresentOR(tokens, want) == \E t \in want : t \in tokens
TokensPresentAND(tokens, want) == want \subseteq tokens

(* The expression functions registered in init().                          *)
containsAny(tokenMap, keys) == \E k \in keys : k \in tokenMap
containsAll(tokenMap, keys) == keys # {} /\ keys \subseteq tokenMap

(* expr.Run followed by result.(bool): a run error is logged and the node  *)
(* is not satisfied; a non-bool result panics the type assertion.          *)
RunExpr(e, tokens) ==
  CASE e.kind = "fault"   -> FALSE
    [] e.kind = "nonbool" -> Panic
    [] OTHER -> \E d \in Range(e.disjuncts) : \A c \in d :
                  IF c.fn = "containsAny" THEN containsAny(tokens, c.keys)
                                          ELSE containsAll(tokens, c.keys)

RECURSIVE IsTokenMatch(_, _), MatchTerms(_, _, _, _, _)

(* The loop over match.Terms without the OR short-cut, kept as a mutant.   *)
RECURSIVE MatchTermsNoBreak(_, _, _, _, _)
MatchTermsNoBreak(terms, tokens, or, idx, satisfied) ==
  IF idx > Len(terms) THEN satisfied = Len(terms)
  ELSE LET r == IsTokenMatch(terms[idx], tokens)
       IN  CASE r = Panic -> Panic
             [] r    -> MatchTermsNoBreak(terms, tokens, or, idx + 1, satisfied + 1)
             [] OTHER -> MatchTermsNoBreak(terms, tokens, or, idx + 1, satisfied)

(* The loop "for idx := range match.Terms" of isTokenMatch from index idx, *)
(* with satisfied terms counted so far: on OR the first satisfied term     *)
(* sets satisfied to len(match.Terms) and breaks; the node's result is     *)
(* satisfied == len(match.Terms). A panic in a term unwinds the loop.      *)
MatchTerms(terms, tokens, or, idx, satisfied) ==
  IF idx > Len(terms) THEN satisfied = Len(terms)
  ELSE LET r == IsTokenMatch(terms[idx], tokens)
       IN  CASE r = Panic -> Panic
             [] r /\ or -> TRUE
             [] r    -> MatchTerms(terms, tokens, or, idx + 1, satisfied + 1)
             [] OTHER -> MatchTerms(terms, tokens, or, idx + 1, satisfied)

(* isTokenMatch: a compiled expression decides alone; otherwise the node's *)
(* own tokens (vacuously true when empty) gate the evaluation of its terms.*)
IsTokenMatch(match, tokens) ==
  IF match.expr # NoExpr THEN RunExpr(match.expr, tokens)
  ELSE LET or          == match.type = "or"
           tokensMatch == \/ match.tokens = {}
                          \/ or /\ TokensPresentOR(tokens, match.tokens)
                          \/ ~or /\ TokensPresentAND(tokens, match.tokens)
       IN  IF tokensMatch /\ Len(match.terms) > 0
             THEN MatchTerms(match.terms, tokens, or, 1, 0)
             ELSE tokensMatch

(***************************************************************************)
(* The evaluator as the spec (section 4.3) states it, declaratively: an    *)
(* expression decides alone and a faulty one is not satisfied; otherwise   *)
(* the literal result, and, when there are children, all of them (AND) or *)
(* one of them (OR). Used as the reference the code is checked against.   *)
(***************************************************************************)
RECURSIVE SpecSatisfied(_, _)
SpecSatisfied(node, T) ==
  IF node.expr # NoExpr
    THEN node.expr.kind = "bool" /\ RunExpr(node.expr, T)
    ELSE LET or      == node.type = "or"
             literal == IF node.tokens = {} THEN TRUE
                        ELSE IF or THEN node.tokens \cap T # {}
                                   ELSE node.tokens \subseteq T
             child(i) == SpecSatisfied(node.terms[i], T)
         IN  /\ literal
             /\ \/ node.terms = << >>
                \/ or /\ \E i \in DOMAIN node.terms : child(i)
                \/ ~or /\ \A i \in DOMAIN node.terms : child(i)
=============================================================================
