----------------------------- MODULE MCMatchTree -----------------------------
(***************************************************************************)
(* Checks knowledge.IsMatch (isTokenMatch over NormalizeTokens) on every   *)
(* TokenMatch tree of depth two over a small token alphabet and every      *)
(* message drawn from it, against the spec's declarative evaluator.        *)
(***************************************************************************)
EXTENDS MatchTree, TLC

VARIABLES
  on,       \* the asset's TokenMatch tree (asset.On)
  message,  \* the message's raw token slice
  result    \* what IsMatch returned, or NotRun before the call

CONSTANT NotRun

vars == << on, message, result >>

Words == {"a", "b"}

\* Raw tokens: "A" normalises to "a".
MCNorm == [t \in {"a", "A", "b"} |-> IF t = "A" THEN "a" ELSE t]

Messages == { << >>, <<"a">>, <<"A">>, <<"b">>, <<"a", "b">>, <<"A", "b">>, <<"b", "b">> }

BoolExprs ==
  { [kind |-> "bool", disjuncts |-> << {[fn |-> "containsAny", keys |-> {"a"}]} >>],
    [kind |-> "bool", disjuncts |-> << {[fn |-> "containsAll", keys |-> {"a", "b"}]} >>],
    [kind |-> "bool", disjuncts |-> << {[fn |-> "containsAny", keys |-> {"b"}],
                                        [fn |-> "containsAll", keys |-> {"a"}]} >>],
    [kind |-> "bool", disjuncts |-> << {[fn |-> "containsAll", keys |-> {"a", "b"}]},
                                        {[fn |-> "containsAny", keys |-> {"b"}]} >>],
    [kind |-> "fault", disjuncts |-> << >>] }

Exprs == BoolExprs

Node(ty, toks, terms, e) == [type |-> ty, tokens |-> toks, terms |-> terms, expr |-> e]

Leaves ==
  { Node(ty, toks, << >>, NoExpr) : ty \in {"and", "or"}, toks \in SUBSET Words }
  \cup { Node("and", {"b"}, << >>, e) : e \in Exprs }

Trees ==
  Leaves \cup
  { Node(ty, toks, terms, NoExpr) :
      ty \in {"and", "or"}, toks \in SUBSET Words,
      terms \in [1..1 -> Leaves] \cup [1..2 -> Leaves] }

Init ==
  /\ on \in Trees
  /\ message \in Messages
  /\ result = NotRun

(* knowledge.IsMatch: isTokenMatch(&asset.On, util.NormalizeTokens(tokens)) *)
IsMatch ==
  /\ result = NotRun
  /\ result' = IsTokenMatch(on, NormalizeTokens(message))
  /\ UNCHANGED << on, message >>

Spec == Init /\ [][IsMatch]_vars

(* Whenever isTokenMatch returns a boolean, it is the value the spec's     *)
(* evaluator gives: the counter-and-break loop over match.Terms and the    *)
(* gating of terms by the node's own tokens agree with "all children"      *)
(* for AND and "any child" for OR, and expressions decide alone.           *)
EvaluatorMatchesSpec ==
  result \in BOOLEAN => result = SpecSatisfied(on, NormalizeTokens(message))

=============================================================================
