------------------------------ MODULE MCLoader ------------------------------
(***************************************************************************)
(* Loader over every prompt tree of up to three files drawn from the kinds *)
(* of file a prompt directory holds: platform files with an AND root, an  *)
(* OR root without terms, an OR root with a term, an expression with and   *)
(* without a top-level "or", a file outside any platform directory, a     *)
(* file that does not unmarshal and one whose expression does not compile.*)
(***************************************************************************)
EXTENDS Loader, TLC

Leaf(ty, toks) == [type |-> ty, tokens |-> toks, terms |-> << >>, expr |-> NoExpr]
AnyOf(k) == [fn |-> "containsAny", keys |-> {k}]
\* containsAll(tokens, ["install"])
Install == [kind |-> "bool", disjuncts |-> << {[fn |-> "containsAll", keys |-> {"install"}]} >>]
\* containsAny(tokens, ["install"]) or containsAny(tokens, ["upi"])
InstallOrUpi == [kind |-> "bool", disjuncts |-> << {AnyOf("install")}, {AnyOf("upi")} >>]

File(on, plat) == [yaml |-> TRUE, on |-> on, compiles |-> TRUE, platform |-> plat]

AndFile    == File(Leaf("and", {"install"}), "aws")
OrFile     == File(Leaf("or", {"install", "upi"}), "aws")
ExprFile   == File([Leaf("and", {}) EXCEPT !.expr = Install], "aws")
OrExprFile == File([Leaf("and", {}) EXCEPT !.expr = InstallOrUpi], "aws")
PlainFile  == File(Leaf("and", {"upi"}), NoPlatform)
BadYaml    == [AndFile EXCEPT !.yaml = FALSE]
BadExpr    == [ExprFile EXCEPT !.compiles = FALSE]
OrTermFile == File([Leaf("or", {}) EXCEPT !.terms = << Leaf("and", {"install"}) >>], "aws")

TreesOf(kinds) == UNION {[1..n -> kinds] : n \in 0..3}

MCCorpora == TreesOf({AndFile, OrFile, ExprFile, OrExprFile, PlainFile,
                      BadYaml, BadExpr, OrTermFile})

MCPlatformTokens == "aws" :> {"aws"}
MCVocab == {"aws", "install", "upi"}
MCNorm == [t \in MCVocab |-> t]
=============================================================================
