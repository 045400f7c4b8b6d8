------------------------------- MODULE Loader -------------------------------
(***************************************************************************)
(* Knowledge ingestion of pkg/knowledge/knowledge.go: init() calls          *)
(* loadKnowledgeEntries(PROMPT_PATH), which walks the prompt directory     *)
(* (getKnowledgeEntryPaths), reads and unmarshals each .yaml file, adds    *)
(* the platform context of the file's path to its match tree, compiles    *)
(* its expression and appends the asset to knowledgeAssets; init()        *)
(* registers the knowledge rule only when loading returned no error.      *)
(*                                                                         *)
(* A prompt file is a record                                               *)
(*   [yaml |-> BOOLEAN   (yaml.Unmarshal succeeds),                        *)
(*    on |-> TokenMatch  (asset.On as written in the file; its expr is     *)
(*                        NoExpr when On.Expr is empty),                   *)
(*    compiles |-> BOOLEAN (expr.Compile of the prefixed expression        *)
(*                        succeeds),                                       *)
(*    platform |-> a platform whose directory the path names, or          *)
(*                 NoPlatform]                                             *)
(* Reading the directory tree and each file can fail; those are choices   *)
(* of every step. pkg/knowledge/platforms is not in the repository: its   *)
(* two functions are modelled from the spec (section 4.6).                *)
(***************************************************************************)
EXTENDS MatchTree, SequencesExt

CONSTANTS
  Corpora,          \* the possible contents of PROMPT_PATH, as file sequences
  PlatformTokens,   \* platform -> the tokens of its context term
  NoPlatform,
  Vocab             \* the normalised tokens messages are made of

VARIABLES
  files,            \* the .yaml files of PROMPT_PATH in walk order
  stage,            \* "walk", "load" (the loop over files) or "done"
  next,             \* the index of the file the loop reads next
  knowledgeAssets,  \* the loaded assets; each also names the file it came from
  err,              \* the error loadKnowledgeEntries returns
  registered        \* commands.AddCommand(KnowledgeCommandAttributes) ran

vars == << files, stage, next, knowledgeAssets, err, registered >>

(* platforms.GetPathContextTerms: the OR term on the platform's tokens.    *)
GetPathContextTerms(p) ==
  IF p = NoPlatform THEN << >>
  ELSE << [type |-> "or", tokens |-> PlatformTokens[p], terms |-> << >>,
           expr |-> NoExpr] >>

(* platforms.GetPathContextExpr: a containsAny call on the platform's      *)
(* tokens, or no expression.                                              *)
GetPathContextExpr(p) ==
  IF p = NoPlatform THEN {}
  ELSE {[fn |-> "containsAny", keys |-> PlatformTokens[p]]}

(* The platform terms of the path are appended to On.Terms; a non-empty    *)
(* expression E becomes the text "<platform expression> and E", which     *)
(* the compiler reads as "(<platform expression> and <first disjunct of   *)
(* E>) or <the other disjuncts>": the prefix joins E's first disjunct only.*)
WithPathContext(f) ==
  [f.on EXCEPT !.terms = @ \o GetPathContextTerms(f.platform),
               !.expr  = IF @ = NoExpr THEN @
                         ELSE [@ EXCEPT !.disjuncts[1] = @ \cup GetPathContextExpr(f.platform)]]

Init ==
  /\ files \in Corpora
  /\ stage = "walk"
  /\ next = 0
  /\ knowledgeAssets = << >>
  /\ err = "none"
  /\ registered = FALSE

(* getKnowledgeEntryPaths: os.ReadDir of the tree; any failure is the     *)
(* error of loadKnowledgeEntries, and init() skips the registration.      *)
Walk ==
  /\ stage = "walk"
  /\ \E dirOk \in BOOLEAN :
       IF dirOk THEN stage' = "load" /\ next' = 1 /\ UNCHANGED err
                ELSE stage' = "done" /\ err' = "dir" /\ UNCHANGED next
  /\ UNCHANGED << files, knowledgeAssets, registered >>

(* One iteration of the loop over files: a read error returns; a yaml     *)
(* error is logged and the file skipped; a compile error returns; else    *)
(* the asset, with its path context, is appended.                         *)
LoadFile ==
  /\ stage = "load"
  /\ next <= Len(files)
  /\ LET f == files[next] IN
     \E readOk \in BOOLEAN :
       CASE ~readOk ->
              stage' = "done" /\ err' = "read" /\ UNCHANGED << next, knowledgeAssets >>
         [] ~f.yaml ->
              next' = next + 1 /\ UNCHANGED << stage, err, knowledgeAssets >>
         [] f.on.expr # NoExpr /\ ~f.compiles ->
              stage' = "done" /\ err' = "compile" /\ UNCHANGED << next, knowledgeAssets >>
         [] OTHER ->
              /\ knowledgeAssets' = Append(knowledgeAssets,
                                           [on |-> WithPathContext(f), file |-> next])
              /\ next' = next + 1
              /\ UNCHANGED << stage, err >>
  /\ UNCHANGED << files, registered >>

(* loadKnowledgeEntries returns nil and init() registers the rule.         *)
Register ==
  /\ stage = "load"
  /\ next > Len(files)
  /\ stage' = "done"
  /\ registered' = TRUE
  /\ UNCHANGED << files, next, knowledgeAssets, err >>

Next == Walk \/ LoadFile \/ Register

Spec == Init /\ [][Next]_vars

-----------------------------------------------------------------------------
(* Properties.                                                             *)

(* A file that parses and whose expression compiles (or that has none).    *)
Valid(f) == f.yaml /\ (f.on.expr # NoExpr => f.compiles)

(* Sections 4.6 and 8: a malformed file is logged and skipped and does not *)
(* abort ingestion; unless reading the tree fails, loading ends with the   *)
(* knowledge rule registered over exactly the valid files, in walk order.  *)
ValidFilesRegistered ==
  (stage = "done" /\ err \notin {"dir", "read"}) =>
     /\ registered
     /\ [k \in DOMAIN knowledgeAssets |-> knowledgeAssets[k].file]
           = SelectSeq([i \in DOMAIN files |-> i], LAMBDA i : Valid(files[i]))

(* Section 4.6: a file under a platform directory implicitly requires the  *)
(* platform's context: no token set without one of the platform's tokens  *)
(* satisfies the loaded asset's match tree.                               *)
PlatformContextRequired ==
  \A k \in DOMAIN knowledgeAssets :
     LET p == files[knowledgeAssets[k].file].platform
     IN  p # NoPlatform =>
           \A T \in SUBSET Vocab :
              T \cap PlatformTokens[p] = {} =>
                 IsTokenMatch(knowledgeAssets[k].on, T) # TRUE
=============================================================================
