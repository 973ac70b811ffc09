------------------------------ MODULE MCUnits ------------------------------
(***************************************************************************)
(* Model checking of the components that share no state with each other in *)
(* these models, one at a time: the initial state chooses a unit, the      *)
(* steps are that unit's, and the others stay where their Init put them.   *)
(***************************************************************************)
EXTENDS RunTable, RunOutput, CodeIndex, CodeIntelligence, EditPlan, Retrieval,
        LspEdits, TLC

VARIABLE unit

(* RunOutput: what the two pipes may deliver.                              *)
Loads(out, err) == [p \in Pipes |-> IF p = "stdout" THEN out ELSE err]
MCLoads ==
  {[chunks |-> Loads({<<b>> : b \in Bytes} \union {<<"e3", "tail">>, <<"esc", "]">>},
                     {}),
    bytes |-> 4, reads |-> 0],
   [chunks |-> Loads({<<"x">>, <<"e2", "tail">>, <<"x", "1">>}, {<<"1">>, <<"e3">>}),
    bytes |-> 4, reads |-> 2]}

(* CodeIndex: a directory with a file and another file, both ignored by    *)
(* Git, one of them an artifact under some of the settings.                *)
MCPaths == {"d", "d/f", "g"}
MCBelow == [p \in MCPaths |-> IF p = "d" THEN {"d/f"} ELSE {}]
MCSymbolsOf ==
  [t \in {"t1", "t2"} |-> IF t = "t1" THEN <<"n", "n">> ELSE <<"m", "n">>]
MCExcluded == [s \in {"s1", "s2"} |-> IF s = "s1" THEN {} ELSE {"g"}]
MCArtifacts == [s \in {"s1", "s2"} |-> IF s = "s1" THEN {"g"} ELSE {"d", "d/f"}]

(* EditPlan: lists of changes of a file with Unix or DOS line endings, or  *)
(* with a repeated text, and of a second file that exists or not.          *)
Unix == <<"f", "n", "x", "n">>
Dos == <<"x", "r", "n", "f", "r", "n">>
Repeated == <<"f", "x", "x", "x">>
News == {<<"y">>, <<"x", "n", "y">>, <<>>}
Hashes(ix) == {Absent, ix["p"], <<"y">>}
Handles(ix) ==
  {Handle("p", l, 2, t) : l \in 1..2, t \in {ix["p"], <<"y">>}}
  \union {Handle(p, 1, 1, ix["p"]) : p \in {"p", "q"}}
  \union {Handle("p", 2, 1, ix["p"])}
MoreChanges(ix) ==
  {CodeWrite(p, <<"y", "n">>, o, h) : p \in {"p", "q"}, o \in BOOLEAN, h \in Hashes(ix)}
  \union {CodeReplace("p", old, new, k, h, Absent) :
            old \in {<<"x">>, <<"f", "n">>, <<"x", "x">>, <<>>}, new \in News,
            k \in 1..2, h \in {Absent, ix["p"]}}
  \union {CodeReplace("q", <<"y">>, <<"x">>, 1, h, Absent) : h \in Hashes(ix)}
  \union {CodeInsert("p", <<"y", "n">>, s, h) :
            s \in {"before", "inside_start"}, h \in Hashes(ix)}
  \union {CodeDelete("p", h) : h \in Hashes(ix)}
  \union {CodeRename(p, q, h) : p, q \in {"p", "q"}, h \in {Absent, ix["p"]}}
HandleChanges(ix) ==
  {CodeReplace("p", old, new, 1, Absent, h) :
     old \in {<<"x">>, <<"n">>}, new \in News, h \in Handles(ix)}
  \union {CodeReplaceRange("p", h, new) : h \in Handles(ix), new \in News}
Paired(ix) ==
  {c \in MoreChanges(ix) :
     /\ c.hash # <<"y">>
     /\ c.kind = "replace" => /\ c.new = <<"x", "n", "y">> /\ c.count = 1
                              /\ c.old # <<"x", "x">>}
MCEditJobs ==
  UNION {LET ix == [p \in {"p", "q"} |-> IF p = "p" THEN v ELSE q] IN
           {[index |-> ix, lists |-> {<<>>} \union {<<c>> : c \in MoreChanges(ix)}],
            [index |-> ix, lists |-> {<<c>> : c \in HandleChanges(ix)}],
            [index |-> ix, lists |-> {<<c, d>> : c, d \in Paired(ix)}],
            [index |-> ix,
             lists |-> {<<c, CodeDelete("p", Absent)>> : c \in HandleChanges(ix)}]}
         : v \in {Unix, Dos, Repeated}, q \in {Absent, <<"y">>}}

(* Retrieval: texts with empty first lines, wide characters, occurrences   *)
(* of every role, and calls of each operation.                             *)
MCCharWidth == [NL |-> 1, d |-> 1, c |-> 1, r |-> 1, u |-> 2]
MCRole ==
  [NL |-> "none", d |-> "declaration", c |-> "call", r |-> "read", u |-> "none"]
MCFileTexts ==
  {<<>>, <<"d", "NL", "u", "NL", "c">>, <<"NL", "c", "u">>,
   <<"c", "NL", "NL", "r", "NL", "NL", "c">>}
TextOp(max, context, paths) ==
  [id |-> 1, kind |-> "search_text", pattern |-> {"c", "r"}, max |-> max,
   context |-> context, paths |-> paths]
RefsOp(max, kinds) ==
  [id |-> 1, kind |-> "find_references", kinds |-> kinds, max |-> max,
   context |-> 0, paths |-> {}, definition |-> Nil, line |-> Nil]
PathOp(scope, compact) ==
  [id |-> 1, kind |-> "read_path", path |-> 1, scope |-> scope, chars |-> 2,
   compact |-> compact]
SymbolOp(id, path) ==
  [id |-> id, kind |-> "read_symbol", path |-> path, context |-> 1, chars |-> 2,
   compact |-> FALSE]
FileOp(id) == [id |-> id, kind |-> "find_file", paths |-> {}, max |-> 1]
BadOp(id) == [id |-> id, kind |-> "none"]
MCCalls ==
  {[ops |-> <<o>>, fail_fast |-> FALSE] :
     o \in {TextOp(2, 0, {}), TextOp(3, 0, {}), TextOp(3, 1, {1}), RefsOp(2, {}),
            RefsOp(2, {"declaration", "call"}), PathOp(<<>>, FALSE),
            PathOp(<<2, 9>>, FALSE), PathOp(<<2, 9>>, TRUE), PathOp(<<9, 9>>, FALSE),
            SymbolOp(1, Nil)}}
  \union {[ops |-> <<BadOp(1), FileOp(2), SymbolOp(2, 2), SymbolOp(3, 2)>>,
           fail_fast |-> f] : f \in BOOLEAN}

(* LspEdits: a wide character takes 3, 2 and 1 units.                      *)
MCUnitsOf ==
  [e \in Encodings |->
    [a |-> 1, NL |-> 1,
     w |-> CASE e = "utf-8" -> 3 [] e = "utf-16" -> 2 [] e = "utf-32" -> 1]]
MCDocuments ==
  {<<>>, <<"w">>, <<"NL">>, <<"a", "NL">>, <<"a", "w", "NL">>, <<"w", "NL", "a">>,
   <<"w", "a", "NL", "w">>}

-----------------------------------------------------------------------------
UnitNames == {"table", "output", "index", "session", "edit", "retrieval",
              "lsp_edits"}

Init ==
  /\ unit \in UnitNames
  /\ EditInit
  /\ unit = "edit" \/ (job.index = [p \in EditPaths |-> IF p = "p" THEN Unix ELSE Absent]
                       /\ job.changes = <<>> /\ job.sends /\ job.preview)
  /\ RetrievalInit
  /\ unit = "retrieval" \/ indexed = [p \in IndexPaths |-> Nil]
  /\ LspEditsInit
  /\ unit = "lsp_edits" \/ document = [text |-> <<>>, encoding |-> "utf-8"]
  /\ OutputInit
  /\ unit = "output" \/ work.reads = 0
  /\ SessionInit
  /\ unit = "session" \/ (disk = [u \in Uris |-> CHOOSE t \in Texts : TRUE] /\ index = disk)
  /\ TableInit
  /\ IndexInit

Next ==
  \/ /\ unit = "table" /\ TableNext
     /\ UNCHANGED <<unit, outputVars, allIndexVars, intelligenceVars,
                    editVars, retrievalVars, lspEditVars>>
  \/ /\ unit = "output" /\ OutputNext
     /\ UNCHANGED <<unit, tableVars, allIndexVars, intelligenceVars,
                    editVars, retrievalVars, lspEditVars>>
  \/ /\ unit = "index" /\ IndexNext
     /\ UNCHANGED <<unit, tableVars, outputVars, intelligenceVars,
                    editVars, retrievalVars, lspEditVars>>
  \/ /\ unit = "session" /\ SessionNext
     /\ UNCHANGED <<unit, tableVars, outputVars, allIndexVars, editVars,
                    retrievalVars, lspEditVars>>
  \/ /\ unit = "edit" /\ EditNext
     /\ UNCHANGED <<unit, tableVars, outputVars, allIndexVars, intelligenceVars,
                    retrievalVars, lspEditVars>>
  \/ /\ unit = "retrieval" /\ RetrievalNext
     /\ UNCHANGED <<unit, tableVars, outputVars, allIndexVars, intelligenceVars,
                    editVars, lspEditVars>>
  \/ /\ unit = "lsp_edits" /\ LspEditsNext
     /\ UNCHANGED <<unit, tableVars, outputVars, allIndexVars, intelligenceVars,
                    editVars, retrievalVars>>

vars == <<unit, tableVars, outputVars, allIndexVars, intelligenceVars,
          editVars, retrievalVars, lspEditVars>>

Spec == Init /\ [][Next]_vars
=============================================================================
