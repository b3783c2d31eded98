------------------------------ MODULE MCBackend ------------------------------
(* Blocks for the runs of Backend: a shape and the functions of its contexts. *)
EXTENDS Backend

Block(shapes, befores, afters) == [shape : shapes, before : befores, after : afters]

None == {<<>>}
Some == {<<>>, <<"f">>, <<"f", "g">>}

(* Contexts of one insertion point; a repeated instruction has none. *)
PlainBlocks ==
  LET shapes == {"plain", "indirect", "jmp", "jcc"} IN
  Block(shapes, Some, None) \cup Block(shapes, None, Some) \cup Block({"rep"}, None, None)

(* One exit per block. *)
OneExitBlocks ==
  LET shapes == {"plain", "indirect", "jmp"} IN
  Block(shapes, Some, None) \cup Block(shapes, None, {<<"g">>}) \cup Block({"plain"}, {<<"f">>}, {<<"g">>})

MixedBlocks == Block({"jmp", "jcc"}, {<<"f">>}, {<<"g">>})
ReusedBlocks == Block({"jcc", "plain"}, {<<"f">>}, None)
FarBlocks == Block({"jcc_far"}, {<<"f">>}, None)
RepeatedBlocks == Block({"rep"}, {<<"f">>}, None)
FarRepeatedBlocks == Block({"rep_far"}, None, None)
=============================================================================
