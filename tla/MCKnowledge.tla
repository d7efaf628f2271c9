---------------------------- MODULE MCKnowledge ----------------------------
(* A small instance of Knowledge: an AI with two versions of its seed, the  *)
(* later with one document more, an AI with one, and a seed with an entry   *)
(* of another AI.                                                           *)
EXTENDS Knowledge
CONSTANT none

Of(ai, n) == [key |-> <<ai, n>>, ai |-> ai]

File(ai, version, knowledge) ==
  [ai |-> ai, version |-> version,
   source_manifest |-> <<Of(ai, 1)>>, knowledge_documents |-> knowledge,
   verified_sources |-> <<Of(ai, 1)>>, semantic_memory_manifest |-> <<Of(ai, 1)>>]

MCSeeds == {File("arche", 1, <<Of("arche", 1)>>),
            File("arche", 2, <<Of("arche", 1), Of("arche", 2)>>),
            File("av_ai", 1, <<Of("av_ai", 1)>>),
            File("av_ai", 2, <<Of("av_ai", 1), Of("arche", 2)>>)}

MCNotes == [layer : {"verified_sources"}, validated : {TRUE}, ai : {"arche"},
            key : {none, <<"own", 1>>}]
MCGiven == {Of("arche", 1)}
=============================================================================
