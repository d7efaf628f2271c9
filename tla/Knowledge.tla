----------------------------- MODULE Knowledge -----------------------------
(***************************************************************************)
(* The owner's knowledge seeds (servers/knowledge.js) with the documents    *)
(* they share with the memory layers (servers/memory.js) and the source     *)
(* manifest (servers/sourceManifest.js), over a required database           *)
(* (module Store).  A seeding rewrites five documents in one turn of the    *)
(* event loop, the registry last; their writes reach the database one by    *)
(* one.  It runs in the server (POST /knowledge/seed/...) or in a process   *)
(* of its own (scripts/seed-*-knowledge.mjs), and each process serves and   *)
(* folds into the rows as it found them when it started.                    *)
(***************************************************************************)
EXTENDS Naturals, SequencesExt

CONSTANTS
  Seeds,     \* the seed files a deployment may ship
  Notes,     \* memory entries callers bring
  Given,     \* sources callers register
  NoKey,     \* a memory entry without an id of the caller's
  Overlap,   \* whether the script may run beside the server
  MaxTurns,  \* bound: handlers and seedings ever run
  MaxLost    \* bound: documents short of a rejected write at a time

\* a seed's lists hold entries [key, ai]: their id and the AI they are for
Lists == {"source_manifest", "knowledge_documents", "verified_sources",
          "semantic_memory_manifest"}
Documents == Lists \cup {"ai_knowledge_registry"}

ASSUME KnowledgeAssumption ==
  /\ \A s \in Seeds : {"ai", "version"} \cup Lists \subseteq DOMAIN s
  /\ \A s \in Seeds, list \in Lists : s[list] \in Seq(ToSet(s[list]))
  /\ \A note \in Notes : note.layer \in {"verified_sources", "semantic_memory_manifest"}
  /\ Overlap \in BOOLEAN /\ MaxTurns \in Nat /\ MaxLost \in Nat

VARIABLES
  up,         \* the processes past initializeStorage
  connected,  \* those whose connection is believed to be up
  job,        \* what the script has yet to seed: a set of at most one call
  mem,        \* each process's cached documents, sequences of entries
  chain,      \* each process's unsettled writes, oldest first
  rows,       \* the documents in the database
  turn,       \* number of handlers and seedings run
  kept        \* history: "stored"; "cached": its last write was rejected;
              \* "gone": and the process that cached it is no more

vars == <<up, connected, job, mem, chain, rows, turn, kept>>

Processes == {"server", "script"}
Empty     == [d \in Documents |-> <<>>]
Calls     == [seed : Seeds, overwrite : BOOLEAN]

TypeOK ==
  /\ connected \subseteq up /\ up \subseteq Processes
  /\ job \subseteq Calls /\ (job # {} => "script" \in up)
  /\ \A p \in Processes \ up : mem[p] = Empty /\ chain[p] = <<>>
  /\ \A d \in Documents \ {"verified_sources", "semantic_memory_manifest"} :
       IsInjective([i \in DOMAIN rows[d] |-> rows[d][i].key])
  /\ \A d \in Documents : \A e \in ToSet(rows[d]) : e.by \in 1..turn
  /\ turn \in 0..MaxTurns
  /\ kept \in [Documents -> {"stored", "cached", "gone"}]

-----------------------------------------------------------------------------
\* Mutant: a source is added without a look at what is there.
PutAnyhow(items, e) == Append(items, e)

\* upsertSource: over the first entry of the same id, or at the end
Put(items, e) ==
  LET same == SelectInSeq(items, LAMBDA x : x.key = e.key) IN
    IF same = 0 THEN Append(items, e) ELSE [items EXCEPT ![same] = e]

Keys(items) == {e.key : e \in ToSet(items)}

\* Mutant: the document is rebuilt from the seed alone.
StartEmpty(items) == <<>>

\* the entries one after the other; one whose id is there is put over it if
\* it may be, and skipped otherwise
PutAll(items, incoming, overwrite) ==
  FoldLeft(LAMBDA map, e : IF overwrite \/ e.key \notin Keys(map)
                           THEN Put(map, e) ELSE map,
           items, incoming)

\* new Map of the entries: of those with one id the last, in the first's place
MapOf(items) == PutAll(<<>>, items, TRUE)

\* mergeBy
MergeBy(items, incoming, overwrite) == PutAll(MapOf(items), incoming, overwrite)

(* verifyArcheKnowledge, verifyAvAiKnowledge: the seed's sources and        *)
(* knowledge are its AI's; its memory entries are not looked at.            *)
Verified(s) ==
  \A list \in {"source_manifest", "knowledge_documents"} :
    \A e \in ToSet(s[list]) : e.ai = s.ai

Stamped(items, n) ==
  [i \in DOMAIN items |-> [key |-> items[i].key, ai |-> items[i].ai, by |-> n]]

\* the manifest is written once for each source
SourceWrites(call, docs, n) ==
  LET sources == Stamped(call.seed["source_manifest"], n)
  IN  [i \in DOMAIN sources |->
         [doc |-> "source_manifest",
          items |-> PutAll(docs["source_manifest"], SubSeq(sources, 1, i), TRUE)]]

MergeWrite(call, docs, n, d) ==
  [doc |-> d, items |-> MergeBy(docs[d], Stamped(call.seed[d], n), call.overwrite)]

\* registry.ais.<ai>: it is replaced whatever overwrite says
RegistryWrite(call, docs, n) ==
  [doc |-> "ai_knowledge_registry",
   items |-> Put(docs["ai_knowledge_registry"],
                 [key |-> call.seed.ai, ai |-> call.seed.ai, by |-> n, call |-> call])]

\* Mutant: a seeding registers itself first.
RegistersFirst(call, docs, n) ==
  <<RegistryWrite(call, docs, n)>> \o SourceWrites(call, docs, n)
    \o <<MergeWrite(call, docs, n, "knowledge_documents"),
         MergeWrite(call, docs, n, "verified_sources"),
         MergeWrite(call, docs, n, "semantic_memory_manifest")>>

(* seedArcheKnowledge, seedAvAiKnowledge: what one writes, in its order.    *)
SeedWrites(call, docs, n) ==
  SourceWrites(call, docs, n)
    \o <<MergeWrite(call, docs, n, "knowledge_documents"),
         MergeWrite(call, docs, n, "verified_sources"),
         MergeWrite(call, docs, n, "semantic_memory_manifest"),
         RegistryWrite(call, docs, n)>>

-----------------------------------------------------------------------------
Init ==
  /\ up = {} /\ connected = {} /\ job = {}
  /\ mem = [p \in Processes |-> Empty] /\ chain = [p \in Processes |-> <<>>]
  /\ rows = Empty /\ turn = 0
  /\ kept = [d \in Documents |-> "stored"]

Start(p) ==
  /\ p \notin up /\ (Overlap \/ up = {})
  /\ up' = up \cup {p} /\ connected' = connected \cup {p}
  /\ mem' = [mem EXCEPT ![p] = rows]
  /\ UNCHANGED <<chain, rows, turn, kept>>

StartServer == Start("server") /\ UNCHANGED job

(* npm run seed:...: a seed that fails its verification ends the script. *)
StartScript(call) ==
  /\ Verified(call.seed)
  /\ Start("script") /\ job' = {call}

\* what is cached of a document after the writes: the last one of it
Cached(docs, writes, d) ==
  LET last == SelectLastInSeq(writes, LAMBDA w : w.doc = d)
  IN  IF last = 0 THEN docs[d] ELSE writes[last].items

\* writeJson, once for each write: the cache, then a link of the chain
WriteAll(p, writes) ==
  /\ turn < MaxTurns /\ turn' = turn + 1
  /\ mem' = [mem EXCEPT ![p] = [d \in Documents |-> Cached(@, writes, d)]]
  /\ chain' = [chain EXCEPT ![p] = @ \o writes]
  /\ UNCHANGED <<up, connected, rows, kept>>

\* Nothing is read, and so nothing written, without a connection.
Seed(p, call) ==
  /\ p \in connected /\ Verified(call.seed)
  /\ WriteAll(p, SeedWrites(call, mem[p], turn + 1))

(* POST /knowledge/seed/arche and /knowledge/seed/avai *)
RouteSeeds(call) == Seed("server", call) /\ UNCHANGED job

ScriptSeeds(call) == call \in job /\ Seed("script", call) /\ job' = {}

(* addMemory (POST /memory/<layer>); the other layers no seeding touches.   *)
(* An id the caller brings replaces the generated one, unchecked.           *)
AddMemory(note) ==
  /\ "server" \in connected /\ note.validated
  /\ LET e == [key |-> IF note.key = NoKey THEN <<"mem", turn + 1>> ELSE note.key,
               ai |-> note.ai, by |-> turn + 1]
     IN  WriteAll("server", <<[doc |-> note.layer,
                              items |-> Append(mem["server"][note.layer], e)]>>)
  /\ UNCHANGED job

(* POST /sources *)
UpsertSource(source) ==
  /\ "server" \in connected
  /\ WriteAll("server",
       <<[doc |-> "source_manifest",
          items |-> Put(mem["server"]["source_manifest"],
                        Stamped(<<source>>, turn + 1)[1])]>>)
  /\ UNCHANGED job

Written(p) == [rows EXCEPT ![Head(chain[p]).doc] = Head(chain[p]).items]

(* The database runs the oldest write of a process and answers. *)
Stored(p) ==
  /\ chain[p] # <<>>
  /\ rows' = Written(p)
  /\ chain' = [chain EXCEPT ![p] = Tail(@)]
  /\ kept' = [kept EXCEPT ![Head(chain[p]).doc] = IF @ = "gone" THEN @ ELSE "stored"]
  /\ UNCHANGED <<up, connected, job, mem, turn>>

(* The write is rejected, run by the database or not; the seeding behind it *)
(* answers ok all the same.                                                 *)
Rejected(p) ==
  /\ chain[p] # <<>>
  /\ Cardinality({d \in Documents : kept[d] # "stored"}
                   \cup {Head(chain[p]).doc}) <= MaxLost
  /\ rows' \in {rows, Written(p)}
  /\ chain' = [chain EXCEPT ![p] = Tail(@)]
  /\ kept' = [kept EXCEPT ![Head(chain[p]).doc] = IF @ = "gone" THEN @ ELSE "cached"]
  /\ connected' = connected \ {p}
  /\ UNCHANGED <<up, job, mem, turn>>

(* GET /storage/database-check finds the connection again. *)
Reconnect ==
  /\ "server" \in up \ connected
  /\ connected' = connected \cup {"server"}
  /\ UNCHANGED <<up, job, mem, chain, rows, turn, kept>>

(* A process dies, or the script is done: closePostgresStore awaits the     *)
(* chain before.                                                            *)
Exit(p) ==
  /\ p \in up
  /\ up' = up \ {p} /\ connected' = connected \ {p}
  /\ mem' = [mem EXCEPT ![p] = Empty] /\ chain' = [chain EXCEPT ![p] = <<>>]
  /\ job' = IF p = "script" THEN {} ELSE job
  /\ kept' = [d \in Documents |-> IF kept[d] = "cached" THEN "gone" ELSE kept[d]]
  /\ UNCHANGED <<rows, turn>>

Next ==
  \/ StartServer \/ Reconnect
  \/ \E call \in Calls :
       StartScript(call) \/ RouteSeeds(call) \/ ScriptSeeds(call)
  \/ \E note \in Notes : AddMemory(note)
  \/ \E source \in Given : UpsertSource(source)
  \/ \E p \in Processes : Stored(p) \/ Rejected(p) \/ Exit(p)

Spec == Init /\ [][Next]_vars

-----------------------------------------------------------------------------
(* What the registry row says was seeded is in the rows of the documents:   *)
(* its entries, in the version of that seeding or of a later one, or merely *)
(* under the same ids if it was told not to overwrite.  It holds halfway    *)
(* through a seeding and after a crash in one, since the registry is        *)
(* written last; a rejected write, which the seeding's answer hides, and    *)
(* two processes at once are what it does not survive.                      *)
RegistryIsBacked ==
  \A r \in ToSet(rows["ai_knowledge_registry"]), d \in Lists :
    kept[d] = "stored" =>
      \A e \in ToSet(r.call.seed[d]) :
        \E x \in ToSet(rows[d]) :
          x.key = e.key /\ (r.call.overwrite => x.by >= r.by)

(* No seeding, memory entry, rejected write or restart takes an entry out   *)
(* of a row, nor a piece of knowledge away from the AI it was seeded for,   *)
(* while one process writes at a time.                                      *)
EntriesStay ==
  [][/\ \A d \in Documents : Keys(rows[d]) \subseteq Keys(rows'[d])
     /\ \A e \in ToSet(rows["knowledge_documents"]) :
          \E x \in ToSet(rows'["knowledge_documents"]) :
            x.key = e.key /\ x.ai = e.ai]_vars

\* knowledgeStatus: what the server counts of an AI
Counted(ai) ==
  Cardinality({e \in ToSet(mem["server"]["knowledge_documents"]) : e.ai = ai})

(* "Expected ArchE result: 46 knowledge documents" of GET /knowledge/status *)
(* once a seeding is through with no write rejected: the server counts the  *)
(* whole seed.                                                              *)
SeededIsServed ==
  (up = {"server"} /\ chain["server"] = <<>> /\ \A d \in Documents : kept[d] = "stored") =>
    \A r \in ToSet(rows["ai_knowledge_registry"]) :
      Counted(r.ai) >= Len(r.call.seed["knowledge_documents"])
=============================================================================
