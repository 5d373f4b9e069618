---------------------------- MODULE EmbedIndex ----------------------------
(***************************************************************************)
(* The embedding index behind --smart-context: index.py, indexer.py,       *)
(* index_io.py and embed.py.  `cs index watch` builds the index again and  *)
(* again, `cs index build` once; a build walks the tree, skips the files   *)
(* whose hash is on file and sends the others in batches, each stored in a *)
(* transaction of its own.  Users edit, change the model, import, clear.   *)
(***************************************************************************)
EXTENDS Naturals, FiniteSets

CONSTANTS
    Paths, Contents, Models,
    Watch, Manual,  \* the two builders
    NoRow,          \* no such file, no such row
    BatchSize,      \* _BATCH
    MaxEdits,       \* bound: what users do
    MaxOutages      \* bound: requests the endpoint does not answer

ASSUME IndexAssumption == BatchSize \in Nat \ {0} /\ MaxEdits \in Nat /\ MaxOutages \in Nat

VARIABLES
    tree,           \* what is on disk
    rows,           \* the table: hash, text that was embedded and model
    dump,           \* an exported JSONL file
    embedModel,     \* CLAUDESTRUCT_EMBED_MODEL, read when a process starts
    builder,        \* a builder: step, its model, files to walk, its batch
    smartRun,       \* how the last run with --smart-context began
    edits, outages

embedIndex == <<tree, rows, dump, embedModel, builder, smartRun, edits, outages>>

Asleep(m) == [step |-> "idle", model |-> m, walk |-> {}, batch |-> {}]

IndexInit ==
    /\ tree \in [Paths -> Contents \cup {NoRow}]
    /\ rows = [p \in Paths |-> NoRow]
    /\ dump = [p \in Paths |-> NoRow]
    /\ embedModel \in Models
    /\ builder = [i \in {Watch, Manual} |-> Asleep(embedModel)]
    /\ smartRun = "none" /\ edits = 0 /\ outages = 0

UserActs == edits < MaxEdits /\ edits' = edits + 1

EditFile(p, c) ==
    /\ UserActs
    /\ tree' = [tree EXCEPT ![p] = c]
    /\ UNCHANGED <<rows, dump, embedModel, builder, smartRun, outages>>

SetModel(m) ==
    /\ UserActs
    /\ embedModel' = m
    /\ UNCHANGED <<tree, rows, dump, builder, smartRun, outages>>

ClearIndex ==
    /\ UserActs
    /\ rows' = [p \in Paths |-> NoRow]
    /\ UNCHANGED <<tree, dump, embedModel, builder, smartRun, outages>>

ExportRows ==
    /\ UserActs
    /\ dump' = rows
    /\ UNCHANGED <<tree, rows, embedModel, builder, smartRun, outages>>

\* import_from_jsonl: rows on file are overwritten, in one transaction.
ImportRows ==
    /\ UserActs
    /\ rows' = [p \in Paths |-> IF dump[p] = NoRow THEN rows[p] ELSE dump[p]]
    /\ UNCHANGED <<tree, dump, embedModel, builder, smartRun, outages>>

\* smart_paths embeds the task with the model in force; the query compares it
\* with every row, and a row of another dimension is a ValueError.
SmartRun ==
    /\ UserActs
    /\ \/ /\ outages < MaxOutages /\ outages' = outages + 1
          /\ smartRun' = "without"
       \/ /\ smartRun' = IF \E p \in Paths : rows[p] # NoRow /\ rows[p].model # embedModel
                         THEN "aborted"
                         ELSE IF \A p \in Paths : rows[p] = NoRow THEN "without" ELSE "with"
          /\ UNCHANGED outages
    /\ UNCHANGED <<tree, rows, dump, embedModel, builder>>

Becomes(i, b) == builder' = [builder EXCEPT ![i] = b]

\* build_index: _walk_source_files.  The watch keeps the model it started with.
StartBuild(i) ==
    /\ builder[i].step = "idle"
    /\ IF i = Manual THEN UserActs ELSE UNCHANGED edits
    /\ Becomes(i, [step |-> "build", batch |-> {},
                   walk |-> {p \in Paths : tree[p] # NoRow},
                   model |-> IF i = Manual THEN embedModel ELSE builder[i].model])
    /\ UNCHANGED <<tree, rows, dump, embedModel, smartRun, outages>>

\* Mutant of Unchanged: a file that has a row is skipped.
UnchangedIfKnown(p) == rows[p] # NoRow

\* idx.get_sha(rel) == sha
Unchanged(p) == rows[p] # NoRow /\ rows[p].sha = tree[p]

\* A file that is gone is skipped; what is read is hashed and joins the batch.
LookAtFile(i, p) ==
    /\ builder[i].step = "build" /\ p \in builder[i].walk
    /\ Cardinality(builder[i].batch) < BatchSize
    /\ LET read == IF tree[p] = NoRow \/ Unchanged(p) THEN {}
                   ELSE {[path |-> p, sha |-> tree[p]]}
       IN  Becomes(i, [builder[i] EXCEPT !.walk = @ \ {p}, !.batch = @ \cup read])
    /\ UNCHANGED <<tree, rows, dump, embedModel, smartRun, edits, outages>>

Due(i) ==
    /\ builder[i].step = "build" /\ builder[i].batch # {}
    /\ builder[i].walk = {} \/ Cardinality(builder[i].batch) = BatchSize

\* embed_batch and upsert_many: what was read, however old it is by now.
FlushBatch(i) ==
    /\ Due(i)
    /\ rows' = [p \in Paths |->
                   IF \E f \in builder[i].batch : f.path = p
                   THEN [sha |-> (CHOOSE f \in builder[i].batch : f.path = p).sha,
                         model |-> builder[i].model]
                   ELSE rows[p]]
    /\ Becomes(i, [builder[i] EXCEPT !.batch = {}])
    /\ UNCHANGED <<tree, dump, embedModel, smartRun, edits, outages>>

\* watch_index catches an EmbeddingError and retries ...
AfterOutage == "idle"

\* ... but an answer that is cut off and a locked database raise something else.
EndpointFails(i) ==
    /\ Due(i) /\ outages < MaxOutages
    /\ outages' = outages + 1
    /\ \E caught \in BOOLEAN :
        Becomes(i, [Asleep(builder[i].model) EXCEPT
            !.step = IF caught THEN AfterOutage ELSE IF i = Watch THEN "died" ELSE "idle"])
    /\ UNCHANGED <<tree, rows, dump, embedModel, smartRun, edits>>

EndBuild(i) ==
    /\ builder[i].step = "build" /\ builder[i].walk = {} /\ builder[i].batch = {}
    /\ Becomes(i, Asleep(builder[i].model))
    /\ UNCHANGED <<tree, rows, dump, embedModel, smartRun, edits, outages>>

BuildStep(i) ==
    \/ StartBuild(i) \/ FlushBatch(i) \/ EndpointFails(i) \/ EndBuild(i)
    \/ \E p \in Paths : LookAtFile(i, p)

IndexNext ==
    \/ \E p \in Paths, c \in Contents \cup {NoRow} : EditFile(p, c)
    \/ \E m \in Models : SetModel(m)
    \/ ClearIndex \/ ExportRows \/ ImportRows \/ SmartRun
    \/ \E i \in {Watch, Manual} : BuildStep(i)

IndexSpec == IndexInit /\ [][IndexNext]_embedIndex /\ WF_embedIndex(BuildStep(Watch))

-----------------------------------------------------------------------------
(* Properties.                                                             *)

Current ==
    \A p \in Paths :
        tree[p] # NoRow => rows[p] # NoRow /\ rows[p].sha = tree[p]

\* watch_index, "the next iteration retries": once users leave the tree and the
\* index alone, the index comes to hold every file as it is, whatever a second
\* builder or an import wrote over it, unless the watch died of an error that
\* is not an EmbeddingError.
WatchCatchesUp == <>[](builder[Watch].step = "died" \/ Current)

\* _run_common, "--smart-context should never abort a run by itself": only an
\* EmbeddingError is caught, and rows of two models stay side by side, since a
\* file whose hash is on file is not embedded again.
SmartContextNeverAborts == smartRun # "aborted"

=============================================================================
