----------------------------- MODULE Embeddings -----------------------------
(***************************************************************************)
(* One chatbot's embedding model, the width recorded for it, and the       *)
(* vectors and the similarity floor that depend on both                    *)
(* (app/services/ai_config.py, ai/factory.py, ingestion/pipeline.py,       *)
(* nuvrag_mem/calibration.py, rag.py).                                     *)
(*                                                                         *)
(* An actor is one request or one ingestion job.  It reads what it needs   *)
(* in a transaction of its own, calls the provider with no transaction     *)
(* open, and writes in another: a step is what happens between two places  *)
(* where another actor's commit can fall.  The ORM writes a column only    *)
(* when its value differs from the one it has loaded.                      *)
(***************************************************************************)
EXTENDS Naturals, FiniteSets

CONSTANTS
    Models,       \* a provider and a model name
    Widths,
    WidthsOf,     \* [Models -> SUBSET Widths]: what a model has been seen to return
    Docs,         \* ids of documents; an id is never used again
    Actors

VARIABLES
    config,  \* chatbot_ai_config: the embedding model and its recorded width
    floor,   \* the model the chatbot's calibrated floor was measured with
    doc,     \* [Docs -> {"unused", "live", "gone"}]
    chunks,  \* [Docs -> ConfigRecord]: model and width of its vectors
    act,     \* [Actors -> ActorRecord]
    overtaken  \* history: saves past the lock since whose look at the chunks
               \* vectors have been stored

vars == <<config, floor, doc, chunks, act, overtaken>>

NoModel == "none"
Unknown == "unknown"
ConfigRecord == [model : Models \cup {NoModel}, width : Widths \cup {Unknown}]
Nothing == [model |-> NoModel, width |-> Unknown]

ActorRecord ==
    [pc : {"idle", "check", "write", "discover", "probe", "embed", "record", "store",
           "search", "measure"},
     model : Models \cup {NoModel},   \* the model it calls, or is to save
     loaded : ConfigRecord,           \* the configuration it has read or written
     loadedFloor : Models \cup {NoModel},  \* what a save read of the floor
     got : Widths \cup {Unknown},     \* the width the provider returned
     doc : Docs, ingesting : BOOLEAN]

ASSUME ConstantsAssumption ==
    /\ WidthsOf \in [Models -> SUBSET Widths]
    /\ NoModel \notin Models /\ Unknown \notin Widths
    /\ Docs # {}

AnyDoc == CHOOSE d \in Docs : TRUE
Idle == [pc |-> "idle", model |-> NoModel, loaded |-> Nothing, loadedFloor |-> NoModel,
         got |-> Unknown, doc |-> AnyDoc, ingesting |-> FALSE]

Init ==
    /\ config = Nothing
    /\ floor = NoModel
    /\ doc = [d \in Docs |-> "unused"]
    /\ chunks = [d \in Docs |-> Nothing]
    /\ act = [a \in Actors |-> Idle]
    /\ overtaken = {}

HasChunks == \E d \in Docs : chunks[d] # Nothing
-----------------------------------------------------------------------------
\* What the history keeps of a step.
Recorded ==
    overtaken' = {a \in Actors :
       /\ act'[a].pc = "write"
       /\ a \in overtaken \/ \E d \in Docs : chunks'[d] \notin {Nothing, chunks[d]}}

Finish(a) == act' = [act EXCEPT ![a] = Idle]
Proceed(a, pc) == act' = [act EXCEPT ![a].pc = pc]
Answered(a, w, pc) == act' = [act EXCEPT ![a].got = w, ![a].pc = pc]

\* _embedding_changed, of the row as it was loaded.
Moves(q) == q.loaded.model \notin {NoModel, q.model}

\* What an actor has read when its handler starts to work.
Start(a, pc, m, d, ingesting) ==
    LET q == [pc |-> pc, model |-> m, loaded |-> config,
              loadedFloor |-> IF pc = "check" THEN floor ELSE NoModel,
              got |-> Unknown, doc |-> d, ingesting |-> ingesting] IN
    /\ act[a].pc = "idle"
    /\ act' = [act EXCEPT ![a] = q]
    /\ UNCHANGED <<config, floor, doc, chunks>>
    /\ Recorded

\* save_config: the chatbot and its configuration are read ...
BeginSave(a, m) == Start(a, "check", m, AnyDoc, FALSE)

\* Mutant: only the absence of a configuration is looked at.
LockedNever(q) == FALSE

\* ... then the lock: a model that has vectors is not left.
Locked(q) == Moves(q) /\ HasChunks

CheckChunks(a) ==
    /\ act[a].pc = "check"
    /\ \/ Locked(act[a]) /\ Finish(a)
       \/ ~Locked(act[a]) /\ Proceed(a, "write")
    /\ UNCHANGED <<config, floor, doc, chunks>>
    /\ Recorded

\* Mutant: the floor is kept.
ClearedNever(q) == floor

\* _apply: a recorded width is a fact about the old model only.
Applied(q, row) ==
    [model |-> IF Moves(q) THEN q.model ELSE row.model,
     width |-> IF Moves(q) /\ q.loaded.width # Unknown THEN Unknown ELSE row.width]

\* calibration.clear
Cleared(q) == IF Moves(q) /\ q.loadedFloor # NoModel THEN NoModel ELSE floor

\* The row as this request holds it after _apply.
AtHand(q) ==
    [model |-> q.model, width |-> IF Moves(q) THEN Unknown ELSE q.loaded.width]

Saved(a, pc) ==
    act' = [act EXCEPT ![a].pc = pc, ![a].loaded = AtHand(act[a]),
                       ![a].loadedFloor = NoModel]

\* The INSERT of a first configuration, which a second one makes fail, or the
\* UPDATE; and the commit.
WriteConfig(a) ==
    LET q == act[a] IN
    /\ q.pc = "write"
    /\ \/ /\ q.loaded.model = NoModel /\ config.model = NoModel
          /\ config' = [model |-> q.model, width |-> Unknown]
          /\ floor' = floor
          /\ Saved(a, "discover")
       \/ /\ q.loaded.model = NoModel /\ config.model # NoModel
          /\ UNCHANGED <<config, floor>>
          /\ Finish(a)
       \/ /\ q.loaded.model # NoModel
          /\ config' = Applied(q, config)
          /\ floor' = Cleared(q)
          /\ \/ AtHand(q).width = Unknown /\ Saved(a, "discover")
             \/ AtHand(q).width # Unknown /\ Finish(a)
    /\ UNCHANGED <<doc, chunks>>
    /\ Recorded

\* _discover_dimension asks the provider, which may not answer.
Discover(a) ==
    /\ act[a].pc = "discover"
    /\ \/ \E w \in WidthsOf[act[a].model] : Answered(a, w, "record")
       \/ Finish(a)
    /\ UNCHANGED <<config, floor, doc, chunks>>
    /\ Recorded

\* record_embedding_dimension, which asks nobody whether it is still so.
RecordDimension(a) ==
    /\ act[a].pc = "record"
    /\ config' = IF config.model = NoModel THEN config
                 ELSE [config EXCEPT !.width = act[a].got]
    /\ IF act[a].ingesting THEN Proceed(a, "store") ELSE Finish(a)
    /\ UNCHANGED <<floor, doc, chunks>>
    /\ Recorded

\* test_config of an embedding model.
BeginTest(a, m) == Start(a, "probe", m, AnyDoc, FALSE)

\* Mutant: the proof is recorded whatever model it was about.
ProvesAnything(q) == q.loaded.model # NoModel /\ q.loaded.width = Unknown

ProvesStored(q) == q.loaded.model = q.model /\ q.loaded.width = Unknown

Probe(a) ==
    LET q == act[a] IN
    /\ q.pc = "probe"
    /\ \/ ProvesStored(q) /\ \E w \in WidthsOf[q.model] : Answered(a, w, "record")
       \/ Finish(a)
    /\ UNCHANGED <<config, floor, doc, chunks>>
    /\ Recorded
-----------------------------------------------------------------------------
\* upload_document: require_embedding_ready has found a configuration.
Upload(d) ==
    /\ doc[d] = "unused" /\ config.model # NoModel
    /\ doc' = [doc EXCEPT ![d] = "live"]
    /\ UNCHANGED <<config, floor, chunks, act>>
    /\ Recorded

\* The chunks go with the row.
DeleteDocument(d) ==
    /\ doc[d] = "live"
    /\ doc' = [doc EXCEPT ![d] = "gone"]
    /\ chunks' = [chunks EXCEPT ![d] = Nothing]
    /\ UNCHANGED <<config, floor, act>>
    /\ Recorded

\* process_document up to get_embedding_provider.
BeginIngest(a, d) ==
    /\ doc[d] = "live" /\ config.model # NoModel
    /\ Start(a, "embed", config.model, d, TRUE)

\* _settle_dimension
Settles(q, w) == q.loaded.width \in {Unknown, w}

\* embed_batch: an answer that settles, or one that does not and a failure.
Embed(a) ==
    LET q == act[a] IN
    /\ q.pc = "embed"
    /\ \/ \E w \in WidthsOf[q.model] :
             /\ Settles(q, w)
             /\ Answered(a, w, IF q.loaded.width = Unknown THEN "record" ELSE "store")
       \/ Finish(a)
    /\ UNCHANGED <<config, floor, doc, chunks>>
    /\ Recorded

\* The document's chunks are replaced, unless its row is gone.
StoreChunks(a) ==
    LET q == act[a] IN
    /\ q.pc = "store"
    /\ chunks' = IF doc[q.doc] # "live" THEN chunks
                 ELSE [chunks EXCEPT ![q.doc] = [model |-> q.model, width |-> q.got]]
    /\ Finish(a)
    /\ UNCHANGED <<config, floor, doc>>
    /\ Recorded
-----------------------------------------------------------------------------
\* A chat turn embeds the question, if a width is known ...
BeginTurn(a) ==
    /\ config.width # Unknown
    /\ Start(a, "search", config.model, AnyDoc, FALSE)

\* ... searches, and measures a floor when it knows of none; that is a matter
\* of the cached settings.
Search(a) ==
    /\ act[a].pc = "search"
    /\ Finish(a) \/ Proceed(a, "measure")
    /\ UNCHANGED <<config, floor, doc, chunks>>
    /\ Recorded

\* recalibrate_memory
BeginCalibrate(a) ==
    /\ config.model # NoModel
    /\ Start(a, "measure", config.model, AnyDoc, FALSE)

\* calibrate measures and stores, or gives up.
Calibrate(a) ==
    /\ act[a].pc = "measure"
    /\ floor' \in {act[a].model, floor}
    /\ Finish(a)
    /\ UNCHANGED <<config, doc, chunks>>
    /\ Recorded
-----------------------------------------------------------------------------
ActorStep(a) ==
    \/ \E m \in Models : BeginSave(a, m)
    \/ CheckChunks(a)
    \/ WriteConfig(a)
    \/ Discover(a)
    \/ RecordDimension(a)
    \/ \E m \in Models : BeginTest(a, m)
    \/ Probe(a)
    \/ \E d \in Docs : BeginIngest(a, d)
    \/ Embed(a)
    \/ StoreChunks(a)
    \/ BeginTurn(a)
    \/ Search(a)
    \/ BeginCalibrate(a)
    \/ Calibrate(a)

DocumentStep(d) == Upload(d) \/ DeleteDocument(d)

Next ==
    \/ \E a \in Actors : ActorStep(a)
    \/ \E d \in Docs : DocumentStep(d)

Spec == Init /\ [][Next]_vars
-----------------------------------------------------------------------------
TypeOK ==
    /\ config \in ConfigRecord
    /\ floor \in Models \cup {NoModel}
    /\ doc \in [Docs -> {"unused", "live", "gone"}]
    /\ chunks \in [Docs -> ConfigRecord]
    /\ act \in [Actors -> ActorRecord]
    /\ overtaken \subseteq Actors

\* The configured model is no longer the one this actor has read or written.
Stale(q) == q.loaded.model # config.model

Leaves(a, pc) == act[a].pc = pc /\ act'[a].pc # pc

\* rag.py:107-110: distances between two models' vectors mean nothing, so all
\* that is stored is the configured model's.
OneModel ==
    \A d \in Docs : chunks[d] # Nothing =>
        chunks[d].model = config.model /\ config.model # NoModel

\* As far as the code keeps it (ai_config.py:70): models are mixed only by a job
\* that stores what it embedded with a model left since, and by a change of model
\* that has looked for vectors before the first were stored.
ModelsMixInARace ==
    [][OneModel =>
          \/ OneModel'
          \/ \E a \in Actors : Leaves(a, "store") /\ Stale(act[a])
          \/ \E a \in overtaken : Leaves(a, "write")]_vars

\* ai_config.py:183-186: the recorded width is one the configured model has
\* returned.
WidthProven ==
    config.width # Unknown =>
        config.model # NoModel /\ config.width \in WidthsOf[config.model]

\* As far as the code keeps it (factory.py:295): it ceases to be only when a width
\* is recorded by one that got it from a model left since, and when a change of
\* model has read the row before a width was recorded.
WidthUnprovenInARace ==
    [][WidthProven =>
          \/ WidthProven'
          \/ \E a \in Actors : Leaves(a, "record") /\ Stale(act[a])
          \/ \E a \in Actors :
                Leaves(a, "write") /\ act[a].loaded.width # config.width]_vars

\* calibration.py:257-260: no floor describes a model the chatbot has left.
FloorDescribesModel == floor \in {NoModel, config.model}

\* As far as the code keeps it (calibration.py:239): one does only when it was
\* measured with a model left since, and when a change of model has read the
\* chatbot before the floor was stored.
FloorMisleadsInARace ==
    [][FloorDescribesModel =>
          \/ FloorDescribesModel'
          \/ \E a \in Actors : Leaves(a, "measure") /\ Stale(act[a])
          \/ \E a \in Actors : Leaves(a, "write") /\ act[a].loadedFloor # floor]_vars

\* pipeline.py:127-128: no vectors are in a partition that queries step past.
OneWidth ==
    \A d \in Docs : chunks[d] # Nothing => chunks[d].width = config.width

\* What the three rest on, however moves overlap: an actor's model is the one of
\* the row it holds, its width one that model returned, and a change of model that
\* is not overtaken finds no vectors.
Coherent(q) ==
    /\ q.pc \in {"discover", "embed", "record", "store", "search", "measure"} =>
          q.model = q.loaded.model
    /\ q.pc \in {"record", "store"} => q.model # NoModel /\ q.got \in WidthsOf[q.model]

FindsNoVectors(a) ==
    act[a].pc = "write" /\ Moves(act[a]) /\ a \notin overtaken => ~HasChunks

LockInv == \A a \in Actors : Coherent(act[a]) /\ FindsNoVectors(a)
=============================================================================
