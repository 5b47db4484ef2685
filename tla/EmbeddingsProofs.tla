-------------------------- MODULE EmbeddingsProofs --------------------------
(***************************************************************************)
(* Which overlaps alone make the vectors, the width or the floor of a      *)
(* chatbot another model's, for any models, widths, documents and actors;  *)
(* why a client of the cache may be closed under the turn that holds it;   *)
(* and what a visitor reads of an answer, however the provider cuts it.    *)
(***************************************************************************)
EXTENDS Embeddings, ClientCache, ReasoningFilter, FiniteSetTheorems, SequenceTheorems,
        WellFoundedInduction, TLAPS

\* The three ways an actor's record changes.
LEMMA Finished ==
    ASSUME act \in [Actors -> ActorRecord], NEW a \in Actors, Finish(a)
    PROVE  /\ act' \in [Actors -> ActorRecord]
           /\ act'[a] = Idle
           /\ \A b \in Actors : b # a => act'[b] = act[b]
<1>1. Idle \in ActorRecord
  BY ConstantsAssumption DEF Idle, ActorRecord, Nothing, ConfigRecord, AnyDoc
<1> QED BY <1>1 DEF Finish

LEMMA Proceeded ==
    ASSUME act \in [Actors -> ActorRecord], NEW a \in Actors,
           NEW pc \in {"idle", "check", "write", "discover", "probe", "embed", "record",
                       "store", "search", "measure"},
           Proceed(a, pc)
    PROVE  /\ act' \in [Actors -> ActorRecord]
           /\ act'[a] = [act[a] EXCEPT !.pc = pc]
           /\ \A b \in Actors : b # a => act'[b] = act[b]
<1>1. [act[a] EXCEPT !.pc = pc] \in ActorRecord
  BY DEF ActorRecord
<1>2. act' = [act EXCEPT ![a] = [act[a] EXCEPT !.pc = pc]]
  BY DEF Proceed
<1> QED BY <1>1, <1>2

LEMMA HasAnswer ==
    ASSUME act \in [Actors -> ActorRecord], NEW a \in Actors, NEW w \in Widths,
           NEW pc \in {"record", "store"}, Answered(a, w, pc)
    PROVE  /\ act' \in [Actors -> ActorRecord]
           /\ act'[a].pc = pc /\ act'[a].got = w
           /\ act'[a].model = act[a].model /\ act'[a].loaded = act[a].loaded
           /\ \A b \in Actors : b # a => act'[b] = act[b]
<1> DEFINE r == [act[a] EXCEPT !.got = w, !.pc = pc]
<1>1. /\ r \in ActorRecord /\ r.pc = pc /\ r.got = w
      /\ r.model = act[a].model /\ r.loaded = act[a].loaded
  BY DEF ActorRecord
<1>2. act' = [act EXCEPT ![a] = r]
  BY DEF Answered
<1> HIDE DEF r
<1> QED BY <1>1, <1>2

\* The row a save has written is the one it goes on with.
LEMMA HasSaved ==
    ASSUME act \in [Actors -> ActorRecord], NEW a \in Actors, act[a].model # NoModel,
           Saved(a, "discover")
    PROVE  /\ act' \in [Actors -> ActorRecord]
           /\ act'[a].pc = "discover" /\ act'[a].model = act[a].model
           /\ act'[a].loaded = AtHand(act[a])
           /\ \A b \in Actors : b # a => act'[b] = act[b]
<1>1. act[a] \in ActorRecord
  OBVIOUS
<1>2. AtHand(act[a]) \in ConfigRecord
  BY <1>1 DEF AtHand, ActorRecord, ConfigRecord
<1> DEFINE r == [act[a] EXCEPT !.pc = "discover", !.loaded = AtHand(act[a]),
                               !.loadedFloor = NoModel]
<1>3. /\ r \in ActorRecord /\ r.pc = "discover" /\ r.model = act[a].model
      /\ r.loaded = AtHand(act[a])
  BY <1>1, <1>2 DEF ActorRecord
<1>4. act' = [act EXCEPT ![a] = r]
  BY DEF Saved
<1> HIDE DEF r
<1> QED BY <1>3, <1>4

LEMMA Started ==
    ASSUME TypeOK, NEW a \in Actors,
           NEW pc \in {"check", "probe", "embed", "search", "measure"},
           NEW m \in Models \cup {NoModel}, NEW d \in Docs, NEW ingesting \in BOOLEAN,
           Start(a, pc, m, d, ingesting)
    PROVE  /\ act' \in [Actors -> ActorRecord]
           /\ act'[a].pc = pc /\ act'[a].model = m /\ act'[a].loaded = config
           /\ \A b \in Actors : b # a => act'[b] = act[b]
           /\ UNCHANGED <<config, floor, doc, chunks>>
<1> DEFINE q == [pc |-> pc, model |-> m, loaded |-> config,
                 loadedFloor |-> IF pc = "check" THEN floor ELSE NoModel,
                 got |-> Unknown, doc |-> d, ingesting |-> ingesting]
<1>1. q \in ActorRecord /\ q.pc = pc /\ q.model = m /\ q.loaded = config
  BY DEF ActorRecord, TypeOK
<1>2. act' = [act EXCEPT ![a] = q]
  BY DEF Start
<1>3. act \in [Actors -> ActorRecord]
  BY DEF TypeOK
<1> HIDE DEF q
<1> QED BY <1>1, <1>2, <1>3 DEF Start

\* Every step keeps the history.
LEMMA Remembers ==
    ASSUME NEW a \in Actors, ActorStep(a)
    PROVE  Recorded
BY DEF ActorStep, BeginSave, CheckChunks, WriteConfig, Discover, RecordDimension, BeginTest,
       Probe, BeginIngest, Embed, StoreChunks, BeginTurn, Search, BeginCalibrate, Calibrate,
       Start
-----------------------------------------------------------------------------
\* Type correctness, for the actions on a request's own record.
LEMMA StartTypes ==
    ASSUME TypeOK, NEW a \in Actors,
           NEW pc \in {"check", "probe", "embed", "search", "measure"},
           NEW m \in Models \cup {NoModel}, NEW d \in Docs, NEW ingesting \in BOOLEAN,
           Start(a, pc, m, d, ingesting)
    PROVE  TypeOK'
<1>1. act' \in [Actors -> ActorRecord] /\ UNCHANGED <<config, floor, doc, chunks>>
  BY Started
<1>2. Recorded
  BY DEF Start
<1> QED BY <1>1, <1>2 DEF TypeOK, Recorded

LEMMA FinishTypes ==
    ASSUME TypeOK, NEW a \in Actors, Finish(a), UNCHANGED doc, Recorded,
           config' \in ConfigRecord, floor' \in Models \cup {NoModel},
           chunks' \in [Docs -> ConfigRecord]
    PROVE  TypeOK'
BY Finished DEF TypeOK, Recorded

LEMMA ProceedTypes ==
    ASSUME TypeOK, NEW a \in Actors, UNCHANGED doc, Recorded,
           NEW pc \in {"write", "store", "measure"}, Proceed(a, pc),
           config' \in ConfigRecord, floor' \in Models \cup {NoModel},
           chunks' \in [Docs -> ConfigRecord]
    PROVE  TypeOK'
BY Proceeded DEF TypeOK, Recorded

LEMMA SavedTypes ==
    ASSUME TypeOK, NEW a \in Actors, UNCHANGED <<doc, chunks>>, Recorded,
           act[a].model # NoModel, Saved(a, "discover"),
           config' \in ConfigRecord, floor' \in Models \cup {NoModel}
    PROVE  TypeOK'
<1>1. act' \in [Actors -> ActorRecord]
  BY HasSaved DEF TypeOK
<1> QED BY <1>1 DEF TypeOK, Recorded

LEMMA AnswerTypes ==
    ASSUME TypeOK, NEW a \in Actors, NEW w \in Widths,
           NEW pc \in {"record", "store"}, Answered(a, w, pc),
           UNCHANGED <<config, floor, doc, chunks>>, Recorded
    PROVE  TypeOK'
BY HasAnswer DEF TypeOK, Recorded

\* What a save writes is a configuration.
LEMMA AppliedType ==
    ASSUME NEW q \in ActorRecord, q.model # NoModel, NEW row \in ConfigRecord
    PROVE  Applied(q, row) \in ConfigRecord
BY DEF Applied, ActorRecord, ConfigRecord

LEMMA WidthsType ==
    ASSUME NEW m \in Models \cup {NoModel}, m # NoModel
    PROVE  WidthsOf[m] \subseteq Widths
BY ConstantsAssumption
-----------------------------------------------------------------------------
\* What TypeOK needs to be inductive: who saves or calls has a model to name.
Called ==
    \A a \in Actors :
        act[a].pc \in {"check", "write", "discover", "probe", "embed"} =>
            act[a].model # NoModel

TypeInv == TypeOK /\ Called

LEMMA CalledStart ==
    ASSUME TypeInv, NEW a \in Actors,
           NEW pc \in {"check", "probe", "embed", "search", "measure"},
           NEW m \in Models \cup {NoModel}, NEW d \in Docs, NEW ingesting \in BOOLEAN,
           Start(a, pc, m, d, ingesting),
           pc \in {"check", "probe", "embed"} => m # NoModel
    PROVE  TypeInv'
<1>1. TypeOK'
  BY StartTypes DEF TypeInv
<1>2. TypeOK /\ Called
  BY DEF TypeInv
<1>4. act'[a].pc = pc /\ act'[a].model = m
  BY <1>2, Started
<1>5. \A b \in Actors : b # a => act'[b] = act[b]
  BY <1>2, Started
<1>3. Called'
  BY <1>2, <1>4, <1>5 DEF Called
<1> QED BY <1>1, <1>3 DEF TypeInv

LEMMA CalledFinish ==
    ASSUME TypeInv, NEW a \in Actors, Finish(a), TypeOK'
    PROVE  TypeInv'
<1>1. act'[a].pc = "idle" /\ \A b \in Actors : b # a => act'[b] = act[b]
  BY Finished DEF TypeInv, TypeOK, Idle
<1> QED BY <1>1 DEF TypeInv, Called

LEMMA CalledProceed ==
    ASSUME TypeInv, NEW a \in Actors, TypeOK',
           NEW pc \in {"write", "store", "measure"}, Proceed(a, pc),
           pc = "write" => act[a].model # NoModel
    PROVE  TypeInv'
<1>1. /\ act'[a] = [act[a] EXCEPT !.pc = pc]
      /\ \A b \in Actors : b # a => act'[b] = act[b]
  BY Proceeded DEF TypeInv, TypeOK
<1>2. act'[a].pc = pc /\ act'[a].model = act[a].model
  BY <1>1 DEF TypeInv, TypeOK, ActorRecord
<1> QED BY <1>1, <1>2 DEF TypeInv, Called

LEMMA CalledSaved ==
    ASSUME TypeInv, NEW a \in Actors, TypeOK', act[a].model # NoModel,
           Saved(a, "discover")
    PROVE  TypeInv'
<1>0. act \in [Actors -> ActorRecord]
  BY DEF TypeInv, TypeOK
<1>1. act'[a].pc = "discover" /\ act'[a].model # NoModel
  BY <1>0, HasSaved
<1>2. \A b \in Actors : b # a => act'[b] = act[b]
  BY <1>0, HasSaved
<1> QED BY <1>1, <1>2 DEF TypeInv, Called

LEMMA CalledAnswer ==
    ASSUME TypeInv, NEW a \in Actors, TypeOK', NEW w \in Widths,
           NEW pc \in {"record", "store"}, Answered(a, w, pc)
    PROVE  TypeInv'
<1>0. act \in [Actors -> ActorRecord]
  BY DEF TypeInv, TypeOK
<1>1. act'[a].pc = pc
  BY <1>0, HasAnswer
<1>2. \A b \in Actors : b # a => act'[b] = act[b]
  BY <1>0, HasAnswer
<1>3. Called'
  BY <1>1, <1>2 DEF TypeInv, Called
<1> QED BY <1>3 DEF TypeInv

LEMMA TypeInvActor ==
    ASSUME TypeInv, NEW a \in Actors, ActorStep(a)
    PROVE  TypeInv'
<1> USE DEF TypeInv
<1>0. AnyDoc \in Docs
  BY ConstantsAssumption DEF AnyDoc
<1>r. Recorded
  BY Remembers
<1>t. /\ act[a] \in ActorRecord /\ config \in ConfigRecord
      /\ floor \in Models \cup {NoModel} /\ chunks \in [Docs -> ConfigRecord]
  BY DEF TypeOK
<1>m. \A m \in Models : m \in Models \cup {NoModel} /\ m # NoModel
  BY ConstantsAssumption
<1>f. ASSUME Finish(a), UNCHANGED <<config, floor, doc, chunks>> PROVE TypeInv'
  BY <1>f, <1>t, <1>r, FinishTypes, CalledFinish
<1>1. ASSUME NEW m \in Models, BeginSave(a, m) PROVE TypeInv'
  BY <1>1, <1>0, <1>m, CalledStart DEF BeginSave
<1>2. CASE CheckChunks(a)
  <2>1. CASE Finish(a)
    BY <1>2, <2>1, <1>f DEF CheckChunks
  <2>2. CASE Proceed(a, "write")
    <3>1. act[a].model # NoModel /\ UNCHANGED <<config, floor, doc, chunks>>
      BY <1>2 DEF CheckChunks, Called
    <3> QED BY <2>2, <3>1, <1>t, <1>r, ProceedTypes, CalledProceed
  <2> QED BY <1>2, <2>1, <2>2 DEF CheckChunks
<1>3. CASE WriteConfig(a)
  <2>1. act[a].pc = "write" /\ act[a].model # NoModel /\ UNCHANGED <<doc, chunks>>
    BY <1>3 DEF WriteConfig, Called
  <2>2. config' \in ConfigRecord
    <3>1. Applied(act[a], config) \in ConfigRecord
      BY <2>1, <1>t, AppliedType
    <3>2. [model |-> act[a].model, width |-> Unknown] \in ConfigRecord
      BY <1>t DEF ActorRecord, ConfigRecord
    <3> QED BY <1>3, <1>t, <3>1, <3>2 DEF WriteConfig
  <2>3. floor' \in Models \cup {NoModel}
    BY <1>3, <1>t DEF WriteConfig, Cleared
  <2>4. chunks' \in [Docs -> ConfigRecord]
    BY <2>1, <1>t
  <2>5. CASE Finish(a)
    BY <2>1, <2>2, <2>3, <2>4, <2>5, <1>r, FinishTypes, CalledFinish
  <2>6. CASE Saved(a, "discover")
    BY <2>1, <2>2, <2>3, <2>6, <1>r, SavedTypes, CalledSaved
  <2> QED BY <1>3, <2>5, <2>6 DEF WriteConfig
<1>4. CASE Discover(a)
  <2>1. CASE Finish(a)
    BY <1>4, <2>1, <1>f DEF Discover
  <2>2. ASSUME NEW w \in WidthsOf[act[a].model], Answered(a, w, "record") PROVE TypeInv'
    <3>1. w \in Widths
      BY <1>4, <1>t, WidthsType DEF Discover, Called, ActorRecord
    <3> QED BY <1>4, <2>2, <3>1, <1>r, AnswerTypes, CalledAnswer DEF Discover
  <2> QED BY <1>4, <2>1, <2>2 DEF Discover
<1>5. CASE RecordDimension(a)
  <2>1. config' \in ConfigRecord /\ UNCHANGED <<floor, doc, chunks>>
    BY <1>5, <1>t DEF RecordDimension, ConfigRecord, ActorRecord
  <2>2. CASE Finish(a)
    BY <2>1, <2>2, <1>t, <1>r, FinishTypes, CalledFinish
  <2>3. CASE Proceed(a, "store")
    BY <2>1, <2>3, <1>t, <1>r, ProceedTypes, CalledProceed
  <2> QED BY <1>5, <2>2, <2>3 DEF RecordDimension
<1>6. ASSUME NEW m \in Models, BeginTest(a, m) PROVE TypeInv'
  BY <1>6, <1>0, <1>m, CalledStart DEF BeginTest
<1>7. CASE Probe(a)
  <2>1. CASE Finish(a)
    BY <1>7, <2>1, <1>f DEF Probe
  <2>2. ASSUME NEW w \in WidthsOf[act[a].model], Answered(a, w, "record") PROVE TypeInv'
    <3>1. w \in Widths
      BY <1>7, <1>t, WidthsType DEF Probe, Called, ActorRecord
    <3> QED BY <1>7, <2>2, <3>1, <1>r, AnswerTypes, CalledAnswer DEF Probe
  <2> QED BY <1>7, <2>1, <2>2 DEF Probe
<1>8. ASSUME NEW d \in Docs, BeginIngest(a, d) PROVE TypeInv'
  <2>1. config.model # NoModel /\ config.model \in Models \cup {NoModel}
        /\ Start(a, "embed", config.model, d, TRUE)
    BY <1>8, <1>t DEF BeginIngest, ConfigRecord
  <2> QED BY <2>1, CalledStart
<1>9. CASE Embed(a)
  <2>1. CASE Finish(a)
    BY <1>9, <2>1, <1>f DEF Embed
  <2>2. ASSUME NEW w \in WidthsOf[act[a].model], NEW pc \in {"record", "store"},
               Answered(a, w, pc)
        PROVE  TypeInv'
    <3>1. w \in Widths
      BY <1>9, <1>t, WidthsType DEF Embed, Called, ActorRecord
    <3> QED BY <1>9, <2>2, <3>1, <1>r, AnswerTypes, CalledAnswer DEF Embed
  <2>3. ASSUME ~Finish(a)
        PROVE  \E w \in WidthsOf[act[a].model] :
                  Answered(a, w, "record") \/ Answered(a, w, "store")
    BY <1>9, <2>3 DEF Embed
  <2> QED BY <2>1, <2>2, <2>3
<1>10. CASE StoreChunks(a)
  <2>1. [model |-> act[a].model, width |-> act[a].got] \in ConfigRecord
    BY <1>t DEF ActorRecord, ConfigRecord
  <2>2. chunks' \in [Docs -> ConfigRecord] /\ Finish(a) /\ UNCHANGED <<config, floor, doc>>
    BY <1>10, <2>1, <1>t DEF StoreChunks
  <2> QED BY <2>2, <1>t, <1>r, FinishTypes, CalledFinish
<1>11. CASE BeginTurn(a)
  <2>1. config.model \in Models \cup {NoModel} /\ Start(a, "search", config.model, AnyDoc, FALSE)
    BY <1>11, <1>t DEF BeginTurn, ConfigRecord
  <2> QED BY <2>1, <1>0, CalledStart
<1>12. CASE Search(a)
  <2>1. CASE Finish(a)
    BY <1>12, <2>1, <1>f DEF Search
  <2>2. CASE Proceed(a, "measure")
    BY <1>12, <2>2, <1>t, <1>r, ProceedTypes, CalledProceed DEF Search
  <2> QED BY <1>12, <2>1, <2>2 DEF Search
<1>13. CASE BeginCalibrate(a)
  <2>1. config.model \in Models \cup {NoModel} /\ Start(a, "measure", config.model, AnyDoc, FALSE)
    BY <1>13, <1>t DEF BeginCalibrate, ConfigRecord
  <2> QED BY <2>1, <1>0, CalledStart
<1>14. CASE Calibrate(a)
  <2>1. floor' \in Models \cup {NoModel} /\ Finish(a) /\ UNCHANGED <<config, doc, chunks>>
    BY <1>14, <1>t DEF Calibrate, ActorRecord
  <2> QED BY <2>1, <1>t, <1>r, FinishTypes, CalledFinish
<1> QED
  BY <1>1, <1>2, <1>3, <1>4, <1>5, <1>6, <1>7, <1>8, <1>9, <1>10, <1>11, <1>12, <1>13,
     <1>14 DEF ActorStep

LEMMA TypeInvInit == Init => TypeInv
BY ConstantsAssumption
   DEF Init, TypeInv, TypeOK, Called, Nothing, ConfigRecord, Idle, ActorRecord, AnyDoc

LEMMA TypeInvNext == TypeInv /\ [Next]_vars => TypeInv'
<1> SUFFICES ASSUME TypeInv, [Next]_vars PROVE TypeInv'
  OBVIOUS
<1>1. ASSUME NEW a \in Actors, ActorStep(a) PROVE TypeInv'
  BY <1>1, TypeInvActor
<1>2. ASSUME NEW d \in Docs, Upload(d) PROVE TypeInv'
  BY <1>2 DEF Upload, Recorded, TypeInv, TypeOK, Called
<1>3. ASSUME NEW d \in Docs, DeleteDocument(d) PROVE TypeInv'
  <2>1. Nothing \in ConfigRecord
    BY DEF Nothing, ConfigRecord
  <2> QED BY <1>3, <2>1 DEF DeleteDocument, Recorded, TypeInv, TypeOK, Called
<1>4. CASE UNCHANGED vars
  BY <1>4 DEF vars, TypeInv, TypeOK, Called
<1> QED BY <1>1, <1>2, <1>3, <1>4 DEF Next, DocumentStep

\* Every value stays in its range, and no call is made for a missing model.
THEOREM TypeCorrect == Spec => []TypeOK
<1>1. TypeInv => TypeOK
  BY DEF TypeInv
<1> QED BY TypeInvInit, TypeInvNext, <1>1, PTL DEF Spec
-----------------------------------------------------------------------------
\* A step that stores no vectors an unovertaken change of model has not seen
\* leaves its look at the chunks right.
LEMMA LookHolds ==
    ASSUME Recorded, NEW b \in Actors, act'[b].pc = "write", b \notin overtaken'
    PROVE  b \notin overtaken /\ (HasChunks' => HasChunks)
BY DEF Recorded, HasChunks

\* What a step does to the record of its own actor.
LEMMA OwnStep ==
    ASSUME TypeInv, LockInv, NEW a \in Actors, ActorStep(a)
    PROVE  /\ Coherent(act[a])'
           /\ \A b \in Actors : b # a => act'[b] = act[b]
           /\ act'[a].pc = "write" =>
                /\ ~Locked(act[a])
                /\ act'[a].model = act[a].model /\ act'[a].loaded = act[a].loaded
<1>0. AnyDoc \in Docs
  BY ConstantsAssumption DEF AnyDoc
<1>t. /\ act \in [Actors -> ActorRecord] /\ act[a] \in ActorRecord
      /\ config \in ConfigRecord /\ TypeOK
  BY DEF TypeInv, TypeOK
<1>m. \A m \in Models : m \in Models \cup {NoModel} /\ m # NoModel
  BY ConstantsAssumption
<1>c. Coherent(act[a])
  BY DEF LockInv
<1> DEFINE Done ==
      /\ Coherent(act[a])'
      /\ \A b \in Actors : b # a => act'[b] = act[b]
      /\ act'[a].pc # "write"
<1>f. ASSUME Finish(a) PROVE Done
  <2>1. act'[a] = Idle /\ \A b \in Actors : b # a => act'[b] = act[b]
    BY <1>f, <1>t, Finished
  <2> QED BY <2>1 DEF Idle, Coherent
<1>p. ASSUME NEW pc \in {"store", "measure"}, Proceed(a, pc),
             act[a].pc \in {"record", "search"}, pc = "store" => act[a].pc = "record"
      PROVE  Done
  <2>1. /\ act'[a] = [act[a] EXCEPT !.pc = pc]
        /\ \A b \in Actors : b # a => act'[b] = act[b]
    BY <1>p, <1>t, Proceeded
  <2>2. /\ act'[a].pc = pc /\ act'[a].model = act[a].model
        /\ act'[a].got = act[a].got /\ act'[a].loaded = act[a].loaded
    BY <1>t, <2>1 DEF ActorRecord
  <2> QED BY <1>p, <1>c, <2>1, <2>2 DEF Coherent
<1>w. ASSUME NEW w \in WidthsOf[act[a].model], NEW pc \in {"record", "store"},
             Answered(a, w, pc), act[a].model # NoModel,
             act[a].model = act[a].loaded.model
      PROVE  Done
  <2>0. w \in Widths
    BY <1>w, <1>t, WidthsType DEF ActorRecord
  <2>1. /\ act'[a].pc = pc /\ act'[a].got = w
        /\ act'[a].model = act[a].model /\ act'[a].loaded = act[a].loaded
    BY <1>t, <1>w, <2>0, HasAnswer
  <2>2. \A b \in Actors : b # a => act'[b] = act[b]
    BY <1>t, <1>w, <2>0, HasAnswer
  <2> QED BY <1>w, <2>1, <2>2 DEF Coherent
<1>s. ASSUME NEW pc \in {"check", "probe", "embed", "search", "measure"},
             NEW m \in Models \cup {NoModel}, NEW d \in Docs, NEW ingesting \in BOOLEAN,
             Start(a, pc, m, d, ingesting), pc \in {"check", "probe"} \/ m = config.model
      PROVE  Done
  <2>1. act'[a].pc = pc /\ act'[a].model = m /\ act'[a].loaded = config
    BY <1>s, <1>t, Started
  <2>2. \A b \in Actors : b # a => act'[b] = act[b]
    BY <1>s, <1>t, Started
  <2> QED BY <1>s, <2>1, <2>2 DEF Coherent
<1> HIDE DEF Done
<1>d. SUFFICES \/ Done
               \/ /\ Coherent(act[a])'
                  /\ \A b \in Actors : b # a => act'[b] = act[b]
                  /\ ~Locked(act[a])
                  /\ act'[a].model = act[a].model /\ act'[a].loaded = act[a].loaded
  BY DEF Done
<1>1. ASSUME NEW m \in Models, BeginSave(a, m) PROVE Done
  BY <1>1, <1>0, <1>m, <1>s DEF BeginSave
<1>2. CASE CheckChunks(a)
  <2>1. CASE Finish(a)
    BY <2>1, <1>f
  <2>2. CASE ~Locked(act[a]) /\ Proceed(a, "write")
    <3>1. /\ act'[a] = [act[a] EXCEPT !.pc = "write"]
          /\ \A b \in Actors : b # a => act'[b] = act[b]
      BY <2>2, <1>t, Proceeded
    <3>2. /\ act'[a].pc = "write" /\ act'[a].model = act[a].model
          /\ act'[a].loaded = act[a].loaded
      BY <1>t, <3>1 DEF ActorRecord
    <3> QED BY <2>2, <3>1, <3>2 DEF Coherent
  <2> QED BY <1>2, <2>1, <2>2 DEF CheckChunks
<1>3. CASE WriteConfig(a)
  <2>1. act[a].model # NoModel
    BY <1>3 DEF WriteConfig, TypeInv, Called
  <2>2. CASE Saved(a, "discover")
    <3>1. /\ act'[a].pc = "discover" /\ act'[a].model = act[a].model
          /\ act'[a].loaded = AtHand(act[a])
      BY <2>1, <2>2, <1>t, HasSaved
    <3>2. \A b \in Actors : b # a => act'[b] = act[b]
      BY <2>1, <2>2, <1>t, HasSaved
    <3> QED BY <3>1, <3>2 DEF Coherent, AtHand, Done
  <2> QED BY <1>3, <2>2, <1>f DEF WriteConfig
<1>4. CASE Discover(a)
  <2>1. /\ act[a].model # NoModel /\ act[a].model = act[a].loaded.model
        /\ act[a].pc = "discover"
    BY <1>4, <1>c DEF Discover, Coherent, TypeInv, Called
  <2> QED BY <1>4, <2>1, <1>f, <1>w DEF Discover
<1>5. CASE RecordDimension(a)
  BY <1>5, <1>f, <1>p DEF RecordDimension
<1>6. ASSUME NEW m \in Models, BeginTest(a, m) PROVE Done
  BY <1>6, <1>0, <1>m, <1>s DEF BeginTest
<1>7. CASE Probe(a)
  <2>1. act[a].model # NoModel
    BY <1>7 DEF Probe, TypeInv, Called
  <2>2. ASSUME ~Finish(a)
        PROVE  /\ act[a].model = act[a].loaded.model
               /\ \E w \in WidthsOf[act[a].model] : Answered(a, w, "record")
    BY <1>7, <2>2 DEF Probe, ProvesStored
  <2> QED BY <2>1, <2>2, <1>f, <1>w
<1>8. ASSUME NEW d \in Docs, BeginIngest(a, d) PROVE Done
  <2>1. config.model \in Models \cup {NoModel} /\ Start(a, "embed", config.model, d, TRUE)
    BY <1>8, <1>t DEF BeginIngest, ConfigRecord
  <2> QED BY <2>1, <1>s
<1>9. CASE Embed(a)
  <2>1. /\ act[a].model # NoModel /\ act[a].model = act[a].loaded.model
    BY <1>9, <1>c DEF Embed, Coherent, TypeInv, Called
  <2>2. ASSUME ~Finish(a)
        PROVE  \E w \in WidthsOf[act[a].model] :
                  Answered(a, w, "record") \/ Answered(a, w, "store")
    BY <1>9, <2>2 DEF Embed
  <2> QED BY <2>1, <2>2, <1>f, <1>w
<1>10. CASE StoreChunks(a)
  BY <1>10, <1>f DEF StoreChunks
<1>11. CASE BeginTurn(a)
  <2>1. config.model \in Models \cup {NoModel} /\ Start(a, "search", config.model, AnyDoc, FALSE)
    BY <1>11, <1>t DEF BeginTurn, ConfigRecord
  <2> QED BY <2>1, <1>0, <1>s
<1>12. CASE Search(a)
  BY <1>12, <1>f, <1>p DEF Search
<1>13. CASE BeginCalibrate(a)
  <2>1. config.model \in Models \cup {NoModel} /\ Start(a, "measure", config.model, AnyDoc, FALSE)
    BY <1>13, <1>t DEF BeginCalibrate, ConfigRecord
  <2> QED BY <2>1, <1>0, <1>s
<1>14. CASE Calibrate(a)
  BY <1>14, <1>f DEF Calibrate
<1> QED
  BY <1>1, <1>2, <1>3, <1>4, <1>5, <1>6, <1>7, <1>8, <1>9, <1>10, <1>11, <1>12, <1>13,
     <1>14 DEF ActorStep

LEMMA LockInit == Init => LockInv
BY DEF Init, LockInv, Coherent, FindsNoVectors, Idle

LEMMA LockNext ==
    ASSUME TypeInv, LockInv, [Next]_vars
    PROVE  LockInv'
<1>1. ASSUME NEW a \in Actors, ActorStep(a) PROVE LockInv'
  <2>r. Recorded
    BY <1>1, Remembers
  <2>1. Coherent(act[a])' /\ \A b \in Actors : b # a => act'[b] = act[b]
    BY <1>1, OwnStep
  <2>2. ASSUME NEW b \in Actors, b # a PROVE Coherent(act[b])' /\ FindsNoVectors(b)'
    <3>1. act'[b] = act[b] /\ Coherent(act[b]) /\ FindsNoVectors(b)
      BY <2>1, <2>2 DEF LockInv
    <3>2. Coherent(act[b])'
      BY <3>1 DEF Coherent
    <3> QED BY <2>r, <3>1, <3>2, LookHolds DEF FindsNoVectors, Moves
  <2>3. FindsNoVectors(a)'
    <3> SUFFICES ASSUME act'[a].pc = "write", Moves(act[a])', a \notin overtaken'
                 PROVE  ~HasChunks'
      BY DEF FindsNoVectors
    <3>1. /\ ~Locked(act[a])
          /\ act'[a].model = act[a].model /\ act'[a].loaded = act[a].loaded
      BY <1>1, OwnStep
    <3>2. ~HasChunks
      BY <3>1 DEF Locked, Moves
    <3> QED BY <2>r, <3>2, LookHolds
  <2> QED BY <2>1, <2>2, <2>3 DEF LockInv
<1>2. ASSUME NEW d \in Docs, DocumentStep(d) PROVE LockInv'
  <2>1. Recorded /\ UNCHANGED act
    BY <1>2 DEF DocumentStep, Upload, DeleteDocument
  <2>2. \A a \in Actors : Coherent(act[a])'
    BY <2>1 DEF LockInv, Coherent
  <2>3. \A a \in Actors : FindsNoVectors(a)'
    BY <2>1, LookHolds DEF LockInv, FindsNoVectors, Moves
  <2> QED BY <2>2, <2>3 DEF LockInv
<1>3. CASE UNCHANGED vars
  BY <1>3 DEF vars, LockInv, Coherent, FindsNoVectors, Moves, HasChunks
<1> QED BY <1>1, <1>2, <1>3 DEF Next

LEMMA LockHolds == Spec => [](TypeInv /\ LockInv)
<1>1. TypeInv /\ LockInv /\ [Next]_vars => LockInv'
  BY LockNext
<1> QED BY TypeInvInit, TypeInvNext, LockInit, <1>1, PTL DEF Spec
-----------------------------------------------------------------------------
\* Which steps write what.
LEMMA OnlyWriters ==
    ASSUME NEW a \in Actors, ActorStep(a)
    PROVE  /\ StoreChunks(a) \/ UNCHANGED chunks
           /\ WriteConfig(a) \/ RecordDimension(a) \/ UNCHANGED config
           /\ WriteConfig(a) \/ Calibrate(a) \/ UNCHANGED floor
BY DEF ActorStep, BeginSave, CheckChunks, WriteConfig, Discover, RecordDimension, BeginTest,
       Probe, BeginIngest, Embed, StoreChunks, BeginTurn, Search, BeginCalibrate, Calibrate,
       Start

LEMMA DocumentsKeep ==
    ASSUME TypeInv, NEW d \in Docs, DocumentStep(d)
    PROVE  UNCHANGED <<config, floor>> /\ \A e \in Docs : chunks'[e] \in {Nothing, chunks[e]}
<1>1. chunks \in [Docs -> ConfigRecord]
  BY DEF TypeInv, TypeOK
<1> QED BY <1>1 DEF DocumentStep, Upload, DeleteDocument

\* A step that ends at its write leaves it.
LEMMA LeavesIt ==
    ASSUME TypeInv, NEW a \in Actors,
           \/ WriteConfig(a) /\ act[a].model # NoModel
           \/ RecordDimension(a) \/ StoreChunks(a) \/ Calibrate(a)
    PROVE  Leaves(a, act[a].pc)
<1>t. act \in [Actors -> ActorRecord]
  BY DEF TypeInv, TypeOK
<1>1. Finish(a) => act'[a].pc = "idle"
  BY <1>t, Finished DEF Idle
<1>2. CASE WriteConfig(a) /\ act[a].model # NoModel
  <2>1. Saved(a, "discover") => act'[a].pc = "discover"
    BY <1>2, <1>t, HasSaved
  <2> QED BY <1>2, <1>1, <2>1 DEF WriteConfig, Leaves
<1>3. CASE RecordDimension(a)
  <2>1. Proceed(a, "store") => act'[a].pc = "store"
    BY <1>t DEF Proceed, ActorRecord
  <2> QED BY <1>3, <1>1, <2>1 DEF RecordDimension, Leaves
<1> QED BY <1>1, <1>2, <1>3 DEF StoreChunks, Calibrate, Leaves

\* The three ways a save ends.
LEMMA SaveWrites ==
    ASSUME TypeInv, NEW a \in Actors, WriteConfig(a)
    PROVE  /\ act[a].pc = "write" /\ act[a].model # NoModel /\ UNCHANGED chunks
           /\ \/ UNCHANGED <<config, floor>>
              \/ /\ config.model = NoModel /\ floor' = floor
                 /\ config' = [model |-> act[a].model, width |-> Unknown]
              \/ /\ Moves(act[a]) /\ config'.model = act[a].model
                 /\ config'.width = IF act[a].loaded.width # Unknown THEN Unknown
                                    ELSE config.width
                 /\ floor' = IF act[a].loadedFloor # NoModel THEN NoModel ELSE floor
<1>t. config \in ConfigRecord
  BY DEF TypeInv, TypeOK
<1>1. act[a].pc = "write" /\ act[a].model # NoModel /\ UNCHANGED chunks
  BY DEF WriteConfig, TypeInv, Called
<1>2. ASSUME config' = Applied(act[a], config), floor' = Cleared(act[a]), ~Moves(act[a])
      PROVE  UNCHANGED <<config, floor>>
  BY <1>2, <1>t DEF Applied, Cleared, ConfigRecord
<1>3. ASSUME config' = Applied(act[a], config), floor' = Cleared(act[a]), Moves(act[a])
      PROVE  /\ config'.model = act[a].model
             /\ config'.width = IF act[a].loaded.width # Unknown THEN Unknown
                                ELSE config.width
             /\ floor' = IF act[a].loadedFloor # NoModel THEN NoModel ELSE floor
  BY <1>3 DEF Applied, Cleared
<1> QED BY <1>1, <1>2, <1>3 DEF WriteConfig

LEMMA RecordWrites ==
    ASSUME TypeInv, NEW a \in Actors, RecordDimension(a)
    PROVE  /\ act[a].pc = "record" /\ config'.model = config.model
           /\ \/ config' = config
              \/ config.model # NoModel /\ config'.width = act[a].got
<1>t. config \in [model : Models \cup {NoModel}, width : Widths \cup {Unknown}]
  BY DEF TypeInv, TypeOK, ConfigRecord
<1>1. /\ act[a].pc = "record"
      /\ config' = IF config.model = NoModel THEN config
                   ELSE [config EXCEPT !.width = act[a].got]
  BY DEF RecordDimension
<1> QED BY <1>t, <1>1
-----------------------------------------------------------------------------
LEMMA ModelsStep ==
    ASSUME TypeInv, LockInv, [Next]_vars, OneModel
    PROVE  \/ OneModel'
           \/ \E a \in Actors : Leaves(a, "store") /\ Stale(act[a])
           \/ \E a \in overtaken : Leaves(a, "write")
<1> DEFINE Goal == \/ OneModel'
                   \/ \E a \in Actors : Leaves(a, "store") /\ Stale(act[a])
                   \/ \E a \in overtaken : Leaves(a, "write")
<1>0. ASSUME config'.model = config.model, \A d \in Docs : chunks'[d] \in {Nothing, chunks[d]}
      PROVE  OneModel'
  BY <1>0 DEF OneModel
<1>1. ASSUME NEW a \in Actors, ActorStep(a) PROVE Goal
  <2>1. CASE WriteConfig(a)
    <3>1. act[a].pc = "write" /\ Leaves(a, "write") /\ UNCHANGED chunks
      BY <2>1, SaveWrites, LeavesIt
    <3>2. CASE UNCHANGED config
      BY <3>1, <3>2, <1>0
    <3>3. CASE config.model = NoModel
      BY <3>1, <3>3 DEF OneModel
    <3>4. CASE Moves(act[a])
      <4>1. FindsNoVectors(a)
        BY DEF LockInv
      <4>2. a \in overtaken \/ ~HasChunks
        BY <3>1, <3>4, <4>1 DEF FindsNoVectors
      <4> QED BY <3>1, <4>2 DEF HasChunks, OneModel
    <3> QED BY <2>1, <3>2, <3>3, <3>4, SaveWrites
  <2>2. CASE StoreChunks(a) /\ ~Stale(act[a])
    <3>1. /\ act[a] \in ActorRecord /\ chunks \in [Docs -> ConfigRecord]
          /\ act[a].pc = "store" /\ config' = config
      BY <2>2 DEF StoreChunks, TypeInv, TypeOK
    <3>2. act[a].model = config.model
      BY <2>2, <3>1 DEF LockInv, Coherent, Stale
    <3>3. config.model # NoModel
      BY <3>1, <3>2 DEF LockInv, Coherent
    <3>4. OneModel'
      <4> SUFFICES ASSUME NEW d \in Docs, chunks'[d] # Nothing
                   PROVE  chunks'[d].model = config.model /\ config.model # NoModel
        BY <3>1 DEF OneModel
      <4>1. CASE chunks'[d] = chunks[d]
        BY <4>1 DEF OneModel
      <4>2. CASE chunks'[d] = [model |-> act[a].model, width |-> act[a].got]
        BY <3>2, <3>3, <4>2
      <4> QED BY <2>2, <3>1, <4>1, <4>2 DEF StoreChunks
    <3> QED BY <3>4
  <2>3. CASE StoreChunks(a) /\ Stale(act[a])
    BY <2>3, LeavesIt DEF StoreChunks
  <2>4. CASE UNCHANGED chunks /\ ~WriteConfig(a)
    <3>1. config'.model = config.model
      BY <1>1, <2>4, OnlyWriters, RecordWrites
    <3> QED BY <2>4, <3>1, <1>0
  <2> QED BY <1>1, <2>1, <2>2, <2>3, <2>4, OnlyWriters
<1>2. ASSUME NEW d \in Docs, DocumentStep(d) PROVE Goal
  BY <1>2, <1>0, DocumentsKeep
<1>3. CASE UNCHANGED vars
  BY <1>3 DEF vars, OneModel
<1> QED BY <1>1, <1>2, <1>3 DEF Next

\* ai_config.py:70, rag.py:107: vectors of another model than the configured one come
\* to be stored only by a job that is behind a change of model, and by a change of model
\* that is overtaken between its lock and its commit.
THEOREM ModelsMixInARaceHolds == Spec => ModelsMixInARace
<1>1. TypeInv /\ LockInv /\ [Next]_vars
        => [OneModel => \/ OneModel'
                        \/ \E a \in Actors : Leaves(a, "store") /\ Stale(act[a])
                        \/ \E a \in overtaken : Leaves(a, "write")]_vars
  BY ModelsStep
<1> QED BY LockHolds, <1>1, PTL DEF Spec, ModelsMixInARace
-----------------------------------------------------------------------------
LEMMA WidthStep ==
    ASSUME TypeInv, LockInv, [Next]_vars, WidthProven
    PROVE  \/ WidthProven'
           \/ \E a \in Actors : Leaves(a, "record") /\ Stale(act[a])
           \/ \E a \in Actors : Leaves(a, "write") /\ act[a].loaded.width # config.width
<1> DEFINE Goal ==
       \/ WidthProven'
       \/ \E a \in Actors : Leaves(a, "record") /\ Stale(act[a])
       \/ \E a \in Actors : Leaves(a, "write") /\ act[a].loaded.width # config.width
<1>1. ASSUME NEW a \in Actors, ActorStep(a) PROVE Goal
  <2>1. CASE WriteConfig(a)
    <3>1. act[a].pc = "write" /\ Leaves(a, "write")
      BY <2>1, SaveWrites, LeavesIt
    <3>2. CASE UNCHANGED config
      BY <3>2 DEF WidthProven
    <3>3. CASE config'.width = Unknown
      BY <3>3 DEF WidthProven
    <3>4. CASE config'.width = IF act[a].loaded.width # Unknown THEN Unknown
                               ELSE config.width
      BY <3>1, <3>3, <3>4
    <3> QED BY <2>1, <3>2, <3>3, <3>4, SaveWrites
  <2>2. CASE RecordDimension(a)
    <3>1. /\ act[a].pc = "record" /\ config'.model = config.model
          /\ \/ config' = config
             \/ config.model # NoModel /\ config'.width = act[a].got
      BY <2>2, RecordWrites
    <3>2. act[a].model = act[a].loaded.model /\ act[a].got \in WidthsOf[act[a].model]
      BY <3>1 DEF LockInv, Coherent
    <3>3. CASE Stale(act[a])
      BY <2>2, <3>1, <3>3, LeavesIt
    <3>4. CASE ~Stale(act[a])
      BY <3>1, <3>2, <3>4 DEF Stale, WidthProven
    <3> QED BY <3>3, <3>4
  <2>3. CASE UNCHANGED config
    BY <2>3 DEF WidthProven
  <2> QED BY <1>1, <2>1, <2>2, <2>3, OnlyWriters
<1>2. ASSUME NEW d \in Docs, DocumentStep(d) PROVE Goal
  BY <1>2, DocumentsKeep DEF WidthProven
<1>3. CASE UNCHANGED vars
  BY <1>3 DEF vars, WidthProven
<1> QED BY <1>1, <1>2, <1>3 DEF Next

\* factory.py:288-304, ai_config.py:153-165: the recorded width ceases to be one the
\* configured model has returned only by a recording that is behind a change of model,
\* and by a change of model that is behind a recording.
THEOREM WidthUnprovenInARaceHolds == Spec => WidthUnprovenInARace
<1>1. TypeInv /\ LockInv /\ [Next]_vars
        => [WidthProven =>
              \/ WidthProven'
              \/ \E a \in Actors : Leaves(a, "record") /\ Stale(act[a])
              \/ \E a \in Actors :
                    Leaves(a, "write") /\ act[a].loaded.width # config.width]_vars
  BY WidthStep
<1> QED BY LockHolds, <1>1, PTL DEF Spec, WidthUnprovenInARace
-----------------------------------------------------------------------------
LEMMA FloorStep ==
    ASSUME TypeInv, LockInv, [Next]_vars, FloorDescribesModel
    PROVE  \/ FloorDescribesModel'
           \/ \E a \in Actors : Leaves(a, "measure") /\ Stale(act[a])
           \/ \E a \in Actors : Leaves(a, "write") /\ act[a].loadedFloor # floor
<1> DEFINE Goal ==
       \/ FloorDescribesModel'
       \/ \E a \in Actors : Leaves(a, "measure") /\ Stale(act[a])
       \/ \E a \in Actors : Leaves(a, "write") /\ act[a].loadedFloor # floor
<1>0. ASSUME config'.model = config.model, floor' = floor PROVE FloorDescribesModel'
  BY <1>0 DEF FloorDescribesModel
<1>1. ASSUME NEW a \in Actors, ActorStep(a) PROVE Goal
  <2>1. CASE WriteConfig(a)
    <3>1. act[a].pc = "write" /\ Leaves(a, "write")
      BY <2>1, SaveWrites, LeavesIt
    <3>2. CASE UNCHANGED <<config, floor>>
      BY <3>2, <1>0
    <3>3. CASE config.model = NoModel /\ floor' = floor
      BY <3>3 DEF FloorDescribesModel
    <3>4. CASE floor' = IF act[a].loadedFloor # NoModel THEN NoModel ELSE floor
      BY <3>1, <3>4 DEF FloorDescribesModel
    <3> QED BY <2>1, <3>2, <3>3, <3>4, SaveWrites
  <2>2. CASE Calibrate(a)
    <3>1. act[a].pc = "measure" /\ floor' \in {act[a].model, floor} /\ config' = config
      BY <2>2 DEF Calibrate
    <3>2. act[a].model = act[a].loaded.model
      BY <3>1 DEF LockInv, Coherent
    <3>3. CASE Stale(act[a])
      BY <2>2, <3>1, <3>3, LeavesIt
    <3>4. CASE ~Stale(act[a])
      BY <3>1, <3>2, <3>4 DEF Stale, FloorDescribesModel
    <3> QED BY <3>3, <3>4
  <2>3. CASE UNCHANGED floor /\ ~WriteConfig(a)
    <3>1. config'.model = config.model
      BY <1>1, <2>3, OnlyWriters, RecordWrites
    <3> QED BY <2>3, <3>1, <1>0
  <2> QED BY <1>1, <2>1, <2>2, <2>3, OnlyWriters
<1>2. ASSUME NEW d \in Docs, DocumentStep(d) PROVE Goal
  BY <1>2, <1>0, DocumentsKeep
<1>3. CASE UNCHANGED vars
  BY <1>3, <1>0 DEF vars
<1> QED BY <1>1, <1>2, <1>3 DEF Next

\* calibration.py:190-264: a floor describes a model the chatbot has left only when it
\* was measured behind a change of model, or the change of model was behind it.
THEOREM FloorMisleadsInARaceHolds == Spec => FloorMisleadsInARace
<1>1. TypeInv /\ LockInv /\ [Next]_vars
        => [FloorDescribesModel =>
              \/ FloorDescribesModel'
              \/ \E a \in Actors : Leaves(a, "measure") /\ Stale(act[a])
              \/ \E a \in Actors : Leaves(a, "write") /\ act[a].loadedFloor # floor]_vars
  BY FloorStep
<1> QED BY LockHolds, <1>1, PTL DEF Spec, FloorMisleadsInARace

-----------------------------------------------------------------------------
(***************************************************************************)
(* The entries that are kept: their places, in order.                      *)
(***************************************************************************)

\* The members of a finite set of numbers are counted off by how many are not
\* above them.
LEMMA CountedOff ==
  ASSUME NEW n \in Nat, NEW I \in SUBSET (1 .. n)
  PROVE  /\ Cardinality(I) \in 0 .. n
         /\ \A m \in 1 .. Cardinality(I) : \E i \in I : Cardinality({j \in I : j <= i}) = m
         /\ \A i \in I : Cardinality({j \in I : j <= i}) \in 1 .. Cardinality(I)
         /\ \A i, k \in I : i < k =>
              Cardinality({j \in I : j <= i}) < Cardinality({j \in I : j <= k})
  <1> DEFINE AtMost(i) == {j \in I : j <= i}
             c == Cardinality(I)
             r == [i \in I |-> Cardinality(AtMost(i))]
  <1>1. IsFiniteSet(1 .. n) /\ Cardinality(1 .. n) = n
    BY FS_Interval
  <1>2. IsFiniteSet(I) /\ c <= n
    BY <1>1, FS_Subset
  <1>3. c \in Nat
    BY <1>2, FS_CardinalityType
  <1>4. ASSUME NEW i \in I
        PROVE  IsFiniteSet(AtMost(i)) /\ Cardinality(AtMost(i)) \in 1 .. c
    <2>1. AtMost(i) \in SUBSET I /\ AtMost(i) # {}
      OBVIOUS
    <2> HIDE DEF AtMost
    <2>2. IsFiniteSet(AtMost(i)) /\ Cardinality(AtMost(i)) <= c
      BY <1>2, <2>1, FS_Subset
    <2>3. Cardinality(AtMost(i)) \in Nat /\ Cardinality(AtMost(i)) # 0
      BY <2>1, <2>2, FS_CardinalityType, FS_EmptySet
    <2> HIDE DEF c
    <2> QED BY <1>3, <2>2, <2>3
  <1>5. ASSUME NEW i \in I, NEW k \in I, i < k
        PROVE  Cardinality(AtMost(i)) < Cardinality(AtMost(k))
    <2>0. I \subseteq Int /\ k \in AtMost(k) /\ k \notin AtMost(i)
      BY <1>5
    <2>1. AtMost(i) \in SUBSET AtMost(k) /\ AtMost(i) # AtMost(k)
      <3>1. \A j \in I : j <= i => j <= k
        BY <1>5, <2>0
      <3> QED BY <2>0, <3>1
    <2>2. IsFiniteSet(AtMost(k)) /\ Cardinality(AtMost(i)) \in Nat /\ Cardinality(AtMost(k)) \in Nat
      BY <1>4
    <2> HIDE DEF AtMost
    <2>3. /\ Cardinality(AtMost(i)) <= Cardinality(AtMost(k))
          /\ Cardinality(AtMost(i)) # Cardinality(AtMost(k))
      BY <2>1, <2>2, FS_Subset
    <2> QED BY <2>2, <2>3
  <1>6. r \in [I -> 1 .. c]
    BY <1>4
  <1>7. \A i, k \in I : i # k => r[i] # r[k]
    <2> TAKE i, k \in I
    <2>1. r[i] = Cardinality(AtMost(i)) /\ r[k] = Cardinality(AtMost(k))
      OBVIOUS
    <2>2. r[i] \in Nat /\ r[k] \in Nat /\ i \in Int /\ k \in Int
      BY <1>4, <2>1
    <2> HIDE DEF r, AtMost
    <2> QED BY <1>5, <2>1, <2>2
  <1>8. r \in Injection(I, 1 .. c)
    BY <1>6, <1>7 DEF Injection, IsInjective
  <1>9. IsFiniteSet(1 .. c) /\ Cardinality(1 .. c) = c
    BY <1>3, FS_Interval
  <1>10. r \in Surjection(I, 1 .. c)
    <2> HIDE DEF r
    <2> QED BY <1>8, <1>9, FS_Injection
  <1>11. \A m \in 1 .. c : \E i \in I : r[i] = m
    BY <1>10 DEF Surjection
  <1>12. c \in 0 .. n
    BY <1>2, <1>3
  <1> QED BY <1>4, <1>5, <1>11, <1>12

LEMMA KeptPlaces ==
  ASSUME NEW T, NEW s \in Seq(T), NEW E
  PROVE  /\ Kept(s, E) \in Seq(T) /\ Len(Kept(s, E)) <= Len(s)
         /\ \E p \in [DOMAIN Kept(s, E) -> DOMAIN s] :
              /\ \A i \in DOMAIN Kept(s, E) : Kept(s, E)[i] = s[p[i]] /\ s[p[i]] \in E
              /\ \A i, j \in DOMAIN Kept(s, E) : i < j => p[i] < p[j]
              /\ \A m \in DOMAIN s : s[m] \in E => \E i \in DOMAIN Kept(s, E) : p[i] = m
  <1> DEFINE I == {i \in DOMAIN s : s[i] \in E}
             Rank(i) == Cardinality({j \in I : j <= i})
             Nth(m) == CHOOSE i \in I : Rank(i) = m
             c == Cardinality(I)
             p == [m \in 1 .. c |-> Nth(m)]
             K == Kept(s, E)
  <1>1. DOMAIN s = 1 .. Len(s) /\ Len(s) \in Nat /\ I \in SUBSET (1 .. Len(s))
    OBVIOUS
  <1> HIDE DEF I
  <1>2. /\ c \in 0 .. Len(s)
        /\ \A m \in 1 .. c : \E i \in I : Rank(i) = m
        /\ \A i \in I : Rank(i) \in 1 .. c
        /\ \A i, k \in I : i < k => Rank(i) < Rank(k)
    BY <1>1, CountedOff
  <1> HIDE DEF Rank, c
  <1>3. Kept(s, E) = [m \in 1 .. c |-> s[Nth(m)]]
    BY DEF Kept, I, Rank, c
  <1>4. \A m \in 1 .. c : Nth(m) \in I /\ Rank(Nth(m)) = m
    BY <1>2
  <1> HIDE DEF Nth
  <1>5. \A i \in I : i \in DOMAIN s /\ s[i] \in E /\ s[i] \in T
    BY DEF I
  <1>6. Kept(s, E) \in Seq(T) /\ Len(Kept(s, E)) = c /\ DOMAIN Kept(s, E) = 1 .. c
    BY <1>2, <1>3, <1>4, <1>5
  <1>7. p \in [1 .. c -> DOMAIN s]
    BY <1>4, <1>5
  <1>8. \A i \in 1 .. c : Kept(s, E)[i] = s[p[i]] /\ s[p[i]] \in E
    BY <1>3, <1>4, <1>5
  <1>9. ASSUME NEW i \in 1 .. c, NEW j \in 1 .. c, i < j PROVE p[i] < p[j]
    <2>1. p[i] \in I /\ p[j] \in I /\ Rank(p[i]) = i /\ Rank(p[j]) = j
      BY <1>4
    <2> HIDE DEF p
    <2>a. I \subseteq Int /\ c \in Int
      BY <1>1, <1>2
    <2>b. p[i] \in Int /\ p[j] \in Int
      <3>1. \A x \in I : x \in Int
        BY <2>a
      <3> QED BY <2>1, <3>1, Zenon
    <2>c. i \in Int /\ j \in Int
      BY <2>a
    <2>2. p[i] \in Int /\ p[j] \in Int /\ i \in Int /\ j \in Int
      BY <2>b, <2>c
    <2>3. ~(p[j] < p[i]) /\ p[i] # p[j]
      BY <1>2, <1>9, <2>1, <2>2
    <2> QED BY <2>2, <2>3
  <1>10. ASSUME NEW m \in DOMAIN s, s[m] \in E PROVE \E i \in 1 .. c : p[i] = m
    <2>1. m \in I
      BY <1>10 DEF I
    <2>2. Rank(m) \in 1 .. c
      BY <1>2, <2>1
    <2>3. Nth(Rank(m)) \in I /\ Rank(Nth(Rank(m))) = Rank(m)
      BY <1>4, <2>2
    <2>4. Nth(Rank(m)) \in Int /\ m \in Int
      BY <1>1, <2>1, <2>3
    <2>5. Nth(Rank(m)) = m
      <3>1. Rank(m) \in Int
        BY <2>2
      <3> DEFINE k == Nth(Rank(m))
      <3> HIDE DEF k
      <3>2. k \in I /\ Rank(k) = Rank(m) /\ k \in Int
        BY <2>3, <2>4 DEF k
      <3>3. ~(k < m) /\ ~(m < k)
        BY <1>2, <2>1, <3>1, <3>2
      <3> QED BY <2>4, <3>2, <3>3 DEF k
    <2> QED BY <2>2, <2>5
  <1>11. \A i, j \in 1 .. c : i < j => p[i] < p[j]
    BY <1>9
  <1>12. \A m \in DOMAIN s : s[m] \in E => \E i \in 1 .. c : p[i] = m
    BY <1>10
  <1>13. \E q \in [1 .. c -> DOMAIN s] :
            /\ \A i \in 1 .. c : K[i] = s[q[i]] /\ s[q[i]] \in E
            /\ \A i, j \in 1 .. c : i < j => q[i] < q[j]
            /\ \A m \in DOMAIN s : s[m] \in E => \E i \in 1 .. c : q[i] = m
    <2> HIDE DEF p
    <2> QED BY <1>7, <1>8, <1>11, <1>12, Zenon
  <1>14. Len(Kept(s, E)) <= Len(s)
    BY <1>1, <1>2, <1>6
  <1>15. K \in Seq(T) /\ DOMAIN K = 1 .. c
    BY <1>6
  <1> HIDE DEF K, c
  <1>16. PICK q \in [1 .. c -> DOMAIN s] :
            /\ \A i \in 1 .. c : K[i] = s[q[i]] /\ s[q[i]] \in E
            /\ \A i, j \in 1 .. c : i < j => q[i] < q[j]
            /\ \A m \in DOMAIN s : s[m] \in E => \E i \in 1 .. c : q[i] = m
    BY <1>13
  <1> DEFINE D == DOMAIN K
  <1>17. D = 1 .. c
    BY <1>15
  <1> HIDE DEF D
  <1>18. /\ q \in [D -> DOMAIN s]
         /\ \A i \in D : K[i] = s[q[i]] /\ s[q[i]] \in E
         /\ \A i, j \in D : i < j => q[i] < q[j]
         /\ \A m \in DOMAIN s : s[m] \in E => \E i \in D : q[i] = m
    BY <1>16, <1>17
  <1>19. \E r \in [D -> DOMAIN s] :
            /\ \A i \in D : K[i] = s[r[i]] /\ s[r[i]] \in E
            /\ \A i, j \in D : i < j => r[i] < r[j]
            /\ \A m \in DOMAIN s : s[m] \in E => \E i \in D : r[i] = m
    BY <1>18, Zenon
  <1>20. K \in Seq(T) /\ Len(K) <= Len(s)
    BY <1>14, <1>15 DEF K
  <1> QED BY <1>19, <1>20, Zenon DEF D, K

\* What is kept, and what is dropped.
LEMMA KeptIs ==
  ASSUME NEW T, NEW s \in Seq(T), NEW E
  PROVE  /\ Kept(s, E) \in Seq(T) /\ Len(Kept(s, E)) <= Len(s)
         /\ \A e : e \in Range(Kept(s, E)) <=> e \in Range(s) /\ e \in E
  <1>1. PICK p \in [DOMAIN Kept(s, E) -> DOMAIN s] :
              /\ \A i \in DOMAIN Kept(s, E) : Kept(s, E)[i] = s[p[i]] /\ s[p[i]] \in E
              /\ \A i, j \in DOMAIN Kept(s, E) : i < j => p[i] < p[j]
              /\ \A m \in DOMAIN s : s[m] \in E => \E i \in DOMAIN Kept(s, E) : p[i] = m
    BY KeptPlaces
  <1>2. Kept(s, E) \in Seq(T) /\ Len(Kept(s, E)) <= Len(s)
    BY KeptPlaces
  <1>3. ASSUME NEW e \in Range(Kept(s, E)) PROVE e \in Range(s) /\ e \in E
    <2>1. PICK i \in DOMAIN Kept(s, E) : e = Kept(s, E)[i]
      BY DEF Range
    <2>2. p[i] \in DOMAIN s /\ e = s[p[i]] /\ e \in E
      BY <1>1, <2>1
    <2> QED BY <2>2 DEF Range
  <1>4. ASSUME NEW e \in Range(s), e \in E PROVE e \in Range(Kept(s, E))
    <2>1. PICK m \in DOMAIN s : e = s[m]
      BY DEF Range
    <2>2. PICK i \in DOMAIN Kept(s, E) : p[i] = m
      BY <1>1, <1>4, <2>1
    <2>3. e = Kept(s, E)[i]
      BY <1>1, <2>1, <2>2
    <2> QED BY <2>3 DEF Range
  <1> QED BY <1>2, <1>3, <1>4

LEMMA DroppedIs ==
  ASSUME NEW T, NEW s \in Seq(T), NEW E
  PROVE  /\ Dropped(s, E) \in Seq(T)
         /\ \A e : e \in Range(Dropped(s, E)) <=> e \in Range(s) /\ e \notin E
  BY KeptIs DEF Dropped

LEMMA KeptInOrder ==
  ASSUME NEW s \in Seq(EntryRecord), NEW of, LaterIsSince(s, of), NEW E
  PROVE  LaterIsSince(Kept(s, E), of)
  <1>1. PICK p \in [DOMAIN Kept(s, E) -> DOMAIN s] :
              /\ \A i \in DOMAIN Kept(s, E) : Kept(s, E)[i] = s[p[i]] /\ s[p[i]] \in E
              /\ \A i, j \in DOMAIN Kept(s, E) : i < j => p[i] < p[j]
              /\ \A m \in DOMAIN s : s[m] \in E => \E i \in DOMAIN Kept(s, E) : p[i] = m
    BY KeptPlaces
  <1>2. ASSUME NEW i \in DOMAIN Kept(s, E), NEW j \in DOMAIN Kept(s, E), i < j
        PROVE  Kept(s, E)[i].key # Kept(s, E)[j].key
                 /\ Kept(s, E)[j].key \in of[Kept(s, E)[i].client].since
    <2>1. p[i] \in DOMAIN s /\ p[j] \in DOMAIN s /\ p[i] < p[j]
      BY <1>1, <1>2
    <2>2. s[p[i]].key # s[p[j]].key /\ s[p[j]].key \in of[s[p[i]].client].since
      BY <2>1 DEF LaterIsSince
    <2>3. Kept(s, E)[i] = s[p[i]] /\ Kept(s, E)[j] = s[p[j]]
      BY <1>1
    <2> QED BY <2>2, <2>3
  <1> QED BY <1>2 DEF LaterIsSince

\* Two entries of one key are one.
LEMMA OneOfAKey ==
  ASSUME NEW s \in Seq(EntryRecord), NEW of, LaterIsSince(s, of),
         NEW e \in Range(s), NEW f \in Range(s), e.key = f.key
  PROVE  e = f
  <1>1. PICK i \in DOMAIN s : e = s[i]
    BY DEF Range
  <1>2. PICK j \in DOMAIN s : f = s[j]
    BY DEF Range
  <1>3. i \in Int /\ j \in Int
    OBVIOUS
  <1>4. ~(i < j) /\ ~(j < i)
    BY <1>1, <1>2 DEF LaterIsSince
  <1> QED BY <1>1, <1>2, <1>3, <1>4

-----------------------------------------------------------------------------
(***************************************************************************)
(* A take.  Its parts: what is live, what it appends, what falls off.      *)
(***************************************************************************)
TakenFrom(live, k, n, c, of, rest, old) ==
  /\ rest \in Seq(EntryRecord)
  /\ Taken(live, k, n, c) = Append(rest, [old EXCEPT !.owners = @ \cup {c}])
  /\ LaterIsSince(rest, of)
  /\ \A e \in Range(rest) : e \in Range(live) /\ e.key # k
  /\ (\E e \in Range(live) : Holds(k, e)) => old \in Range(live) /\ old.key = k
  /\ ~(\E e \in Range(live) : Holds(k, e)) =>
        old = [key |-> k, client |-> n, owners |-> {}]

LEMMA TakenIs ==
  ASSUME NEW live \in Seq(EntryRecord), NEW k, NEW n, NEW c,
         NEW of, LaterIsSince(live, of)
  PROVE  \E rest, old : TakenFrom(live, k, n, c, of, rest, old)
  <1> DEFINE hit == {e \in Range(live) : Holds(k, e)}
             old == IF hit = {} THEN [key |-> k, client |-> n, owners |-> {}] ELSE CHOOSE e \in hit : TRUE
             rest == Dropped(live, hit)
  <1>1. Taken(live, k, n, c) = Append(rest, [old EXCEPT !.owners = @ \cup {c}])
    BY DEF Taken
  <1>2. rest \in Seq(EntryRecord) /\ \A e \in Range(rest) : e \in Range(live) /\ e \notin hit
    <2> HIDE DEF hit
    <2> QED BY DroppedIs
  <1>3. \A e \in Range(rest) : e \in Range(live) /\ e.key # k
    BY <1>2 DEF Holds
  <1>4. LaterIsSince(rest, of)
    BY KeptInOrder DEF Dropped
  <1>5. (\E e \in Range(live) : Holds(k, e)) => old \in Range(live) /\ old.key = k
    <2> SUFFICES ASSUME \E e \in Range(live) : Holds(k, e) PROVE old \in Range(live) /\ old.key = k
      OBVIOUS
    <2>1. hit # {}
      OBVIOUS
    <2>2. old \in hit
      <3> HIDE DEF hit
      <3> QED BY <2>1
    <2> QED BY <2>2 DEF Holds
  <1>6. ~(\E e \in Range(live) : Holds(k, e)) => old = [key |-> k, client |-> n, owners |-> {}]
    OBVIOUS
  <1> HIDE DEF rest, old
  <1>7. TakenFrom(live, k, n, c, of, rest, old)
    BY <1>1, <1>2, <1>3, <1>4, <1>5, <1>6 DEF TakenFrom
  <1> QED BY <1>7

\* A take by its parts: the entries it leaves in front, the one it appends, the
\* expired ones it throws out, how many fall off the front, and the clients with
\* the new one, if there is one.
Took(t, k, c, rest, last, gone, over, all) ==
  /\ k \in Configurations /\ c \in Chatbots
  /\ rest \in Seq(EntryRecord) /\ LaterIsSince(rest, clients)
  /\ \A e \in Range(rest) : e \in Range(entries) /\ e.key # k
  /\ last \in EntryRecord /\ last.key = k
  /\ gone \in Seq(EntryRecord)
  /\ \A e \in Range(gone) :
       /\ e \in Range(entries) /\ e.key = k
       /\ clients[e.client].expires <= second
       /\ e.client # last.client
  /\ over \in 0 .. Len(rest) + 1
  /\ over # 0 => Len(rest) + 1 - over = Capacity
  /\ entries' = SubSeq(Append(rest, last), over + 1, Len(rest) + 1)
  /\ all \in Seq(ClientRecord) /\ Len(all) <= MaxClients
  /\ \A n \in DOMAIN clients : n \in DOMAIN all /\ all[n] = clients[n]
  /\ \A n \in DOMAIN all \ DOMAIN clients : n = last.client /\ ~all[n].closed
  /\ last.client \in DOMAIN all
  /\ all[last.client].config = k
  /\ last.owners \subseteq all[last.client].takers \cup {c}
  /\ last.client \in DOMAIN clients => \E e \in Range(entries) : e.client = last.client
  /\ clients' = [n \in DOMAIN all |->
        IF n = last.client THEN [all[n] EXCEPT !.takers = @ \cup {c}, !.since = {}]
        ELSE [all[n] EXCEPT !.since = @ \cup {k}]]
  /\ turn' = [turn EXCEPT ![t].pc = "taken", ![t].client = last.client,
        ![t].victims = Clients(gone \o SubSeq(Append(rest, last), 1, over))]

LEMMA TakeParts ==
  ASSUME CacheTypeOK, CacheInv, NEW t \in Turns, Take(t)
  PROVE  \E k, c, rest, last, gone, over, all : Took(t, k, c, rest, last, gone, over, all)
  <1> DEFINE k == Key(t)
             c == turn[t].bot
             expired == {e \in Range(entries) : Holds(k, e) /\ clients[e.client].expires <= second}
             live == Dropped(entries, expired)
             built == ~\E e \in Range(live) : Holds(k, e)
             taken == Taken(live, k, Len(clients) + 1, c)
             over == IF Len(taken) > Capacity THEN Len(taken) - Capacity ELSE 0
             v == (CHOOSE e \in Range(taken) : Holds(k, e)).client
             new == [config |-> k, expires |-> second + Ttl, closed |-> FALSE,
                     takers |-> {}, disowned |-> FALSE, since |-> {}]
             all == IF built THEN Append(clients, new) ELSE clients
             gone == Kept(entries, expired)
  <1>1. /\ built => Len(clients) < MaxClients
        /\ entries' = SubSeq(taken, over + 1, Len(taken))
        /\ clients' = [n \in DOMAIN all |->
                IF n = v THEN [all[n] EXCEPT !.takers = @ \cup {c}, !.since = {}]
                ELSE [all[n] EXCEPT !.since = @ \cup {k}]]
        /\ turn' = [turn EXCEPT ![t].pc = "taken", ![t].client = v,
                         ![t].victims = Clients(gone \o SubSeq(taken, 1, over))]
    BY DEF Take
  <1>2. k \in Configurations /\ c \in Chatbots
    BY DEF Take, CacheTypeOK, Key
  <1>3. entries \in Seq(EntryRecord) /\ clients \in Seq(ClientRecord) /\ Len(clients) <= MaxClients
    BY DEF CacheTypeOK
  <1>4. LaterIsSince(entries, clients) /\ \A e \in Range(entries) : EntryOfClient(e, clients)
    BY DEF CacheInv
  <1> HIDE DEF k, c
  <1>5. new \in ClientRecord
    BY <1>2, CacheAssumption DEF CacheTypeOK, ClientRecord
  <1>6. live \in Seq(EntryRecord) /\ \A e \in Range(live) : e \in Range(entries) /\ e \notin expired
    <2> HIDE DEF expired
    <2> QED BY <1>3, DroppedIs
  <1>7. LaterIsSince(live, clients)
    <2> HIDE DEF expired
    <2> QED BY <1>3, <1>4, KeptInOrder DEF Dropped
  <1>8. gone \in Seq(EntryRecord) /\ \A e \in Range(gone) : e \in expired
    <2> HIDE DEF expired
    <2> QED BY <1>3, KeptIs
  <1> HIDE DEF live, gone
  <1> HIDE DEF taken
  <1>a. PICK rest, old : TakenFrom(live, k, Len(clients) + 1, c, clients, rest, old)
    BY <1>6, <1>7, TakenIs
  <1> USE DEF taken
  <1>9. /\ rest \in Seq(EntryRecord)
        /\ taken = Append(rest, [old EXCEPT !.owners = @ \cup {c}])
        /\ LaterIsSince(rest, clients)
        /\ \A e \in Range(rest) : e \in Range(live) /\ e.key # k
        /\ ~built => (old \in Range(live) /\ old.key = k)
        /\ built => old = [key |-> k, client |-> Len(clients) + 1, owners |-> {}]
    BY <1>a DEF TakenFrom
  <1>b. built => Len(clients) < MaxClients
    BY <1>1
  <1> DEFINE last == [old EXCEPT !.owners = @ \cup {c}]
  <1> HIDE DEF taken
  <1>10. taken = Append(rest, last)
    BY <1>9
  <1>11. built => old = [key |-> k, client |-> Len(clients) + 1, owners |-> {}]
    BY <1>9
  <1>12. ~built => old \in Range(live) /\ old.key = k
    BY <1>9
  <1> HIDE DEF built
  <1>13. old \in EntryRecord
    <2>1. CASE built
      BY <1>b, <1>2, <1>3, <1>11, <2>1, CacheAssumption DEF EntryRecord
    <2>2. CASE ~built
      BY <1>6, <1>12, <2>2 DEF Range
    <2> QED BY <2>1, <2>2
  <1>14. /\ last \in EntryRecord /\ last.key = old.key /\ last.client = old.client
         /\ last.owners = old.owners \cup {c}
    BY <1>2, <1>13 DEF EntryRecord
  <1>15. last.key = k
    BY <1>11, <1>12, <1>14
  <1> HIDE DEF last
  <1>16. v = last.client
    <2>1. Range(taken) = Range(rest) \cup {last}
      <3>1. DOMAIN taken = 1 .. Len(rest) + 1 /\ DOMAIN rest = 1 .. Len(rest) /\ Len(rest) \in Nat
        BY <1>9, <1>10, <1>14
      <3>2. \A i \in 1 .. Len(rest) : taken[i] = rest[i]
        BY <1>9, <1>10, <1>14
      <3>3. taken[Len(rest) + 1] = last
        BY <1>9, <1>10, <1>14
      <3> QED BY <3>1, <3>2, <3>3 DEF Range
    <2>2. \A e \in Range(taken) : Holds(k, e) <=> e = last
      BY <1>9, <1>15, <2>1 DEF Holds
    <2>3. last \in Range(taken)
      BY <2>1
    <2>4. (CHOOSE e \in Range(taken) : Holds(k, e)) = last
      BY <2>2, <2>3
    <2> QED BY <2>4
  <1> HIDE DEF v
  <1>17. Len(taken) = Len(rest) + 1 /\ Len(rest) \in Nat
    BY <1>9, <1>10, <1>14
  <1>18. over \in 0 .. Len(rest) + 1 /\ (over # 0 => Len(rest) + 1 - over = Capacity)
    BY <1>17, CacheAssumption
  <1>19. entries' = SubSeq(Append(rest, last), over + 1, Len(rest) + 1)
    BY <1>1, <1>10, <1>17
  <1>20. \A e \in Range(rest) : e \in Range(entries) /\ e.key # k
    BY <1>6, <1>9
  <1>21. /\ all \in Seq(ClientRecord) /\ Len(all) <= MaxClients
         /\ \A n \in DOMAIN clients : n \in DOMAIN all /\ all[n] = clients[n]
         /\ \A n \in DOMAIN all \ DOMAIN clients : built /\ n = Len(clients) + 1 /\ all[n] = new
         /\ built => Len(clients) + 1 \in DOMAIN all /\ all[Len(clients) + 1] = new
    <2> HIDE DEF new
    <2>1. CASE built
      <3>1. all = Append(clients, new)
        BY <2>1
      <3> HIDE DEF all
      <3>2. all \in Seq(ClientRecord) /\ Len(all) = Len(clients) + 1
        BY <1>3, <1>5, <3>1
      <3>3. \A i \in 1 .. Len(clients) : all[i] = clients[i]
        BY <1>3, <1>5, <3>1
      <3>4. all[Len(clients) + 1] = new
        BY <1>3, <1>5, <3>1
      <3>5. DOMAIN clients = 1 .. Len(clients) /\ DOMAIN all = 1 .. Len(clients) + 1 /\ Len(clients) \in Nat
        BY <1>3, <3>2
      <3>6. Len(all) <= MaxClients
        BY <1>b, <2>1, <3>2, <3>5, CacheAssumption
      <3> QED BY <2>1, <3>2, <3>3, <3>4, <3>5, <3>6
    <2>2. CASE ~built
      BY <1>3, <2>2
    <2> QED BY <2>1, <2>2
  <1>22. ~built => /\ old \in Range(entries) /\ EntryOfClient(old, clients)
    BY <1>4, <1>6, <1>12
  <1>23. /\ last.client \in DOMAIN all
         /\ all[last.client].config = k
         /\ last.owners \subseteq all[last.client].takers \cup {c}
         /\ last.client \in DOMAIN clients => \E e \in Range(entries) : e.client = last.client
         /\ \A n \in DOMAIN all \ DOMAIN clients : n = last.client /\ ~all[n].closed
    <2>0. Len(clients) + 1 \notin DOMAIN clients
      BY <1>3
    <2> HIDE DEF all
    <2>1. CASE built
      <3>1. last.client = Len(clients) + 1 /\ last.owners = {c}
        BY <1>11, <1>14, <2>1
      <3>2. new.config = k /\ ~new.closed
        OBVIOUS
      <3> HIDE DEF new
      <3> QED BY <1>21, <2>0, <2>1, <3>1, <3>2
    <2>2. CASE ~built
      <3>1. /\ old.client \in DOMAIN clients /\ clients[old.client].config = k
            /\ old.owners \subseteq clients[old.client].takers
        BY <1>12, <1>22, <2>2 DEF EntryOfClient
      <3> QED BY <1>14, <1>21, <1>22, <2>2, <3>1
    <2> QED BY <2>1, <2>2
  <1>24. ASSUME NEW e \in Range(gone)
         PROVE  /\ e \in Range(entries) /\ e.key = k
                /\ clients[e.client].expires <= second
                /\ e.client # last.client
    <2>1. e \in Range(entries) /\ e.key = k /\ clients[e.client].expires <= second
      BY <1>8 DEF Holds
    <2>2. EntryOfClient(e, clients)
      BY <1>4, <2>1
    <2>3. CASE built
      <3>1. last.client = Len(clients) + 1
        BY <1>11, <1>14, <2>3
      <3>2. e.client \in DOMAIN clients /\ Len(clients) + 1 \notin DOMAIN clients
        BY <1>3, <2>2 DEF EntryOfClient
      <3> QED BY <2>1, <3>1, <3>2
    <2>4. CASE ~built
      <3>1. old \in Range(entries) /\ old.key = k /\ old \notin expired
        BY <1>6, <1>12, <2>4
      <3>2. old = e
        BY <1>3, <1>4, <2>1, <3>1, OneOfAKey
      <3>3. e \in expired
        BY <1>8
      <3> QED BY <3>1, <3>2, <3>3
    <2> QED BY <2>3, <2>4
  <1>25. clients' = [n \in DOMAIN all |->
                  IF n = last.client THEN [all[n] EXCEPT !.takers = @ \cup {c}, !.since = {}]
                  ELSE [all[n] EXCEPT !.since = @ \cup {k}]]
    <2> HIDE DEF all
    <2> QED BY <1>1, <1>16
  <1>26. turn' = [turn EXCEPT ![t].pc = "taken", ![t].client = last.client,
                  ![t].victims = Clients(gone \o SubSeq(Append(rest, last), 1, over))]
    <2> HIDE DEF over
    <2> QED BY <1>1, <1>10, <1>16
  <1>27. LaterIsSince(rest, clients) /\ rest \in Seq(EntryRecord) /\ gone \in Seq(EntryRecord)
    BY <1>8, <1>9
  <1> HIDE DEF all, over, expired
  <1>28. /\ all \in Seq(ClientRecord) /\ Len(all) <= MaxClients
         /\ \A n \in DOMAIN clients : n \in DOMAIN all /\ all[n] = clients[n]
    BY <1>21
  <1>29. Took(t, k, c, rest, last, gone, over, all)
    BY <1>2, <1>14, <1>15, <1>18, <1>19, <1>20, <1>23, <1>24, <1>25, <1>26, <1>27, <1>28 DEF Took
  <1> QED BY <1>29

LEMMA ClientsIs ==
  ASSUME NEW s \in Seq(EntryRecord)
  PROVE  /\ Clients(s) \in Seq(1 .. MaxClients)
         /\ \A n \in Range(Clients(s)) : \E e \in Range(s) : n = e.client
  <1>1. Clients(s) = [i \in 1 .. Len(s) |-> s[i].client] /\ Len(s) \in Nat
    BY DEF Clients
  <1>2. \A i \in 1 .. Len(s) : s[i].client \in 1 .. MaxClients /\ s[i] \in Range(s)
    <2> TAKE i \in 1 .. Len(s)
    <2>1. s[i] \in EntryRecord /\ i \in DOMAIN s
      OBVIOUS
    <2> QED BY <2>1 DEF Range, EntryRecord
  <1>3. Clients(s) \in Seq(1 .. MaxClients)
    BY <1>1, <1>2
  <1>4. ASSUME NEW n \in Range(Clients(s)) PROVE \E e \in Range(s) : n = e.client
    <2>1. PICK i \in 1 .. Len(s) : n = s[i].client
      BY <1>1 DEF Range
    <2> QED BY <1>2, <2>1
  <1> QED BY <1>3, <1>4

\* The clients after a take.
LEMMA TookClients ==
  ASSUME CacheTypeOK, CacheInv, NEW t \in Turns, NEW k, NEW c, NEW rest, NEW last, NEW gone,
         NEW over, NEW all, Took(t, k, c, rest, last, gone, over, all)
  PROVE  /\ clients' \in Seq(ClientRecord) /\ Len(clients') <= MaxClients
         /\ DOMAIN clients \subseteq DOMAIN clients'
         /\ \A n \in DOMAIN clients' \ DOMAIN clients : n = last.client /\ ~clients'[n].closed
         /\ last.client \in DOMAIN clients' /\ clients'[last.client].config = k
         /\ last.owners \subseteq clients'[last.client].takers
         /\ clients'[last.client].since = {}
         /\ \A n \in DOMAIN clients :
              /\ clients'[n].config = clients[n].config /\ clients'[n].expires = clients[n].expires
              /\ clients'[n].closed = clients[n].closed /\ clients'[n].disowned = clients[n].disowned
              /\ clients[n].takers \subseteq clients'[n].takers
              /\ n # last.client => clients'[n].since = clients[n].since \cup {k}
  <1>1. /\ clients' = [n \in DOMAIN all |->
              IF n = last.client THEN [all[n] EXCEPT !.takers = @ \cup {c}, !.since = {}]
              ELSE [all[n] EXCEPT !.since = @ \cup {k}]]
        /\ k \in Configurations /\ c \in Chatbots
    BY DEF Took
  <1>a. all \in Seq(ClientRecord) /\ Len(all) <= MaxClients
    BY DEF Took
  <1>2. /\ \A n \in DOMAIN clients : n \in DOMAIN all /\ all[n] = clients[n]
        /\ \A n \in DOMAIN all \ DOMAIN clients : n = last.client /\ ~all[n].closed
        /\ last.client \in DOMAIN all /\ all[last.client].config = k
        /\ last.owners \subseteq all[last.client].takers \cup {c}
    BY DEF Took
  <1>3. \A n \in DOMAIN all : all[n] \in ClientRecord
    BY <1>a
  <1>4. DOMAIN clients' = DOMAIN all
    BY <1>1
  <1>5. ASSUME NEW n \in DOMAIN all
        PROVE  /\ clients'[n] \in ClientRecord
               /\ clients'[n].config = all[n].config /\ clients'[n].expires = all[n].expires
               /\ clients'[n].closed = all[n].closed /\ clients'[n].disowned = all[n].disowned
               /\ all[n].takers \subseteq clients'[n].takers
               /\ n = last.client => /\ clients'[n].since = {}
                                     /\ clients'[n].takers = all[n].takers \cup {c}
               /\ n # last.client => clients'[n].since = all[n].since \cup {k}
    <2>1. CASE n = last.client
      <3> DEFINE r == [all[n] EXCEPT !.takers = @ \cup {c}, !.since = {}]
      <3>1. clients'[n] = r
        BY <1>1, <2>1
      <3>2. /\ r \in ClientRecord /\ r.config = all[n].config /\ r.expires = all[n].expires
            /\ r.closed = all[n].closed /\ r.disowned = all[n].disowned
            /\ r.takers = all[n].takers \cup {c} /\ r.since = {}
        BY <1>1, <1>3 DEF ClientRecord
      <3> HIDE DEF r
      <3> QED BY <2>1, <3>1, <3>2
    <2>2. CASE n # last.client
      <3> DEFINE r == [all[n] EXCEPT !.since = @ \cup {k}]
      <3>1. clients'[n] = r
        BY <1>1, <2>2
      <3>2. /\ r \in ClientRecord /\ r.config = all[n].config /\ r.expires = all[n].expires
            /\ r.closed = all[n].closed /\ r.disowned = all[n].disowned
            /\ r.takers = all[n].takers /\ r.since = all[n].since \cup {k}
        BY <1>1, <1>3 DEF ClientRecord
      <3> HIDE DEF r
      <3> QED BY <2>2, <3>1, <3>2
    <2> QED BY <2>1, <2>2
  <1>6. clients' \in Seq(ClientRecord) /\ Len(clients') = Len(all)
    <2>1. DOMAIN all = 1 .. Len(all) /\ Len(all) \in Nat
      BY <1>a
    <2>2. clients' = [n \in 1 .. Len(all) |-> clients'[n]]
      BY <1>1, <2>1
    <2> QED BY <1>5, <2>1, <2>2
  <1>7. last.owners \subseteq clients'[last.client].takers
    BY <1>2, <1>5
  <1>8. /\ DOMAIN clients \subseteq DOMAIN clients'
        /\ \A n \in DOMAIN clients' \ DOMAIN clients : n = last.client /\ ~clients'[n].closed
        /\ last.client \in DOMAIN clients' /\ clients'[last.client].config = k
        /\ clients'[last.client].since = {}
    BY <1>2, <1>4, <1>5
  <1>9. ASSUME NEW n \in DOMAIN clients
        PROVE /\ clients'[n].config = clients[n].config /\ clients'[n].expires = clients[n].expires
              /\ clients'[n].closed = clients[n].closed /\ clients'[n].disowned = clients[n].disowned
              /\ clients[n].takers \subseteq clients'[n].takers
              /\ n # last.client => clients'[n].since = clients[n].since \cup {k}
    <2>1. n \in DOMAIN all /\ all[n] = clients[n]
      BY <1>2
    <2> QED BY <1>5, <2>1
  <1> QED BY <1>6, <1>7, <1>8, <1>9, <1>a

\* The entries before those that fall off the front are cut.
LEMMA TookEntries ==
  ASSUME CacheTypeOK, CacheInv, NEW t \in Turns, NEW k, NEW c, NEW rest, NEW last, NEW gone,
         NEW over, NEW all, Took(t, k, c, rest, last, gone, over, all)
  PROVE  /\ Append(rest, last) \in Seq(EntryRecord) /\ Len(Append(rest, last)) = Len(rest) + 1
         /\ Len(rest) \in Nat
         /\ LaterIsSince(Append(rest, last), clients')
         /\ \A e \in Range(Append(rest, last)) :
              EntryOfClient(e, clients') /\ (e = last \/ (e \in Range(entries) /\ e.client # last.client))
  <1> DEFINE s == Append(rest, last)
             m == Len(rest)
  <1>1. rest \in Seq(EntryRecord) /\ last \in EntryRecord /\ LaterIsSince(rest, clients)
    BY DEF Took
  <1>2. /\ s \in Seq(EntryRecord) /\ Len(s) = m + 1 /\ m \in Nat
        /\ DOMAIN s = 1 .. m + 1 /\ DOMAIN rest = 1 .. m
        /\ \A i \in 1 .. m : s[i] = rest[i]
        /\ s[m + 1] = last
    BY <1>1
  <1>3. last.key = k /\ \A e \in Range(rest) : e \in Range(entries) /\ e.key # k
    BY DEF Took
  <1>4. \A e \in Range(entries) : EntryOfClient(e, clients)
    BY DEF CacheInv
  <1> HIDE DEF s, m
  <1>5. ASSUME NEW i \in 1 .. m
        PROVE  /\ s[i] \in Range(entries) /\ s[i].key # k /\ s[i].client # last.client
               /\ EntryOfClient(s[i], clients')
               /\ clients'[s[i].client].since = clients[s[i].client].since \cup {k}
    <2>1. s[i] = rest[i] /\ rest[i] \in Range(rest)
      BY <1>2 DEF Range
    <2>2. s[i] \in Range(entries) /\ s[i].key # k
      BY <1>3, <2>1
    <2>3. s[i].client \in DOMAIN clients /\ clients[s[i].client].config = s[i].key
            /\ s[i].owners \subseteq clients[s[i].client].takers
      BY <1>4, <2>2 DEF EntryOfClient
    <2>4. clients'[s[i].client].config = s[i].key /\ s[i].client \in DOMAIN clients'
            /\ s[i].owners \subseteq clients'[s[i].client].takers
      BY <2>3, TookClients
    <2>5. clients'[last.client].config = k
      BY TookClients
    <2>6. s[i].client # last.client
      BY <2>2, <2>4, <2>5
    <2>7. clients'[s[i].client].since = clients[s[i].client].since \cup {k}
      BY <2>3, <2>6, TookClients
    <2> QED BY <2>2, <2>4, <2>6, <2>7 DEF EntryOfClient
  <1>6. EntryOfClient(last, clients')
    BY <1>3, TookClients DEF EntryOfClient
  <1>7. ASSUME NEW i \in DOMAIN s, NEW j \in DOMAIN s, i < j
        PROVE  s[i].key # s[j].key /\ s[j].key \in clients'[s[i].client].since
    <2>1. i \in 1 .. m
      BY <1>2, <1>7
    <2>2. CASE j \in 1 .. m
      <3>1. rest[i].key # rest[j].key /\ rest[j].key \in clients[rest[i].client].since
        BY <1>1, <1>2, <1>7, <2>1, <2>2 DEF LaterIsSince
      <3>2. s[i] = rest[i] /\ s[j] = rest[j]
        BY <1>2, <2>1, <2>2
      <3> QED BY <1>5, <2>1, <3>1, <3>2
    <2>3. CASE j = m + 1
      <3>1. s[j] = last
        BY <1>2, <2>3
      <3> QED BY <1>3, <1>5, <2>1, <3>1
    <2> QED BY <1>2, <2>2, <2>3
  <1>8. LaterIsSince(s, clients')
    BY <1>7 DEF LaterIsSince
  <1>9. ASSUME NEW e \in Range(s)
        PROVE  EntryOfClient(e, clients') /\ (e = last \/ (e \in Range(entries) /\ e.client # last.client))
    <2>1. PICK i \in DOMAIN s : e = s[i]
      BY DEF Range
    <2>2. CASE i \in 1 .. m
      BY <1>5, <2>1, <2>2
    <2>3. CASE i = m + 1
      BY <1>2, <1>6, <2>1, <2>3
    <2> QED BY <1>2, <2>2, <2>3
  <1> QED BY <1>2, <1>8, <1>9 DEF s, m

LEMMA TookFinite ==
  ASSUME CacheTypeOK, CacheInv, NEW t \in Turns, NEW k, NEW c, NEW rest, NEW last, NEW gone,
         NEW over, NEW all, Took(t, k, c, rest, last, gone, over, all),
         NEW n \in DOMAIN clients'
  PROVE  IsFiniteSet(clients'[n].since)
  <1>1. CASE n = last.client
    <2>1. clients'[n].since = {}
      BY <1>1, TookClients
    <2> QED BY <2>1, FS_EmptySet
  <1>2. CASE n # last.client
    <2>1. n \in DOMAIN clients
      BY <1>2, TookClients
    <2>2. clients'[n].since = clients[n].since \cup {k}
      BY <1>2, <2>1, TookClients
    <2>3. IsFiniteSet(clients[n].since)
      BY <2>1 DEF CacheInv
    <2>4. IsFiniteSet(clients[n].since \cup {k})
      BY <2>3, FS_AddElement
    <2> QED BY <2>2, <2>4
  <1> QED BY <1>1, <1>2

\* What falls off the front has been followed by as many others as the cache holds.
LEMMA TookOverflow ==
  ASSUME CacheTypeOK, CacheInv, NEW t \in Turns, NEW k, NEW c, NEW rest, NEW last, NEW gone,
         NEW over, NEW all, Took(t, k, c, rest, last, gone, over, all),
         NEW i \in 1 .. over
  PROVE  Caused(Append(rest, last)[i].client, clients', second)
  <1> DEFINE s == Append(rest, last)
             n == s[i].client
             later == over + 1 .. Len(rest) + 1
             f == [j \in later |-> s[j].key]
  <1>1. /\ s \in Seq(EntryRecord) /\ Len(rest) \in Nat /\ DOMAIN s = 1 .. Len(rest) + 1
        /\ LaterIsSince(s, clients') /\ \A e \in Range(s) : EntryOfClient(e, clients')
    BY TookEntries
  <1>2. over \in 1 .. Len(rest) + 1 /\ Len(rest) + 1 - over = Capacity
    <2>1. over \in 0 .. Len(rest) + 1 /\ (over # 0 => Len(rest) + 1 - over = Capacity)
      BY DEF Took
    <2>2. over # 0
      BY <1>1, <2>1
    <2> QED BY <1>1, <2>1, <2>2
  <1>3. i \in DOMAIN s /\ \A j \in later : j \in DOMAIN s /\ i < j
    BY <1>1, <1>2
  <1>4. n \in DOMAIN clients'
    <2>1. s[i] \in Range(s)
      BY <1>3 DEF Range
    <2> HIDE DEF s
    <2> QED BY <1>1, <2>1 DEF EntryOfClient
  <1>5. IsFiniteSet(clients'[n].since)
    <2> HIDE DEF n
    <2> QED BY <1>4, TookFinite
  <1> HIDE DEF s
  <1>6. \A j \in later : s[j].key \in clients'[n].since
    BY <1>1, <1>3 DEF LaterIsSince
  <1>7. \A j, l \in later : s[j].key = s[l].key => j = l
    <2> TAKE j, l \in later
    <2>1. j \in DOMAIN s /\ l \in DOMAIN s /\ j \in Int /\ l \in Int
      BY <1>2, <1>3
    <2>2. (j < l \/ l < j) => s[j].key # s[l].key
      BY <1>1, <2>1 DEF LaterIsSince
    <2> QED BY <2>1, <2>2
  <1> HIDE DEF later, n
  <1>8. f \in Injection(later, clients'[n].since)
    BY <1>6, <1>7 DEF Injection, IsInjective
  <1>9. Cardinality(later) = Capacity
    BY <1>1, <1>2, FS_Interval, CacheAssumption DEF later
  <1>10. Cardinality(later) <= Cardinality(clients'[n].since)
    <2> HIDE DEF f
    <2> QED BY <1>5, <1>8, FS_Injection
  <1>11. Cardinality(clients'[n].since) \in Nat
    BY <1>5, FS_CardinalityType
  <1>12. Cardinality(clients'[n].since) >= Capacity
    BY <1>9, <1>10, <1>11, CacheAssumption
  <1>13. Caused(n, clients', second)
    BY <1>12 DEF Caused
  <1> QED BY <1>13 DEF n, s

\* A cause is not lost.
LEMMA CauseKept ==
  ASSUME CacheTypeOK, NEW n \in DOMAIN clients, NEW after, NEW later \in Nat, second <= later,
         Caused(n, clients, second),
         after[n].expires = clients[n].expires,
         clients[n].disowned => after[n].disowned,
         IsFiniteSet(after[n].since), clients[n].since \subseteq after[n].since
  PROVE  Caused(n, after, later)
  <1>1. second \in Nat /\ clients[n].expires \in Nat
    <2>1. clients[n] \in ClientRecord
      BY DEF CacheTypeOK
    <2> QED BY <2>1 DEF CacheTypeOK, ClientRecord
  <1>2. IsFiniteSet(clients[n].since) /\ Cardinality(clients[n].since) <= Cardinality(after[n].since)
    BY FS_Subset
  <1>3. Cardinality(clients[n].since) \in Nat /\ Cardinality(after[n].since) \in Nat
    BY <1>2, FS_CardinalityType
  <1>4. CASE second >= clients[n].expires
    BY <1>1, <1>4 DEF Caused
  <1>5. CASE Cardinality(clients[n].since) >= Capacity
    <2> DEFINE a == Cardinality(clients[n].since)
               b == Cardinality(after[n].since)
    <2>1. a \in Nat /\ b \in Nat /\ a <= b /\ a >= Capacity /\ Capacity \in Nat
      BY <1>2, <1>3, <1>5, CacheAssumption
    <2> HIDE DEF a, b
    <2>2. b >= Capacity
      BY <2>1
    <2> QED BY <2>2 DEF Caused, b
  <1>6. CASE clients[n].disowned
    BY <1>6 DEF Caused
  <1> QED BY <1>4, <1>5, <1>6 DEF Caused

\* What has been thrown out keeps its cause while the clients only gather more of one.
LEMMA ThrownStays ==
  ASSUME CacheTypeOK, CacheInv, second' \in Nat, second <= second',
         DOMAIN clients \subseteq DOMAIN clients',
         \A n \in DOMAIN clients :
            /\ clients'[n].expires = clients[n].expires
            /\ clients[n].disowned => clients'[n].disowned
            /\ IsFiniteSet(clients'[n].since) /\ (n \in ThrownOut => clients[n].since \subseteq clients'[n].since),
         NEW n \in ThrownOut
  PROVE  n \in DOMAIN clients' /\ Caused(n, clients', second')
  <1>1. n \in DOMAIN clients /\ Caused(n, clients, second)
    BY DEF CacheInv, ThrownForACause
  <1>2. /\ clients'[n].expires = clients[n].expires
        /\ clients[n].disowned => clients'[n].disowned
        /\ IsFiniteSet(clients'[n].since) /\ clients[n].since \subseteq clients'[n].since
    BY <1>1
  <1> DEFINE after == clients'
             later == second'
  <1>3. later \in Nat /\ second <= later /\ after[n].expires = clients[n].expires
        /\ (clients[n].disowned => after[n].disowned)
        /\ IsFiniteSet(after[n].since) /\ clients[n].since \subseteq after[n].since
    BY <1>2
  <1> HIDE DEF after, later
  <1>4. Caused(n, after, later)
    BY <1>1, <1>3, CauseKept
  <1>5. Caused(n, clients', second')
    BY <1>4 DEF after, later
  <1> QED BY <1>1, <1>5

\* A client a take throws out: an expired one, or one that falls off the front.
FellOut(n, rest, last, gone, over) ==
  \/ \E e \in Range(gone) : n = e.client
  \/ \E i \in 1 .. over : n = Append(rest, last)[i].client

LEMMA TookTurn ==
  ASSUME CacheTypeOK, NEW t \in Turns, NEW k, NEW c, NEW rest, NEW last, NEW gone,
         NEW over, NEW all, Took(t, k, c, rest, last, gone, over, all)
  PROVE  /\ turn' \in [Turns -> TurnRecord]
         /\ turn'[t].client = last.client /\ turn'[t].pc = "taken"
         /\ turn'[t].victims = Clients(gone \o SubSeq(Append(rest, last), 1, over))
         /\ turn'[t].victims \in Seq(1 .. MaxClients)
         /\ \A n \in Range(turn'[t].victims) : FellOut(n, rest, last, gone, over)
         /\ \A u \in Turns : u # t => turn'[u] = turn[u]
  <1> DEFINE cut == SubSeq(Append(rest, last), 1, over)
             out == gone \o cut
             s == Append(rest, last)
  <1>1. rest \in Seq(EntryRecord) /\ last \in EntryRecord /\ gone \in Seq(EntryRecord)
        /\ over \in 0 .. Len(rest) + 1
    BY DEF Took
  <1>2. s \in Seq(EntryRecord) /\ Len(s) = Len(rest) + 1 /\ Len(rest) \in Nat
    BY <1>1
  <1>3. cut \in Seq(EntryRecord) /\ Len(cut) = over /\ \A i \in 1 .. over : cut[i] = s[i]
    <2> HIDE DEF s
    <2>1. 1 \in Nat /\ over \in Nat /\ 1 .. over \subseteq 1 .. Len(s)
      BY <1>1, <1>2
    <2> QED BY <1>1, <1>2, <2>1 DEF s
  <1> HIDE DEF cut, s
  <1>4. /\ out \in Seq(EntryRecord) /\ Len(out) = Len(gone) + Len(cut)
        /\ \A i \in 1 .. Len(gone) + Len(cut) :
             out[i] = IF i <= Len(gone) THEN gone[i] ELSE cut[i - Len(gone)]
    BY <1>1, <1>3, ConcatProperties
  <1>5. ASSUME NEW e \in Range(out)
        PROVE  e \in Range(gone) \/ \E i \in 1 .. over : e = s[i]
    <2>1. PICK i \in 1 .. Len(gone) + Len(cut) : e = out[i]
      BY <1>4 DEF Range
    <2>0. Len(gone) \in Nat /\ DOMAIN gone = 1 .. Len(gone) /\ over \in Nat
      BY <1>1, <1>2
    <2>2. CASE i <= Len(gone)
      <3>1. i \in DOMAIN gone /\ e = gone[i]
        BY <1>4, <2>0, <2>1, <2>2
      <3> QED BY <3>1 DEF Range
    <2>3. CASE ~(i <= Len(gone))
      <3>1. i - Len(gone) \in 1 .. over
        BY <1>3, <2>0, <2>1, <2>3
      <3>2. e = cut[i - Len(gone)]
        BY <1>4, <2>1, <2>3
      <3> QED BY <1>3, <3>1, <3>2
    <2> QED BY <2>2, <2>3
  <1> DEFINE cs == Clients(out)
  <1> HIDE DEF out
  <1>6. /\ cs \in Seq(1 .. MaxClients)
        /\ \A n \in Range(cs) : \E e \in Range(out) : n = e.client
    BY <1>4, ClientsIs
  <1>7. turn' = [turn EXCEPT ![t].pc = "taken", ![t].client = last.client, ![t].victims = cs]
    BY DEF Took, out, cut
  <1> HIDE DEF cs
  <1>8. last.client \in 0 .. MaxClients
    BY <1>1 DEF EntryRecord
  <1>9. turn \in [Turns -> TurnRecord]
    BY DEF CacheTypeOK
  <1>10. /\ turn' \in [Turns -> TurnRecord] /\ turn'[t].pc = "taken"
         /\ turn'[t].client = last.client /\ turn'[t].victims = cs
         /\ \A u \in Turns : u # t => turn'[u] = turn[u]
    <2> DEFINE r == [turn[t] EXCEPT !.pc = "taken", !.client = last.client, !.victims = cs]
    <2>1. turn[t] \in TurnRecord
      BY <1>9
    <2>2. r \in TurnRecord /\ r.pc = "taken" /\ r.client = last.client /\ r.victims = cs
      BY <1>6, <1>8, <2>1 DEF TurnRecord
    <2>3. turn' = [turn EXCEPT ![t] = r]
      BY <1>7, <1>9
    <2> HIDE DEF r
    <2> QED BY <1>9, <2>2, <2>3
  <1>11. ASSUME NEW n \in Range(cs)
         PROVE  (\E e \in Range(gone) : n = e.client) \/ (\E i \in 1 .. over : n = s[i].client)
    <2>1. PICK e \in Range(out) : n = e.client
      BY <1>6
    <2> QED BY <1>5, <2>1
  <1> QED BY <1>6, <1>10, <1>11 DEF cs, s, out, cut, FellOut

LEMMA TookThrown ==
  ASSUME CacheTypeOK, CacheInv, NEW t \in Turns, NEW k, NEW c, NEW rest, NEW last, NEW gone,
         NEW over, NEW all, Took(t, k, c, rest, last, gone, over, all), UNCHANGED <<second, saving>>,
         NEW n \in ThrownOut'
  PROVE  n \in ThrownOut \/ FellOut(n, rest, last, gone, over)
  <1>1. \/ n \in DOMAIN clients' /\ clients'[n].closed
        \/ \E u \in Turns : n \in Range(turn'[u].victims)
        \/ \E x \in Chatbots : n \in Range(saving[x].victims)
    BY DEF ThrownOut
  <1>2. ASSUME n \in DOMAIN clients', clients'[n].closed PROVE n \in ThrownOut
    <2>1. n \in DOMAIN clients /\ clients'[n].closed = clients[n].closed
      BY <1>2, TookClients
    <2> QED BY <1>2, <2>1 DEF ThrownOut
  <1>3. ASSUME NEW u \in Turns, n \in Range(turn'[u].victims)
        PROVE  n \in ThrownOut \/ FellOut(n, rest, last, gone, over)
    <2>1. CASE u = t
      <3>1. n \in Range(turn'[t].victims)
        BY <1>3, <2>1
      <3> QED BY <3>1, TookTurn
    <2>2. CASE u # t
      <3>1. turn'[u] = turn[u]
        BY <2>2, TookTurn
      <3>2. n \in Range(turn[u].victims)
        BY <1>3, <3>1
      <3> QED BY <3>2 DEF ThrownOut
    <2> QED BY <2>1, <2>2
  <1>4. ASSUME NEW x \in Chatbots, n \in Range(saving[x].victims) PROVE n \in ThrownOut
    BY <1>4 DEF ThrownOut
  <1> QED BY <1>1, <1>2, <1>3, <1>4

LEMMA TakeKeeps ==
  ASSUME CacheTypeOK, CacheInv, NEW t \in Turns, Take(t)
  PROVE  CacheTypeOK' /\ CacheInv'
  <1>1. PICK k, c, rest, last, gone, over, all : Took(t, k, c, rest, last, gone, over, all)
    BY TakeParts
  <1>2. UNCHANGED <<second, saved, saves, saving>>
    BY DEF Take
  <1> DEFINE s == Append(rest, last)
             m == Len(rest)
  <1>3. /\ s \in Seq(EntryRecord) /\ Len(s) = m + 1 /\ m \in Nat
        /\ LaterIsSince(s, clients')
        /\ \A e \in Range(s) :
             EntryOfClient(e, clients') /\ (e = last \/ (e \in Range(entries) /\ e.client # last.client))
    BY <1>1, TookEntries
  <1>4. /\ clients' \in Seq(ClientRecord) /\ Len(clients') <= MaxClients
        /\ DOMAIN clients \subseteq DOMAIN clients'
        /\ last.client \in DOMAIN clients'
        /\ clients'[last.client].since = {}
        /\ \A n \in DOMAIN clients :
              /\ clients'[n].expires = clients[n].expires
              /\ clients'[n].closed = clients[n].closed /\ clients'[n].disowned = clients[n].disowned
              /\ n # last.client => clients'[n].since = clients[n].since \cup {k}
    BY <1>1, TookClients
  <1>5. \A n \in DOMAIN clients' : IsFiniteSet(clients'[n].since)
    BY <1>1, TookFinite
  <1>6. /\ turn' \in [Turns -> TurnRecord]
        /\ turn'[t].client = last.client /\ turn'[t].pc = "taken"
        /\ \A u \in Turns : u # t => turn'[u] = turn[u]
    BY <1>1, TookTurn
  <1>7. /\ over \in 0 .. m + 1 /\ entries' = SubSeq(s, over + 1, m + 1)
        /\ \A e \in Range(gone) :
             /\ e \in Range(entries) /\ e.key = k
             /\ clients[e.client].expires <= second /\ e.client # last.client
        /\ \A e \in Range(rest) : e \in Range(entries) /\ e.key # k
        /\ last.client \in DOMAIN clients => \E e \in Range(entries) : e.client = last.client
    BY <1>1 DEF Took
  <1>8. \A n \in ThrownOut' : n \in ThrownOut \/ FellOut(n, rest, last, gone, over)
    BY <1>1, <1>2, TookThrown
  <1>9. \A i \in 1 .. over : Caused(s[i].client, clients', second)
    BY <1>1, TookOverflow
  <1>10. \A e \in Range(s) : e = last \/ e \in Range(rest)
    <2> TAKE e \in Range(s)
    <2>1. rest \in Seq(EntryRecord)
      BY <1>1 DEF Took
    <2>2. PICK i \in 1 .. m + 1 : e = s[i]
      BY <1>3 DEF Range
    <2>3. CASE i = m + 1
      BY <1>3, <2>1, <2>2, <2>3
    <2>4. CASE i \in 1 .. m
      <3>1. e = rest[i] /\ i \in DOMAIN rest
        BY <1>3, <2>1, <2>2, <2>4
      <3> QED BY <3>1 DEF Range
    <2> QED BY <1>3, <2>2, <2>3, <2>4
  <1> HIDE DEF s, m
  <1>11. /\ entries' \in Seq(EntryRecord)
         /\ DOMAIN entries' = 1 .. m + 1 - over
         /\ \A i \in DOMAIN entries' : entries'[i] = s[over + i] /\ over + i \in DOMAIN s
    <2>1. \A i \in over + 1 .. m + 1 : i \in DOMAIN s
      BY <1>3, <1>7
    <2>2. entries' = [i \in 1 .. m + 1 - over |-> s[over + i]]
      BY <1>3, <1>7
    <2>3. \A i \in 1 .. m + 1 - over : s[over + i] \in EntryRecord /\ over + i \in DOMAIN s
      BY <1>3, <1>7, <2>1
    <2>4. m + 1 - over \in Nat
      BY <1>3, <1>7
    <2> QED BY <2>2, <2>3, <2>4
  <1>12. \A e \in Range(entries') : e \in Range(s)
    BY <1>11 DEF Range
  <1>13. LaterIsSince(entries', clients')
    <2> SUFFICES ASSUME NEW i \in DOMAIN entries', NEW j \in DOMAIN entries', i < j
                 PROVE  /\ entries'[i].key # entries'[j].key
                        /\ entries'[j].key \in clients'[entries'[i].client].since
      BY DEF LaterIsSince
    <2>1. over + i \in DOMAIN s /\ over + j \in DOMAIN s /\ over + i < over + j
      BY <1>3, <1>7, <1>11
    <2>2. entries'[i] = s[over + i] /\ entries'[j] = s[over + j]
      BY <1>11
    <2>3. /\ s[over + i].key # s[over + j].key
          /\ s[over + j].key \in clients'[s[over + i].client].since
      BY <1>3, <2>1 DEF LaterIsSince
    <2> QED BY <2>2, <2>3
  <1>14. \A e \in Range(entries') : EntryOfClient(e, clients')
    BY <1>3, <1>12
  <1>15. \A u \in Turns : turn'[u].client \in {0} \cup DOMAIN clients'
    BY <1>4, <1>6 DEF CacheInv
  <1>16. \A n \in DOMAIN clients : n \in ThrownOut => n # last.client
    BY <1>7 DEF CacheInv, ThrownForACause
  <1>17. ASSUME NEW n \in ThrownOut
         PROVE  n \in DOMAIN clients' /\ Caused(n, clients', second) /\ \A e \in Range(entries') : e.client # n
    <2>1. n \in DOMAIN clients /\ \A e \in Range(entries) : e.client # n
      BY DEF CacheInv, ThrownForACause
    <2>2. \A x \in DOMAIN clients :
            /\ clients'[x].expires = clients[x].expires
            /\ clients[x].disowned => clients'[x].disowned
            /\ IsFiniteSet(clients'[x].since)
            /\ (x \in ThrownOut => clients[x].since \subseteq clients'[x].since)
      BY <1>4, <1>5, <1>16
    <2>3. second' \in Nat /\ second <= second' /\ second' = second
      BY <1>2 DEF CacheTypeOK
    <2>4. n \in DOMAIN clients' /\ Caused(n, clients', second')
      BY <1>4, <2>2, <2>3, ThrownStays
    <2>5. n # last.client
      BY <1>16, <2>1
    <2> QED BY <1>3, <1>12, <2>1, <2>3, <2>4, <2>5
  <1>18. ASSUME NEW g \in Range(gone)
         PROVE  /\ g.client \in DOMAIN clients' /\ Caused(g.client, clients', second)
                /\ \A e \in Range(entries') : e.client # g.client
    <2>1. /\ g \in Range(entries) /\ g.key = k /\ clients[g.client].expires <= second
          /\ g.client # last.client
      BY <1>7
    <2>2. g.client \in DOMAIN clients /\ clients[g.client].config = k
      BY <2>1 DEF CacheInv, EntryOfClient
    <2>3. Caused(g.client, clients', second)
      <3>1. clients'[g.client].expires = clients[g.client].expires
        BY <1>4, <2>2
      <3>2. clients[g.client] \in ClientRecord /\ second \in Nat
        BY <2>2 DEF CacheTypeOK
      <3>3. second >= clients'[g.client].expires
        BY <2>1, <3>1, <3>2 DEF ClientRecord
      <3> QED BY <3>3 DEF Caused
    <2>4. ASSUME NEW e \in Range(rest) PROVE e.client # g.client
      <3>1. e \in Range(entries) /\ e.key # k
        BY <1>7
      <3>2. clients[e.client].config # k
        BY <3>1 DEF CacheInv, EntryOfClient
      <3> QED BY <2>2, <3>2
    <2> QED BY <1>4, <1>10, <1>12, <2>1, <2>2, <2>3, <2>4
  <1>19. ASSUME NEW i \in 1 .. over
         PROVE  /\ s[i].client \in DOMAIN clients' /\ Caused(s[i].client, clients', second)
                /\ \A e \in Range(entries') : e.client # s[i].client
    <2>1. i \in DOMAIN s /\ s[i] \in Range(s)
      <3>1. i \in DOMAIN s
        BY <1>3, <1>7
      <3> QED BY <3>1 DEF Range
    <2>2. EntryOfClient(s[i], clients')
      BY <1>3, <2>1
    <2>3. ASSUME NEW e \in Range(entries') PROVE e.client # s[i].client
      <3>1. PICK j \in DOMAIN entries' : e = entries'[j]
        BY DEF Range
      <3>2. e = s[over + j] /\ over + j \in DOMAIN s
        BY <1>11, <3>1
      <3>3. i < over + j
        BY <1>3, <1>7, <1>11, <3>1
      <3>4. s[i].key # e.key
        BY <1>3, <2>1, <3>2, <3>3 DEF LaterIsSince
      <3>5. EntryOfClient(e, clients')
        BY <1>14
      <3> QED BY <2>2, <3>4, <3>5 DEF EntryOfClient
    <2> QED BY <1>9, <2>2, <2>3 DEF EntryOfClient
  <1>20. ThrownForACause'
    <2> SUFFICES ASSUME NEW n \in ThrownOut'
                 PROVE  /\ n \in DOMAIN clients' /\ Caused(n, clients', second')
                        /\ \A e \in Range(entries') : e.client # n
      BY DEF ThrownForACause
    <2> QED BY <1>2, <1>8, <1>17, <1>18, <1>19 DEF FellOut, s
  <1>21. ClosingHasVictims'
    BY <1>2 DEF CacheInv, ClosingHasVictims
  <1>22. CacheInv'
    BY <1>5, <1>13, <1>14, <1>15, <1>20, <1>21 DEF CacheInv
  <1>23. \A u \in Turns : turn'[u].pc = "loaded" =>
           turn'[u].bot \in Chatbots /\ turn'[u].loaded \in Configurations
    BY <1>6 DEF CacheTypeOK
  <1>24. CacheTypeOK'
    BY <1>2, <1>4, <1>6, <1>11, <1>23 DEF CacheTypeOK
  <1> QED BY <1>22, <1>24

-----------------------------------------------------------------------------
(***************************************************************************)
(* The other steps.  All but one leave the entries alone, and change of a  *)
(* client no more than whether it is closed.                               *)
(***************************************************************************)
LEMMA TailIsLess ==
  ASSUME NEW T, NEW s \in Seq(T), s # <<>>
  PROVE  /\ Head(s) \in Range(s) /\ Head(s) \in T
         /\ Tail(s) \in Seq(T) /\ Len(Tail(s)) = Len(s) - 1
         /\ \A e \in Range(Tail(s)) : e \in Range(s)
  <1>1. /\ Len(s) \in Nat \ {0} /\ DOMAIN s = 1 .. Len(s)
        /\ Tail(s) \in Seq(T) /\ Len(Tail(s)) = Len(s) - 1
        /\ \A i \in 1 .. Len(Tail(s)) : Tail(s)[i] = s[i + 1]
    OBVIOUS
  <1>2. Head(s) = s[1] /\ s[1] \in T /\ 1 \in DOMAIN s
    BY <1>1
  <1>3. ASSUME NEW e \in Range(Tail(s)) PROVE e \in Range(s)
    <2>1. PICK i \in DOMAIN Tail(s) : e = Tail(s)[i]
      BY DEF Range
    <2>2. i \in 1 .. Len(s) - 1
      BY <1>1, <2>1
    <2>3. e = s[i + 1] /\ i + 1 \in DOMAIN s
      BY <1>1, <2>1, <2>2
    <2> QED BY <2>3 DEF Range
  <1> QED BY <1>1, <1>2, <1>3 DEF Range

LEMMA CalmStep ==
  ASSUME CacheTypeOK, CacheInv, UNCHANGED entries,
         second' \in Nat, second <= second',
         DOMAIN clients' = DOMAIN clients,
         \A n \in DOMAIN clients :
            /\ clients'[n].config = clients[n].config /\ clients'[n].expires = clients[n].expires
            /\ clients'[n].takers = clients[n].takers /\ clients'[n].since = clients[n].since
            /\ clients'[n].disowned = clients[n].disowned,
         ThrownOut' \subseteq ThrownOut,
         \A u \in Turns : turn'[u].client \in {0} \cup DOMAIN clients,
         ClosingHasVictims'
  PROVE  CacheInv'
  <1>1. \A e \in Range(entries) : EntryOfClient(e, clients) /\ EntryOfClient(e, clients')
    <2> TAKE e \in Range(entries)
    <2>1. EntryOfClient(e, clients)
      BY DEF CacheInv
    <2> QED BY <2>1 DEF EntryOfClient
  <1>2. LaterIsSince(entries, clients')
    <2> SUFFICES ASSUME NEW i \in DOMAIN entries, NEW j \in DOMAIN entries, i < j
                 PROVE  /\ entries[i].key # entries[j].key
                        /\ entries[j].key \in clients'[entries[i].client].since
      BY DEF LaterIsSince
    <2>1. /\ entries[i].key # entries[j].key
          /\ entries[j].key \in clients[entries[i].client].since
      BY DEF CacheInv, LaterIsSince
    <2>2. entries[i].client \in DOMAIN clients
      BY <1>1 DEF Range, EntryOfClient
    <2> QED BY <2>1, <2>2
  <1>3. \A n \in DOMAIN clients' : IsFiniteSet(clients'[n].since)
    BY DEF CacheInv
  <1>4. ThrownForACause'
    <2> SUFFICES ASSUME NEW n \in ThrownOut'
                 PROVE  /\ n \in DOMAIN clients' /\ Caused(n, clients', second')
                        /\ \A e \in Range(entries') : e.client # n
      BY DEF ThrownForACause
    <2>1. n \in ThrownOut
      OBVIOUS
    <2>2. \A e \in Range(entries) : e.client # n
      BY <2>1 DEF CacheInv, ThrownForACause
    <2>3. \A x \in DOMAIN clients :
            /\ clients'[x].expires = clients[x].expires
            /\ clients[x].disowned => clients'[x].disowned
            /\ IsFiniteSet(clients'[x].since)
            /\ (x \in ThrownOut => clients[x].since \subseteq clients'[x].since)
      BY <1>3
    <2>4. n \in DOMAIN clients' /\ Caused(n, clients', second')
      BY <2>1, <2>3, ThrownStays
    <2> QED BY <2>2, <2>4
  <1> QED BY <1>1, <1>2, <1>3, <1>4 DEF CacheInv

\* A client is closed.
LEMMA ClosedIs ==
  ASSUME CacheTypeOK, NEW n \in DOMAIN clients, Closed(n)
  PROVE  /\ clients' \in Seq(ClientRecord) /\ Len(clients') = Len(clients)
         /\ DOMAIN clients' = DOMAIN clients
         /\ \A x \in DOMAIN clients :
              /\ clients'[x].config = clients[x].config /\ clients'[x].expires = clients[x].expires
              /\ clients'[x].takers = clients[x].takers /\ clients'[x].since = clients[x].since
              /\ clients'[x].disowned = clients[x].disowned
              /\ x # n => clients'[x].closed = clients[x].closed
  <1> DEFINE r == [clients[n] EXCEPT !.closed = TRUE]
  <1>1. clients \in Seq(ClientRecord) /\ clients[n] \in ClientRecord
    BY DEF CacheTypeOK
  <1>2. /\ r \in ClientRecord /\ r.config = clients[n].config /\ r.expires = clients[n].expires
        /\ r.takers = clients[n].takers /\ r.since = clients[n].since
        /\ r.disowned = clients[n].disowned
    BY <1>1 DEF ClientRecord
  <1>3. clients' = [clients EXCEPT ![n] = r]
    BY DEF Closed
  <1> HIDE DEF r
  <1>4. clients' \in Seq(ClientRecord) /\ Len(clients') = Len(clients)
        /\ DOMAIN clients' = DOMAIN clients
    BY <1>1, <1>2, <1>3
  <1>5. \A x \in DOMAIN clients : clients'[x] = IF x = n THEN r ELSE clients[x]
    BY <1>1, <1>3
  <1> QED BY <1>2, <1>4, <1>5

LEMMA ThrownParts ==
  ASSUME NEW n
  PROVE  n \in ThrownOut <=> \/ n \in DOMAIN clients /\ clients[n].closed
                             \/ \E u \in Turns : n \in Range(turn[u].victims)
                             \/ \E x \in Chatbots : n \in Range(saving[x].victims)
  BY DEF ThrownOut

\* No turn has more victims than before, and no save has.
LEMMA ThrownNoMore ==
  ASSUME \A n \in DOMAIN clients' : clients'[n].closed => n \in ThrownOut,
         \A u \in Turns : Range(turn'[u].victims) \subseteq Range(turn[u].victims),
         \A x \in Chatbots : Range(saving'[x].victims) \subseteq Range(saving[x].victims)
  PROVE  ThrownOut' \subseteq ThrownOut
  <1> SUFFICES ASSUME NEW n \in ThrownOut' PROVE n \in ThrownOut
    OBVIOUS
  <1>1. \/ n \in DOMAIN clients' /\ clients'[n].closed
        \/ \E u \in Turns : n \in Range(turn'[u].victims)
        \/ \E x \in Chatbots : n \in Range(saving'[x].victims)
    BY DEF ThrownOut
  <1> QED BY <1>1, ThrownParts

\* What is said of a turn that is not the one that moves.
LEMMA TurnMoves ==
  ASSUME CacheTypeOK, CacheInv, NEW t \in Turns, NEW r \in TurnRecord,
         turn' = [turn EXCEPT ![t] = r],
         r.pc = "loaded" => r.bot \in Chatbots /\ r.loaded \in Configurations,
         r.client \in {0} \cup DOMAIN clients,
         Range(r.victims) \subseteq Range(turn[t].victims)
  PROVE  /\ turn' \in [Turns -> TurnRecord]
         /\ \A u \in Turns :
              /\ turn'[u].pc = "loaded" =>
                   turn'[u].bot \in Chatbots /\ turn'[u].loaded \in Configurations
              /\ turn'[u].client \in {0} \cup DOMAIN clients
              /\ Range(turn'[u].victims) \subseteq Range(turn[u].victims)
  <1>1. turn \in [Turns -> TurnRecord]
    BY DEF CacheTypeOK
  <1>2. turn' \in [Turns -> TurnRecord] /\ \A u \in Turns : turn'[u] = IF u = t THEN r ELSE turn[u]
    BY <1>1
  <1>3. \A u \in Turns :
              /\ turn[u].pc = "loaded" => turn[u].bot \in Chatbots /\ turn[u].loaded \in Configurations
              /\ turn[u].client \in {0} \cup DOMAIN clients
    BY DEF CacheTypeOK, CacheInv
  <1> QED BY <1>2, <1>3

LEMMA LoadKeeps ==
  ASSUME CacheTypeOK, CacheInv, NEW t \in Turns, NEW c \in Chatbots, Load(t, c)
  PROVE  CacheTypeOK' /\ CacheInv'
  <1> DEFINE r == [pc |-> "loaded", bot |-> c, loaded |-> saved[c], client |-> 0, victims |-> <<>>]
  <1>1. turn' = [turn EXCEPT ![t] = r] /\ UNCHANGED <<second, saved, saves, saving, entries, clients>>
    BY DEF Load
  <1>2. saved[c] \in Configurations
    BY DEF CacheTypeOK
  <1>3. <<>> \in Seq(1 .. MaxClients) /\ 0 \in 0 .. MaxClients
    BY CacheAssumption
  <1>4. /\ r \in TurnRecord /\ r.bot \in Chatbots /\ r.loaded \in Configurations
        /\ r.client = 0 /\ r.victims = <<>>
    BY <1>2, <1>3 DEF TurnRecord
  <1>5. Range(r.victims) = {}
    BY DEF Range
  <1> HIDE DEF r
  <1>6. /\ turn' \in [Turns -> TurnRecord]
        /\ \A u \in Turns :
              /\ turn'[u].pc = "loaded" =>
                   turn'[u].bot \in Chatbots /\ turn'[u].loaded \in Configurations
              /\ turn'[u].client \in {0} \cup DOMAIN clients
              /\ Range(turn'[u].victims) \subseteq Range(turn[u].victims)
    BY <1>1, <1>4, <1>5, TurnMoves
  <1>7. ThrownOut' \subseteq ThrownOut
    BY <1>1, <1>6, ThrownNoMore, ThrownParts
  <1>8. ClosingHasVictims'
    BY <1>1 DEF CacheInv, ClosingHasVictims
  <1>9. second' \in Nat /\ second <= second'
    BY <1>1 DEF CacheTypeOK
  <1>10. CacheInv'
    BY <1>1, <1>6, <1>7, <1>8, <1>9, CalmStep
  <1>11. CacheTypeOK'
    BY <1>1, <1>6 DEF CacheTypeOK
  <1> QED BY <1>10, <1>11

LEMMA LeaveKeeps ==
  ASSUME CacheTypeOK, CacheInv, NEW t \in Turns, Leave(t)
  PROVE  CacheTypeOK' /\ CacheInv'
  <1>1. turn' = [turn EXCEPT ![t] = NoTurn] /\ UNCHANGED <<second, saved, saves, saving, entries, clients>>
    BY DEF Leave
  <1>2. <<>> \in Seq(1 .. MaxClients) /\ 0 \in 0 .. MaxClients
    BY CacheAssumption
  <1>3. NoTurn \in TurnRecord /\ NoTurn.pc = "idle" /\ NoTurn.client = 0 /\ NoTurn.victims = <<>>
    BY <1>2 DEF NoTurn, TurnRecord
  <1>4. Range(NoTurn.victims) = {}
    BY <1>3 DEF Range
  <1>5. /\ turn' \in [Turns -> TurnRecord]
        /\ \A u \in Turns :
              /\ turn'[u].pc = "loaded" =>
                   turn'[u].bot \in Chatbots /\ turn'[u].loaded \in Configurations
              /\ turn'[u].client \in {0} \cup DOMAIN clients
              /\ Range(turn'[u].victims) \subseteq Range(turn[u].victims)
    BY <1>1, <1>3, <1>4, TurnMoves
  <1>6. ThrownOut' \subseteq ThrownOut
    BY <1>1, <1>5, ThrownNoMore, ThrownParts
  <1>7. ClosingHasVictims'
    BY <1>1 DEF CacheInv, ClosingHasVictims
  <1>8. second' \in Nat /\ second <= second'
    BY <1>1 DEF CacheTypeOK
  <1>9. CacheInv'
    BY <1>1, <1>5, <1>6, <1>7, <1>8, CalmStep
  <1>10. CacheTypeOK'
    BY <1>1, <1>5 DEF CacheTypeOK
  <1> QED BY <1>9, <1>10

LEMMA CloseVictimKeeps ==
  ASSUME CacheTypeOK, CacheInv, NEW t \in Turns, CloseVictim(t)
  PROVE  CacheTypeOK' /\ CacheInv'
  <1> DEFINE vs == turn[t].victims
             n == Head(vs)
             r == [turn[t] EXCEPT !.victims = Tail(vs)]
  <1>1. /\ vs # <<>> /\ Closed(n) /\ turn' = [turn EXCEPT ![t] = r]
        /\ UNCHANGED <<second, saved, saves, saving, entries>>
    BY DEF CloseVictim
  <1>2. turn[t] \in TurnRecord
    BY DEF CacheTypeOK
  <1>3. vs \in Seq(1 .. MaxClients)
    BY <1>2 DEF TurnRecord
  <1>4. /\ n \in Range(vs) /\ Tail(vs) \in Seq(1 .. MaxClients)
        /\ \A e \in Range(Tail(vs)) : e \in Range(vs)
    <2> HIDE DEF vs
    <2> QED BY <1>1, <1>3, TailIsLess
  <1>5. n \in ThrownOut
    BY <1>4, ThrownParts
  <1>6. n \in DOMAIN clients
    BY <1>5 DEF CacheInv, ThrownForACause
  <1>7. /\ r \in TurnRecord /\ r.pc = turn[t].pc /\ r.bot = turn[t].bot /\ r.loaded = turn[t].loaded
        /\ r.client = turn[t].client /\ r.victims = Tail(vs)
    BY <1>2, <1>4 DEF TurnRecord
  <1> HIDE DEF r, n
  <1>8. /\ r.pc = "loaded" => r.bot \in Chatbots /\ r.loaded \in Configurations
        /\ r.client \in {0} \cup DOMAIN clients
    BY <1>7 DEF CacheTypeOK, CacheInv
  <1>9. Range(r.victims) \subseteq Range(turn[t].victims)
    BY <1>4, <1>7
  <1>10. /\ turn' \in [Turns -> TurnRecord]
         /\ \A u \in Turns :
              /\ turn'[u].pc = "loaded" =>
                   turn'[u].bot \in Chatbots /\ turn'[u].loaded \in Configurations
              /\ turn'[u].client \in {0} \cup DOMAIN clients
              /\ Range(turn'[u].victims) \subseteq Range(turn[u].victims)
    BY <1>1, <1>7, <1>8, <1>9, TurnMoves
  <1>11. /\ clients' \in Seq(ClientRecord) /\ Len(clients') = Len(clients)
         /\ DOMAIN clients' = DOMAIN clients
         /\ \A x \in DOMAIN clients :
              /\ clients'[x].config = clients[x].config /\ clients'[x].expires = clients[x].expires
              /\ clients'[x].takers = clients[x].takers /\ clients'[x].since = clients[x].since
              /\ clients'[x].disowned = clients[x].disowned
              /\ x # n => clients'[x].closed = clients[x].closed
    BY <1>1, <1>6, ClosedIs
  <1>12. ThrownOut' \subseteq ThrownOut
    <2>1. \A x \in DOMAIN clients' : clients'[x].closed => x \in ThrownOut
      BY <1>5, <1>11, ThrownParts
    <2> QED BY <1>1, <1>10, <2>1, ThrownNoMore
  <1>13. ClosingHasVictims'
    BY <1>1 DEF CacheInv, ClosingHasVictims
  <1>14. second' \in Nat /\ second <= second'
    BY <1>1 DEF CacheTypeOK
  <1>15. CacheInv'
    BY <1>1, <1>10, <1>11, <1>12, <1>13, <1>14, CalmStep
  <1>16. CacheTypeOK'
    BY <1>1, <1>10, <1>11 DEF CacheTypeOK
  <1> QED BY <1>15, <1>16

LEMMA TickKeeps ==
  ASSUME CacheTypeOK, CacheInv, Tick
  PROVE  CacheTypeOK' /\ CacheInv'
  <1>1. second' = second + 1 /\ UNCHANGED <<saved, saves, saving, entries, clients, turn>>
    BY DEF Tick
  <1>2. second' \in Nat /\ second <= second'
    BY <1>1 DEF CacheTypeOK
  <1>3. ThrownOut' \subseteq ThrownOut
    BY <1>1 DEF ThrownOut
  <1>4. ClosingHasVictims' /\ \A u \in Turns : turn'[u].client \in {0} \cup DOMAIN clients
    BY <1>1 DEF CacheInv, ClosingHasVictims
  <1>5. CacheInv'
    BY <1>1, <1>2, <1>3, <1>4, CalmStep
  <1>6. CacheTypeOK'
    BY <1>1, <1>2 DEF CacheTypeOK
  <1> QED BY <1>5, <1>6

\* What is said of a save that is not the one that moves.
LEMMA SavingMoves ==
  ASSUME CacheTypeOK, CacheInv, NEW c \in Chatbots, NEW r \in SaveRecord,
         saving' = [saving EXCEPT ![c] = r],
         r.pc = "closing" => r.victims # <<>>
  PROVE  /\ saving' \in [Chatbots -> SaveRecord]
         /\ saving'[c] = r /\ \A x \in Chatbots : x # c => saving'[x] = saving[x]
         /\ ClosingHasVictims'
  <1>1. saving \in [Chatbots -> SaveRecord]
    BY DEF CacheTypeOK
  <1>2. /\ saving' \in [Chatbots -> SaveRecord]
        /\ saving'[c] = r /\ \A x \in Chatbots : x # c => saving'[x] = saving[x]
    BY <1>1
  <1>3. \A x \in Chatbots : saving[x].pc = "closing" => saving[x].victims # <<>>
    BY DEF CacheInv, ClosingHasVictims
  <1>4. \A x \in Chatbots : saving'[x].pc = "closing" => saving'[x].victims # <<>>
    BY <1>2, <1>3
  <1> QED BY <1>2, <1>4 DEF ClosingHasVictims

LEMMA SaveKeeps ==
  ASSUME CacheTypeOK, CacheInv, NEW c \in Chatbots, NEW k \in Configurations, Save(c, k)
  PROVE  CacheTypeOK' /\ CacheInv'
  <1> DEFINE r == [saving[c] EXCEPT !.pc = "committed"]
  <1>1. /\ saves' = saves + 1 /\ saved' = [saved EXCEPT ![c] = k]
        /\ saving' = [saving EXCEPT ![c] = r] /\ UNCHANGED <<second, entries, clients, turn>>
    BY DEF Save
  <1>2. saving[c] \in SaveRecord
    BY DEF CacheTypeOK
  <1>3. r \in SaveRecord /\ r.pc = "committed" /\ r.victims = saving[c].victims
    BY <1>2 DEF SaveRecord
  <1> HIDE DEF r
  <1>4. /\ saving' \in [Chatbots -> SaveRecord]
        /\ saving'[c] = r /\ \A x \in Chatbots : x # c => saving'[x] = saving[x]
        /\ ClosingHasVictims'
    BY <1>1, <1>3, SavingMoves
  <1>5. \A x \in Chatbots : Range(saving'[x].victims) \subseteq Range(saving[x].victims)
    <2>1. \A x \in Chatbots : saving'[x].victims = saving[x].victims
      BY <1>3, <1>4
    <2> QED BY <2>1
  <1>6. ThrownOut' \subseteq ThrownOut
    BY <1>1, <1>5, ThrownNoMore, ThrownParts
  <1>7. second' \in Nat /\ second <= second' /\ \A u \in Turns : turn'[u].client \in {0} \cup DOMAIN clients
    BY <1>1 DEF CacheTypeOK, CacheInv
  <1>8. CacheInv'
    BY <1>1, <1>4, <1>6, <1>7, CalmStep
  <1>9. CacheTypeOK'
    BY <1>1, <1>4 DEF CacheTypeOK
  <1> QED BY <1>8, <1>9

LEMMA CloseDroppedKeeps ==
  ASSUME CacheTypeOK, CacheInv, NEW c \in Chatbots, CloseDropped(c)
  PROVE  CacheTypeOK' /\ CacheInv'
  <1> DEFINE vs == saving[c].victims
             n == Head(vs)
             r == IF Len(vs) = 1 THEN NotSaving ELSE [saving[c] EXCEPT !.victims = Tail(vs)]
  <1>1. /\ saving[c].pc = "closing" /\ Closed(n) /\ saving' = [saving EXCEPT ![c] = r]
        /\ UNCHANGED <<second, saved, saves, entries, turn>>
    <2>1. saving \in [Chatbots -> SaveRecord]
      BY DEF CacheTypeOK
    <2> QED BY <2>1 DEF CloseDropped
  <1>2. saving[c] \in SaveRecord
    BY DEF CacheTypeOK
  <1>3. vs \in Seq(1 .. MaxClients) /\ vs # <<>>
    BY <1>1, <1>2 DEF SaveRecord, CacheInv, ClosingHasVictims
  <1>4. /\ n \in Range(vs) /\ Tail(vs) \in Seq(1 .. MaxClients) /\ Len(Tail(vs)) = Len(vs) - 1
        /\ \A e \in Range(Tail(vs)) : e \in Range(vs)
    <2> HIDE DEF vs
    <2> QED BY <1>3, TailIsLess
  <1>5. n \in ThrownOut
    BY <1>4, ThrownParts
  <1>6. n \in DOMAIN clients
    BY <1>5 DEF CacheInv, ThrownForACause
  <1>7. /\ r \in SaveRecord /\ (r.pc = "closing" => r.victims # <<>>)
        /\ Range(r.victims) \subseteq Range(vs)
    <2>1. CASE Len(vs) = 1
      <3>1. r = NotSaving /\ <<>> \in Seq(1 .. MaxClients)
        BY <2>1
      <3>2. Range(<<>>) = {}
        BY DEF Range
      <3>3. NotSaving \in SaveRecord /\ NotSaving.pc = "none" /\ NotSaving.victims = <<>>
        BY <3>1 DEF NotSaving, SaveRecord
      <3> HIDE DEF r
      <3> QED BY <3>1, <3>2, <3>3
    <2>2. CASE Len(vs) # 1
      <3> DEFINE q == [saving[c] EXCEPT !.victims = Tail(vs)]
      <3>1. r = q
        BY <2>2
      <3> HIDE DEF r
      <3>2. q \in SaveRecord /\ q.victims = Tail(vs)
        BY <1>2, <1>4 DEF SaveRecord
      <3> HIDE DEF q, vs
      <3>3. Len(Tail(vs)) # 0
        <4>1. Len(vs) \in Nat
          BY <1>3
        <4> QED BY <1>4, <2>2, <4>1
      <3>4. Tail(vs) # <<>>
        <4>1. Len(<<>>) = 0
          OBVIOUS
        <4> QED BY <3>3, <4>1
      <3>5. Range(Tail(vs)) \subseteq Range(vs)
        BY <1>4
      <3> QED BY <3>1, <3>2, <3>4, <3>5
    <2> QED BY <2>1, <2>2
  <1> HIDE DEF r, n
  <1>8. /\ saving' \in [Chatbots -> SaveRecord]
        /\ saving'[c] = r /\ \A x \in Chatbots : x # c => saving'[x] = saving[x]
        /\ ClosingHasVictims'
    BY <1>1, <1>7, SavingMoves
  <1>9. \A x \in Chatbots : Range(saving'[x].victims) \subseteq Range(saving[x].victims)
    BY <1>7, <1>8
  <1>10. /\ clients' \in Seq(ClientRecord) /\ Len(clients') = Len(clients)
         /\ DOMAIN clients' = DOMAIN clients
         /\ \A x \in DOMAIN clients :
              /\ clients'[x].config = clients[x].config /\ clients'[x].expires = clients[x].expires
              /\ clients'[x].takers = clients[x].takers /\ clients'[x].since = clients[x].since
              /\ clients'[x].disowned = clients[x].disowned
              /\ x # n => clients'[x].closed = clients[x].closed
    BY <1>1, <1>6, ClosedIs
  <1>11. ThrownOut' \subseteq ThrownOut
    <2>1. \A x \in DOMAIN clients' : clients'[x].closed => x \in ThrownOut
      BY <1>5, <1>10, ThrownParts
    <2> QED BY <1>1, <1>9, <2>1, ThrownNoMore
  <1>12. second' \in Nat /\ second <= second' /\ \A u \in Turns : turn'[u].client \in {0} \cup DOMAIN clients
    BY <1>1 DEF CacheTypeOK, CacheInv
  <1>13. CacheInv'
    BY <1>1, <1>8, <1>10, <1>11, <1>12, CalmStep
  <1>14. CacheTypeOK'
    BY <1>1, <1>8, <1>10 DEF CacheTypeOK
  <1> QED BY <1>13, <1>14

\* A save drops the clients its chatbot has taken, whoever else has.
LEMMA InvalidateKeeps ==
  ASSUME CacheTypeOK, CacheInv, NEW c \in Chatbots, Invalidate(c)
  PROVE  CacheTypeOK' /\ CacheInv'
  <1> DEFINE doomed == {e \in Range(entries) : Drops(c, e)}
             kept == Kept(entries, doomed)
             vs == Clients(kept)
             r == [pc |-> IF doomed = {} THEN "none" ELSE "closing", victims |-> vs]
  <1>1. /\ saving' = [saving EXCEPT ![c] = r] /\ entries' = Dropped(entries, doomed)
        /\ clients' = [n \in DOMAIN clients |->
              [clients[n] EXCEPT !.disowned = @ \/ c \in clients[n].takers]]
        /\ UNCHANGED <<second, saved, saves, turn>>
    BY DEF Invalidate
  <1>2. /\ entries \in Seq(EntryRecord) /\ clients \in Seq(ClientRecord) /\ Len(clients) <= MaxClients
        /\ LaterIsSince(entries, clients) /\ \A e \in Range(entries) : EntryOfClient(e, clients)
    BY DEF CacheTypeOK, CacheInv
  <1>3. kept \in Seq(EntryRecord) /\ \A e : e \in Range(kept) <=> e \in Range(entries) /\ e \in doomed
    <2> HIDE DEF doomed
    <2> QED BY <1>2, KeptIs
  <1>4. /\ entries' \in Seq(EntryRecord) /\ LaterIsSince(entries', clients)
        /\ \A e : e \in Range(entries') <=> e \in Range(entries) /\ e \notin doomed
    <2> HIDE DEF doomed
    <2>1. Dropped(entries, doomed) \in Seq(EntryRecord)
            /\ \A e : e \in Range(Dropped(entries, doomed)) <=> e \in Range(entries) /\ e \notin doomed
      BY <1>2, DroppedIs
    <2>2. LaterIsSince(Dropped(entries, doomed), clients)
      BY <1>2, KeptInOrder DEF Dropped
    <2> QED BY <1>1, <2>1, <2>2
  <1>5. /\ DOMAIN clients' = DOMAIN clients /\ clients' \in Seq(ClientRecord)
        /\ Len(clients') = Len(clients)
        /\ \A n \in DOMAIN clients :
              /\ clients'[n].config = clients[n].config /\ clients'[n].expires = clients[n].expires
              /\ clients'[n].takers = clients[n].takers /\ clients'[n].since = clients[n].since
              /\ clients'[n].closed = clients[n].closed
              /\ clients'[n].disowned <=> (clients[n].disowned \/ c \in clients[n].takers)
    <2>1. ASSUME NEW n \in DOMAIN clients
          PROVE  /\ clients'[n] \in ClientRecord
                 /\ clients'[n].config = clients[n].config /\ clients'[n].expires = clients[n].expires
                 /\ clients'[n].takers = clients[n].takers /\ clients'[n].since = clients[n].since
                 /\ clients'[n].closed = clients[n].closed
                 /\ clients'[n].disowned <=> (clients[n].disowned \/ c \in clients[n].takers)
      <3> DEFINE b == clients[n].disowned \/ c \in clients[n].takers
                 q == [clients[n] EXCEPT !.disowned = b]
      <3>1. clients'[n] = q
        BY <1>1
      <3>2. clients[n] \in ClientRecord
        BY <1>2
      <3>3. b \in BOOLEAN
        OBVIOUS
      <3> HIDE DEF b
      <3>4. /\ q \in ClientRecord /\ q.config = clients[n].config /\ q.expires = clients[n].expires
            /\ q.takers = clients[n].takers /\ q.since = clients[n].since
            /\ q.closed = clients[n].closed /\ q.disowned = b
        BY <3>2, <3>3 DEF ClientRecord
      <3> HIDE DEF q
      <3>5. clients'[n].disowned <=> b
        BY <3>1, <3>4
      <3> QED BY <3>1, <3>4, <3>5 DEF b
    <2>2. DOMAIN clients' = 1 .. Len(clients) /\ Len(clients) \in Nat
            /\ clients' = [n \in 1 .. Len(clients) |-> clients'[n]]
      BY <1>1, <1>2
    <2>3. clients' \in Seq(ClientRecord) /\ Len(clients') = Len(clients)
      BY <1>2, <2>1, <2>2
    <2> QED BY <1>1, <2>1, <2>3
  <1>6. /\ vs \in Seq(1 .. MaxClients)
        /\ \A n \in Range(vs) : \E e \in Range(kept) : n = e.client
    <2> HIDE DEF kept
    <2> QED BY <1>3, ClientsIs
  <1>7. doomed # {} => vs # <<>>
    <2> SUFFICES ASSUME NEW e \in doomed PROVE vs # <<>>
      OBVIOUS
    <2>1. e \in Range(kept)
      BY <1>3
    <2>2. DOMAIN vs = DOMAIN kept
      BY DEF Clients
    <2>3. DOMAIN vs # {}
      BY <2>1, <2>2 DEF Range
    <2> HIDE DEF vs
    <2> QED BY <2>3
  <1> HIDE DEF vs
  <1>8. r \in SaveRecord /\ r.victims = vs /\ (r.pc = "closing" => r.victims # <<>>)
    <2> HIDE DEF doomed
    <2> QED BY <1>6, <1>7 DEF SaveRecord
  <1> HIDE DEF r
  <1>9. /\ saving' \in [Chatbots -> SaveRecord]
        /\ saving'[c] = r /\ \A x \in Chatbots : x # c => saving'[x] = saving[x]
        /\ ClosingHasVictims'
    BY <1>1, <1>8, SavingMoves
  <1> HIDE DEF kept
  <1>10. \A e \in Range(entries') : EntryOfClient(e, clients')
    <2> TAKE e \in Range(entries')
    <2>1. EntryOfClient(e, clients)
      BY <1>2, <1>4
    <2> QED BY <1>5, <2>1 DEF EntryOfClient
  <1>11. LaterIsSince(entries', clients')
    <2> SUFFICES ASSUME NEW i \in DOMAIN entries', NEW j \in DOMAIN entries', i < j
                 PROVE  /\ entries'[i].key # entries'[j].key
                        /\ entries'[j].key \in clients'[entries'[i].client].since
      BY DEF LaterIsSince
    <2>1. /\ entries'[i].key # entries'[j].key
          /\ entries'[j].key \in clients[entries'[i].client].since
      BY <1>4 DEF LaterIsSince
    <2>2. entries'[i] \in Range(entries')
      BY DEF Range
    <2>3. entries'[i].client \in DOMAIN clients
      BY <1>5, <1>10, <2>2 DEF EntryOfClient
    <2> QED BY <1>5, <2>1, <2>3
  <1>12. \A n \in DOMAIN clients' : IsFiniteSet(clients'[n].since)
    BY <1>5 DEF CacheInv
  <1>13. ASSUME NEW n \in ThrownOut
         PROVE  n \in DOMAIN clients' /\ Caused(n, clients', second) /\ \A e \in Range(entries') : e.client # n
    <2>1. \A e \in Range(entries) : e.client # n
      BY DEF CacheInv, ThrownForACause
    <2>2. \A x \in DOMAIN clients :
            /\ clients'[x].expires = clients[x].expires
            /\ clients[x].disowned => clients'[x].disowned
            /\ IsFiniteSet(clients'[x].since)
            /\ (x \in ThrownOut => clients[x].since \subseteq clients'[x].since)
      BY <1>5, <1>12
    <2>3. second' \in Nat /\ second <= second' /\ second' = second
      BY <1>1 DEF CacheTypeOK
    <2>4. n \in DOMAIN clients' /\ Caused(n, clients', second')
      BY <1>5, <2>2, <2>3, ThrownStays
    <2> QED BY <1>4, <2>1, <2>3, <2>4
  <1>14. ASSUME NEW n \in Range(vs)
         PROVE  n \in DOMAIN clients' /\ Caused(n, clients', second) /\ \A e \in Range(entries') : e.client # n
    <2>1. PICK e \in Range(kept) : n = e.client
      BY <1>6
    <2>2. e \in Range(entries) /\ c \in e.owners
      BY <1>3 DEF Drops
    <2>3. n \in DOMAIN clients /\ clients[n].config = e.key /\ e.owners \subseteq clients[n].takers
      BY <1>2, <2>1, <2>2 DEF EntryOfClient
    <2>4. clients'[n].disowned
      BY <1>5, <2>2, <2>3
    <2>5. ASSUME NEW f \in Range(entries') PROVE f.client # n
      <3>1. f \in Range(entries) /\ f # e
        BY <1>3, <1>4
      <3>2. f.key # e.key
        BY <1>2, <2>2, <3>1, OneOfAKey
      <3>3. clients[f.client].config = f.key
        BY <1>2, <3>1 DEF EntryOfClient
      <3> QED BY <2>3, <3>2, <3>3
    <2> QED BY <1>5, <2>3, <2>4, <2>5 DEF Caused
  <1>15. \A n \in ThrownOut' : n \in ThrownOut \/ n \in Range(vs)
    <2> TAKE n \in ThrownOut'
    <2>1. \/ n \in DOMAIN clients' /\ clients'[n].closed
          \/ \E u \in Turns : n \in Range(turn'[u].victims)
          \/ \E x \in Chatbots : n \in Range(saving'[x].victims)
      BY DEF ThrownOut
    <2>2. CASE n \in DOMAIN clients' /\ clients'[n].closed
      BY <1>5, <2>2, ThrownParts
    <2>3. CASE \E u \in Turns : n \in Range(turn'[u].victims)
      BY <1>1, <2>3, ThrownParts
    <2>4. CASE \E x \in Chatbots : n \in Range(saving'[x].victims)
      <3>1. PICK x \in Chatbots : n \in Range(saving'[x].victims)
        BY <2>4
      <3>2. CASE x = c
        BY <1>8, <1>9, <3>1, <3>2
      <3>3. CASE x # c
        BY <1>9, <3>1, <3>3, ThrownParts
      <3> QED BY <3>2, <3>3
    <2> QED BY <2>1, <2>2, <2>3, <2>4
  <1>16. ThrownForACause'
    <2> SUFFICES ASSUME NEW n \in ThrownOut'
                 PROVE  /\ n \in DOMAIN clients' /\ Caused(n, clients', second')
                        /\ \A e \in Range(entries') : e.client # n
      BY DEF ThrownForACause
    <2> QED BY <1>1, <1>13, <1>14, <1>15
  <1>17. CacheInv'
    BY <1>1, <1>5, <1>9, <1>10, <1>11, <1>12, <1>16 DEF CacheInv
  <1>18. CacheTypeOK'
    BY <1>1, <1>2, <1>4, <1>5, <1>9 DEF CacheTypeOK
  <1> QED BY <1>17, <1>18

-----------------------------------------------------------------------------
LEMMA CacheHolds == CacheSpec => [](CacheTypeOK /\ CacheInv)
  <1>1. CacheInit => CacheTypeOK /\ CacheInv
    <2> SUFFICES ASSUME CacheInit PROVE CacheTypeOK /\ CacheInv
      OBVIOUS
    <2>1. /\ second = 0 /\ saved \in [Chatbots -> Configurations] /\ saves = 0
          /\ saving = [c \in Chatbots |-> NotSaving] /\ entries = <<>> /\ clients = <<>>
          /\ turn = [t \in Turns |-> NoTurn]
      BY DEF CacheInit
    <2>2. <<>> \in Seq(1 .. MaxClients) /\ 0 \in 0 .. MaxClients
      BY CacheAssumption
    <2>3. NoTurn \in TurnRecord /\ NoTurn.pc = "idle" /\ NoTurn.client = 0 /\ NoTurn.victims = <<>>
      BY <2>2 DEF NoTurn, TurnRecord
    <2>4. NotSaving \in SaveRecord /\ NotSaving.pc = "none" /\ NotSaving.victims = <<>>
      BY <2>2 DEF NotSaving, SaveRecord
    <2>5. Range(<<>>) = {} /\ DOMAIN <<>> = {}
      BY DEF Range
    <2>6. turn \in [Turns -> TurnRecord] /\ saving \in [Chatbots -> SaveRecord]
      BY <2>1, <2>3, <2>4
    <2>7. clients \in Seq(ClientRecord) /\ Len(clients) <= MaxClients /\ entries \in Seq(EntryRecord)
      BY <2>1, CacheAssumption
    <2>8. \A t \in Turns : turn[t].pc = "idle" /\ turn[t].client = 0 /\ turn[t].victims = <<>>
      BY <2>1, <2>3
    <2>9. \A c \in Chatbots : saving[c].pc = "none" /\ saving[c].victims = <<>>
      BY <2>1, <2>4
    <2>10. CacheTypeOK
      BY <2>1, <2>6, <2>7, <2>8 DEF CacheTypeOK
    <2>11. \A n : n \notin ThrownOut
      BY <2>1, <2>5, <2>8, <2>9, ThrownParts
    <2>12. CacheInv
      BY <2>1, <2>5, <2>8, <2>9, <2>11 DEF CacheInv, LaterIsSince, ThrownForACause, ClosingHasVictims
    <2> QED BY <2>10, <2>12
  <1>2. (CacheTypeOK /\ CacheInv) /\ [CacheNext]_cacheVars => (CacheTypeOK /\ CacheInv)'
    <2> SUFFICES ASSUME CacheTypeOK, CacheInv, [CacheNext]_cacheVars
                 PROVE  (CacheTypeOK /\ CacheInv)'
      OBVIOUS
    <2>1. ASSUME NEW t \in Turns, NEW c \in Chatbots, Load(t, c) PROVE (CacheTypeOK /\ CacheInv)'
      BY <2>1, LoadKeeps
    <2>2. ASSUME NEW t \in Turns, Take(t) PROVE (CacheTypeOK /\ CacheInv)'
      BY <2>2, TakeKeeps
    <2>3. ASSUME NEW t \in Turns, CloseVictim(t) PROVE (CacheTypeOK /\ CacheInv)'
      BY <2>3, CloseVictimKeeps
    <2>4. ASSUME NEW t \in Turns, Leave(t) PROVE (CacheTypeOK /\ CacheInv)'
      BY <2>4, LeaveKeeps
    <2>5. ASSUME NEW c \in Chatbots, NEW k \in Configurations, Save(c, k)
          PROVE (CacheTypeOK /\ CacheInv)'
      BY <2>5, SaveKeeps
    <2>6. ASSUME NEW c \in Chatbots, Invalidate(c) PROVE (CacheTypeOK /\ CacheInv)'
      BY <2>6, InvalidateKeeps
    <2>7. ASSUME NEW c \in Chatbots, CloseDropped(c) PROVE (CacheTypeOK /\ CacheInv)'
      BY <2>7, CloseDroppedKeeps
    <2>8. CASE Tick
      BY <2>8, TickKeeps
    <2>9. CASE UNCHANGED cacheVars
      BY <2>9 DEF cacheVars, CacheTypeOK, CacheInv, ThrownForACause, ThrownOut, ClosingHasVictims
    <2> QED BY <2>1, <2>2, <2>3, <2>4, <2>5, <2>6, <2>7, <2>8, <2>9 DEF CacheNext
  <1> QED BY <1>1, <1>2, PTL DEF CacheSpec

\* THEOREM.  The variables of the client cache stay in their types, and a turn that has loaded
\* its configuration has one to take a client of (clients.py, factory.py).
THEOREM CacheTypeCorrect == CacheSpec => []CacheTypeOK
PROOF
  <1>1. (CacheTypeOK /\ CacheInv) => CacheTypeOK
    OBVIOUS
  <1> QED BY <1>1, CacheHolds, PTL

\* THEOREM.  Whatever the capacity, the turns and the saves, a client that has been closed under
\* the turn that holds it is past its time, or has been followed by as many other configurations
\* as the cache holds, or has been dropped by a save of a chatbot that had taken it.
THEOREM ClosedForACauseHolds == CacheSpec => []ClosedForACause
PROOF
  <1>1. (CacheTypeOK /\ CacheInv) => ClosedForACause
    <2> SUFFICES ASSUME CacheTypeOK, CacheInv, NEW t \in Turns,
                        turn[t].client # 0, clients[turn[t].client].closed
                 PROVE  Caused(turn[t].client, clients, second)
      BY DEF ClosedForACause, Caused
    <2>1. turn[t].client \in DOMAIN clients
      BY DEF CacheInv
    <2>2. turn[t].client \in ThrownOut
      BY <2>1, ThrownParts
    <2> QED BY <2>2 DEF CacheInv, ThrownForACause
  <1> QED BY <1>1, CacheHolds, PTL

-----------------------------------------------------------------------------
(* The reasoning filter.                                                     *)

\* A set of naturals has a least member.
LEMMA LeastOf ==
    ASSUME NEW T, T \subseteq Nat, T # {}
    PROVE  /\ Min(T) \in T
           /\ \A y \in T : Min(T) <= y
<1> DEFINE R == OpToRel(<, Nat)
<1>1. \E x \in T : \A y \in T : ~ (<<y, x>> \in R)
  <2>1. IsWellFoundedOn(R, Nat)
    BY NatLessThanWellFounded
  <2> HIDE DEF R
  <2> QED BY <2>1, WFMin
<1>2. PICK x \in T : \A y \in T : ~ (<<y, x>> \in R)
  BY <1>1
<1>3. \A y \in T : x <= y
  <2>1. ASSUME NEW y \in T, y < x PROVE FALSE
    <3>1. <<y, x>> \in R
      BY <2>1 DEF OpToRel
    <3> QED BY <1>2, <3>1
  <2>2. \A y \in T : y \in Nat /\ x \in Nat
    OBVIOUS
  <2> HIDE DEF R
  <2> QED BY <2>1, <2>2
<1> HIDE DEF R
<1> QED BY <1>3 DEF Min

\* Induction on what is smaller, for a set of naturals.
LEMMA BelowInduction ==
    ASSUME NEW B, \A n \in Nat : (\A m \in Nat : m < n => m \in B) => n \in B
    PROVE  \A n \in Nat : n \in B
<1> DEFINE D == Nat \ B
<1>1. ASSUME D # {} PROVE FALSE
  <2>1. D \subseteq Nat
    OBVIOUS
  <2> HIDE DEF D
  <2>2. Min(D) \in D /\ \A y \in D : Min(D) <= y
    BY <1>1, <2>1, LeastOf
  <2>3. \A m \in Nat : m < Min(D) => m \in B
    BY <2>1, <2>2 DEF D
  <2> QED BY <2>2, <2>3 DEF D
<1> QED BY <1>1

\* A set of naturals with a bound has a greatest member.
LEMMA GreatestOf ==
    ASSUME NEW N \in Nat, NEW T, T \subseteq 0..N, T # {}
    PROVE  /\ Max(T) \in T
           /\ \A y \in T : y <= Max(T)
<1> DEFINE U == {n \in Nat : \A y \in T : y <= n}
<1>1. N \in U /\ U \subseteq Nat
  OBVIOUS
<1>2. Min(U) \in U /\ \A n \in U : Min(U) <= n
  <2> HIDE DEF U
  <2> QED BY <1>1, LeastOf
<1>3. Min(U) \in T
  <2> DEFINE m == Min(U)
  <2>1. m \in Nat /\ \A y \in T : y <= m
    BY <1>2
  <2>2. ASSUME m \notin T PROVE FALSE
    <3>1. \A y \in T : y \in Nat /\ y # m
      BY <2>2
    <3>2. \A y \in T : y <= m - 1
      <4> HIDE DEF m
      <4> QED BY <2>1, <3>1
    <3>3. m - 1 \in Nat
      <4>1. PICK y \in T : y \in Nat /\ y <= m - 1
        BY <3>1, <3>2
      <4> HIDE DEF m, U
      <4> QED BY <2>1, <4>1
    <3>4. m - 1 \in U
      <4> HIDE DEF m
      <4> QED BY <3>2, <3>3
    <3>5. m <= m - 1
      BY <1>2, <3>4
    <3> HIDE DEF m
    <3> QED BY <2>1, <3>5
  <2> QED BY <2>2
<1> HIDE DEF U
<1>4. \E m \in T : \A y \in T : y <= m
  BY <1>2, <1>3 DEF U
<1>5. \E m \in T : \A y \in T : m >= y
  BY <1>4
<1>6. Max(T) \in T /\ \A y \in T : Max(T) >= y
  BY <1>5 DEF Max
<1> QED BY <1>6

\* A function that is defined at d by its value at next[d], which is smaller, exists: what the
\* provers need to be told of every recursive function below.
Descends(D, V, size, final, next, start, join) ==
    /\ size \in [D -> Nat] /\ next \in [D -> D] /\ start \in [D -> V] /\ join \in [D \X V -> V]
    /\ \A d \in D : d \notin final => size[next[d]] < size[d]

LEMMA RecursionDefines ==
    ASSUME NEW D, NEW V, NEW size, NEW final, NEW next, NEW start, NEW join,
           Descends(D, V, size, final, next, start, join)
    PROVE  \E f \in [D -> V] :
              \A d \in D : f[d] = IF d \in final THEN start[d] ELSE join[<<d, f[next[d]]>>]
<1>d. /\ size \in [D -> Nat] /\ next \in [D -> D] /\ start \in [D -> V] /\ join \in [D \X V -> V]
      /\ \A d \in D : d \notin final => size[next[d]] < size[d]
  BY DEF Descends
<1> DEFINE Step(f, d) == IF d \in final THEN start[d] ELSE join[<<d, f[next[d]]>>]
           Good(n, f) == f \in [D -> V] /\ \A d \in D : size[d] < n => f[d] = Step(f, d)
<1>0. \A f \in [D -> V], d \in D : Step(f, d) \in V
  BY <1>d
<1>s. \A f, g, d : (d \in D /\ d \notin final => f[next[d]] = g[next[d]]) /\ d \in D
                     => Step(f, d) = Step(g, d)
  OBVIOUS
<1>n. \A d \in D : size[d] \in Nat /\ next[d] \in D
  BY <1>d
<1> HIDE DEF Step
\* Two that follow the definition up to a size agree up to it.
<1>1. \A n \in Nat : \A f, g : Good(n, f) /\ Good(n, g) =>
         \A d \in D : size[d] < n => f[d] = g[d]
  <2> TAKE n \in Nat
  <2> TAKE f, g
  <2>1. HAVE Good(n, f) /\ Good(n, g)
  <2> DEFINE B == {m \in Nat : \A d \in D : size[d] = m /\ m < n => f[d] = g[d]}
  <2>2. ASSUME NEW m \in Nat, \A k \in Nat : k < m => k \in B PROVE m \in B
    <3>1. ASSUME NEW d \in D, size[d] = m, m < n PROVE f[d] = g[d]
      <4>1. CASE d \in final
        BY <2>1, <3>1, <4>1 DEF Step
      <4>2. CASE d \notin final
        <5>1. size[next[d]] < m /\ size[next[d]] \in Nat /\ next[d] \in D
          BY <1>d, <1>n, <3>1, <4>2
        <5>2. size[next[d]] \in B /\ size[next[d]] < n
          BY <2>2, <3>1, <5>1
        <5>3. f[next[d]] = g[next[d]]
          BY <5>1, <5>2
        <5>4. Step(f, d) = Step(g, d)
          BY <1>s, <5>3
        <5> QED BY <2>1, <3>1, <5>4
      <4> QED BY <4>1, <4>2
    <3> QED BY <3>1
  <2> HIDE DEF B
  <2>3. \A m \in Nat : m \in B
    BY <2>2, BelowInduction
  <2> QED BY <1>n, <2>3 DEF B
\* For every size there is one that follows the definition up to it.
<1>2. \A n \in Nat : \E f : Good(n, f)
  <2> DEFINE B == {n \in Nat : \E f : Good(n, f)}
  <2>1. ASSUME NEW n \in Nat, \A m \in Nat : m < n => m \in B PROVE n \in B
    <3>1. CASE n = 0
      <4>1. Good(0, start)
        BY <1>d, <1>n
      <4> HIDE DEF Good
      <4> QED BY <3>1, <4>1
    <3>2. CASE n # 0
      <4>1. n - 1 \in Nat /\ n - 1 < n
        BY <3>2
      <4>2. n - 1 \in B
        BY <2>1, <4>1
      <4>3. PICK f : Good(n - 1, f)
        BY <4>2
      <4> DEFINE g == [d \in D |-> IF size[d] = n - 1 THEN Step(f, d) ELSE f[d]]
      <4>4. g \in [D -> V]
        BY <1>0, <4>3
      <4>5. ASSUME NEW d \in D, size[d] < n PROVE g[d] = Step(g, d)
        <5>1. g[d] = Step(f, d)
          BY <1>n, <4>3, <4>5
        <5>2. d \notin final => g[next[d]] = f[next[d]]
          BY <1>d, <1>n, <4>1, <4>5
        <5> HIDE DEF g
        <5>3. Step(f, d) = Step(g, d)
          BY <1>s, <5>2
        <5> QED BY <5>1, <5>3
      <4> HIDE DEF g
      <4>6. Good(n, g)
        BY <4>4, <4>5
      <4> HIDE DEF Good
      <4> QED BY <4>6
    <3> QED BY <3>1, <3>2
  <2> HIDE DEF B
  <2>2. \A n \in Nat : n \in B
    BY <2>1, BelowInduction
  <2> QED BY <2>2 DEF B
<1> DEFINE Nth(n) == CHOOSE f : Good(n, f)
           F == [d \in D |-> Nth(size[d] + 1)[d]]
<1>3. \A n \in Nat : Good(n, Nth(n))
  BY <1>2
<1> HIDE DEF Nth
<1>4. F \in [D -> V]
  <2>1. \A d \in D : size[d] + 1 \in Nat
    BY <1>n
  <2>2. \A d \in D : Nth(size[d] + 1) \in [D -> V]
    BY <1>3, <2>1
  <2> QED BY <2>2
<1>5. ASSUME NEW d \in D PROVE F[d] = Step(F, d)
  <2> DEFINE h == Nth(size[d] + 1)
  <2>1. size[d] + 1 \in Nat /\ size[d] < size[d] + 1
    BY <1>n
  <2>2. Good(size[d] + 1, h)
    BY <1>3, <2>1
  <2>3. F[d] = Step(h, d)
    BY <2>1, <2>2
  <2>4. ASSUME d \notin final PROVE F[next[d]] = h[next[d]]
    <3> DEFINE e == next[d]
               k == Nth(size[e] + 1)
    <3>1. e \in D /\ size[e] < size[d] /\ size[e] \in Nat /\ size[d] \in Nat
      BY <1>d, <1>n, <2>4
    <3>2. size[e] + 1 \in Nat /\ size[e] < size[e] + 1
      BY <3>1
    <3>3. Good(size[e] + 1, k)
      BY <1>3, <3>2
    <3>4. F[e] = k[e]
      BY <3>1
    <3> HIDE DEF e, k, h, F
    <3>5. Good(size[e] + 1, h)
      <4>1. \A x \in D : size[x] < size[e] + 1 => size[x] < size[d] + 1
        BY <1>n, <3>1
      <4> QED BY <2>2, <4>1
    <3> HIDE DEF Good
    <3>6. k[e] = h[e]
      BY <1>1, <3>1, <3>2, <3>3, <3>5
    <3> QED BY <3>4, <3>6 DEF e
  <2> HIDE DEF F, h
  <2>5. Step(F, d) = Step(h, d)
    BY <1>s, <2>4
  <2> QED BY <2>3, <2>5
<1> HIDE DEF F
<1> QED BY <1>4, <1>5 DEF Step

-----------------------------------------------------------------------------
\* `tag' stands in `s' at i.
At(s, tag, i) ==
    /\ i \in Nat \ {0}
    /\ i + Len(tag) - 1 <= Len(s)
    /\ \A j \in 1 .. Len(tag) : s[i + j - 1] = tag[j]

LEMMA PieceIs ==
    ASSUME NEW s \in Seq(Letters), NEW m \in Nat \ {0}, NEW n \in Nat,
           m <= n + 1, n <= Len(s)
    PROVE  /\ SubSeq(s, m, n) \in Seq(Letters)
           /\ Len(SubSeq(s, m, n)) = n - m + 1
           /\ \A i \in 1 .. n - m + 1 : SubSeq(s, m, n)[i] = s[m + i - 1]
<1>1. \A i \in m .. n : s[i] \in Letters
  BY ElementOfSeq
<1>2. m \in Int /\ n \in Int
  OBVIOUS
<1>3. /\ SubSeq(s, m, n) \in Seq(Letters)
      /\ Len(SubSeq(s, m, n)) = IF m <= n THEN n - m + 1 ELSE 0
      /\ \A i \in 1 .. n - m + 1 : SubSeq(s, m, n)[i] = s[m + i - 1]
  BY <1>1, <1>2, SubSeqProperties
<1> QED BY <1>3

LEMMA PlacesAre ==
    ASSUME NEW s \in Seq(Letters), NEW tag \in Seq(Letters), tag # <<>>
    PROVE  /\ \A i : i \in Places(s, tag) <=> At(s, tag, i)
           /\ Places(s, tag) \subseteq Nat
<1>0. Len(s) \in Nat /\ Len(tag) \in Nat \ {0}
  BY EmptySeq, LenProperties
<1>1. ASSUME NEW i \in Nat \ {0}, i + Len(tag) - 1 <= Len(s)
      PROVE  SubSeq(s, i, i + Len(tag) - 1) = tag
               <=> \A j \in 1 .. Len(tag) : s[i + j - 1] = tag[j]
  <2> DEFINE n == i + Len(tag) - 1
             c == SubSeq(s, i, n)
  <2>1. n \in Nat /\ i <= n + 1 /\ n - i + 1 = Len(tag)
    BY <1>0, <1>1
  <2>2. c \in Seq(Letters) /\ Len(c) = Len(tag) /\ \A j \in 1 .. Len(tag) : c[j] = s[i + j - 1]
    <3> HIDE DEF n
    <3> QED BY <2>1, <1>1, PieceIs DEF n
  <2> HIDE DEF c
  <2>3. (\A j \in 1 .. Len(tag) : c[j] = tag[j]) => c = tag
    BY <2>2, SeqEqual
  <2> QED BY <2>2, <2>3 DEF c
<1>2. \A i : i \in 1 .. Len(s) - Len(tag) + 1 <=> i \in Nat \ {0} /\ i + Len(tag) - 1 <= Len(s)
  BY <1>0
<1> QED BY <1>1, <1>2 DEF Places, At

\* What stands before and after the first place of a tag.
LEMMA FirstPlace ==
    ASSUME NEW s \in Seq(Letters), NEW tag \in Seq(Letters), tag # <<>>,
           NEW p, At(s, tag, p), \A q : At(s, tag, q) => p <= q
    PROVE  /\ Places(s, tag) # {}
           /\ Upto(s, tag) = SubSeq(s, 1, p - 1)
           /\ After(s, tag) = SubSeq(s, p + Len(tag), Len(s))
<1>1. Places(s, tag) # {} /\ p \in Places(s, tag) /\ \A q \in Places(s, tag) : p <= q
  BY PlacesAre
<1>2. Min(Places(s, tag)) = p
  <2>1. Places(s, tag) \subseteq Nat
    BY PlacesAre
  <2>2. Min(Places(s, tag)) \in Places(s, tag) /\ Min(Places(s, tag)) <= p
    BY <1>1, <2>1, LeastOf
  <2> QED BY <1>1, <2>1, <2>2
<1> QED BY <1>1, <1>2 DEF Upto, After

LEMMA SomeFirstPlace ==
    ASSUME NEW s \in Seq(Letters), NEW tag \in Seq(Letters), tag # <<>>, Places(s, tag) # {}
    PROVE  \E p : At(s, tag, p) /\ \A q : At(s, tag, q) => p <= q
<1>1. Places(s, tag) \subseteq Nat
  BY PlacesAre
<1>2. Min(Places(s, tag)) \in Places(s, tag) /\ \A q \in Places(s, tag) : Min(Places(s, tag)) <= q
  BY <1>1, LeastOf
<1> QED BY <1>2, PlacesAre

\* The parts are sequences, and what follows a tag is shorter.
LEMMA PartsAre ==
    ASSUME NEW s \in Seq(Letters), NEW tag \in Seq(Letters), tag # <<>>, Places(s, tag) # {}
    PROVE  /\ Upto(s, tag) \in Seq(Letters)
           /\ After(s, tag) \in Seq(Letters)
           /\ Len(After(s, tag)) < Len(s)
<1>0. Len(s) \in Nat /\ Len(tag) \in Nat \ {0}
  BY EmptySeq, LenProperties
<1>1. PICK p : At(s, tag, p) /\ \A q : At(s, tag, q) => p <= q
  BY SomeFirstPlace
<1>2. Upto(s, tag) = SubSeq(s, 1, p - 1) /\ After(s, tag) = SubSeq(s, p + Len(tag), Len(s))
  BY <1>1, FirstPlace
<1>3. /\ p \in Nat \ {0} /\ p + Len(tag) - 1 <= Len(s) /\ p - 1 \in Nat
      /\ p + Len(tag) \in Nat \ {0} /\ p + Len(tag) <= Len(s) + 1 /\ p - 1 <= Len(s)
  BY <1>0, <1>1 DEF At
<1>4. SubSeq(s, 1, p - 1) \in Seq(Letters)
  BY <1>0, <1>3, PieceIs
<1>5. /\ SubSeq(s, p + Len(tag), Len(s)) \in Seq(Letters)
      /\ Len(SubSeq(s, p + Len(tag), Len(s))) = Len(s) - (p + Len(tag)) + 1
  BY <1>0, <1>3, PieceIs
<1> QED BY <1>0, <1>2, <1>3, <1>4, <1>5

\* The first place of a tag is where it was, whatever follows.
LEMMA TagStays ==
    ASSUME NEW s \in Seq(Letters), NEW z \in Seq(Letters), NEW tag \in Seq(Letters), tag # <<>>,
           Places(s, tag) # {}
    PROVE  /\ Places(s \o z, tag) # {}
           /\ Upto(s \o z, tag) = Upto(s, tag)
           /\ After(s \o z, tag) = After(s, tag) \o z
<1>0. Len(s) \in Nat /\ Len(z) \in Nat /\ Len(tag) \in Nat \ {0}
  BY EmptySeq, LenProperties
<1> DEFINE t == s \o z
<1>c. /\ t \in Seq(Letters)
      /\ Len(t) = Len(s) + Len(z)
      /\ \A i \in 1 .. Len(s) + Len(z) : t[i] = IF i <= Len(s) THEN s[i] ELSE z[i - Len(s)]
  BY ConcatProperties
<1> HIDE DEF t
<1>1. PICK p : At(s, tag, p) /\ \A q : At(s, tag, q) => p <= q
  BY SomeFirstPlace
<1>p. p \in Nat \ {0} /\ p + Len(tag) - 1 <= Len(s)
  BY <1>1 DEF At
<1>2. At(t, tag, p)
  <2>1. p + Len(tag) - 1 <= Len(t)
    BY <1>0, <1>c, <1>p
  <2>2. ASSUME NEW j \in 1 .. Len(tag) PROVE t[p + j - 1] = tag[j]
    <3>1. p + j - 1 \in 1 .. Len(s)
      BY <1>0, <1>p
    <3>2. t[p + j - 1] = s[p + j - 1]
      BY <1>0, <1>c, <3>1
    <3> QED BY <1>1, <3>2 DEF At
  <2> QED BY <1>p, <2>1, <2>2 DEF At
<1>3. ASSUME NEW q, At(t, tag, q), q < p PROVE FALSE
  <2>1. q \in Nat \ {0} /\ q + Len(tag) - 1 <= Len(s)
    BY <1>0, <1>p, <1>3 DEF At
  <2>2. \A j \in 1 .. Len(tag) : t[q + j - 1] = s[q + j - 1]
    BY <1>0, <1>c, <2>1
  <2>3. At(s, tag, q)
    BY <1>3, <2>1, <2>2 DEF At
  <2> QED BY <1>1, <1>3, <1>p, <2>1, <2>3
<1>4. \A q : At(t, tag, q) => p <= q
  <2>1. ASSUME NEW q, At(t, tag, q) PROVE p <= q
    <3>1. q \in Nat /\ p \in Nat
      BY <1>p, <2>1 DEF At
    <3> QED BY <1>3, <2>1, <3>1
  <2> QED BY <2>1
<1>5. /\ Places(t, tag) # {}
      /\ Upto(t, tag) = SubSeq(t, 1, p - 1)
      /\ After(t, tag) = SubSeq(t, p + Len(tag), Len(t))
  BY <1>c, <1>2, <1>4, FirstPlace
<1>6. Upto(s, tag) = SubSeq(s, 1, p - 1) /\ After(s, tag) = SubSeq(s, p + Len(tag), Len(s))
  BY <1>1, FirstPlace
<1>7. SubSeq(t, 1, p - 1) = SubSeq(s, 1, p - 1)
  <2> DEFINE b == SubSeq(t, 1, p - 1)
             a == SubSeq(s, 1, p - 1)
  <2>0. p - 1 \in Nat /\ p - 1 <= Len(s) /\ p - 1 <= Len(t) /\ 1 <= (p - 1) + 1
    BY <1>0, <1>c, <1>p
  <2>1. b \in Seq(Letters) /\ Len(b) = p - 1 /\ \A i \in 1 .. p - 1 : b[i] = t[i]
    BY <1>c, <2>0, PieceIs
  <2>2. a \in Seq(Letters) /\ Len(a) = p - 1 /\ \A i \in 1 .. p - 1 : a[i] = s[i]
    BY <2>0, PieceIs
  <2> HIDE DEF a, b
  <2>3. \A i \in 1 .. Len(a) : a[i] = b[i]
    BY <1>0, <1>c, <2>0, <2>1, <2>2
  <2>4. a = b
    BY <2>1, <2>2, <2>3, SeqEqual
  <2> QED BY <2>4 DEF a, b
<1>8. SubSeq(t, p + Len(tag), Len(t)) = SubSeq(s, p + Len(tag), Len(s)) \o z
  <2> DEFINE m == p + Len(tag)
             b == SubSeq(t, m, Len(t))
             a == SubSeq(s, m, Len(s))
             c == a \o z
  <2>0. m \in Nat \ {0} /\ m <= Len(s) + 1 /\ m <= Len(t) + 1 /\ Len(t) \in Nat
    BY <1>0, <1>c, <1>p
  <2> HIDE DEF m
  <2>1. b \in Seq(Letters) /\ Len(b) = Len(t) - m + 1 /\ \A i \in 1 .. Len(t) - m + 1 : b[i] = t[m + i - 1]
    BY <1>c, <2>0, PieceIs
  <2>2. a \in Seq(Letters) /\ Len(a) = Len(s) - m + 1 /\ \A i \in 1 .. Len(s) - m + 1 : a[i] = s[m + i - 1]
    BY <1>0, <2>0, PieceIs
  <2> HIDE DEF a, b
  <2>3. /\ c \in Seq(Letters) /\ Len(c) = Len(a) + Len(z)
        /\ \A i \in 1 .. Len(a) + Len(z) : c[i] = IF i <= Len(a) THEN a[i] ELSE z[i - Len(a)]
    BY <2>2, ConcatProperties
  <2> HIDE DEF c
  <2>4. Len(b) = Len(c)
    BY <1>0, <1>c, <2>0, <2>1, <2>2, <2>3
  <2>5. ASSUME NEW i \in 1 .. Len(b) PROVE b[i] = c[i]
    <3>1. CASE i <= Len(a)
      <4>1. b[i] = t[m + i - 1] /\ c[i] = a[i] /\ a[i] = s[m + i - 1]
        BY <1>0, <1>c, <2>0, <2>1, <2>2, <2>3, <3>1
      <4>2. m + i - 1 \in 1 .. Len(s)
        BY <1>0, <2>0, <2>2, <3>1
      <4> QED BY <1>0, <1>c, <4>1, <4>2
    <3>2. CASE ~ (i <= Len(a))
      <4>0. i \in Nat /\ Len(a) \in Nat
        BY <1>0, <2>0, <2>2
      <4>1. b[i] = t[m + i - 1] /\ c[i] = z[i - Len(a)]
        BY <1>0, <1>c, <2>0, <2>1, <2>2, <2>3, <2>4, <3>2
      <4>2. Len(a) = Len(s) - m + 1 /\ Len(b) = Len(s) + Len(z) - m + 1 /\ i <= Len(b) /\ i > Len(a)
        <5>1. Len(a) = Len(s) - m + 1
          BY <2>2
        <5>2. Len(b) = Len(s) + Len(z) - m + 1
          BY <1>0, <1>c, <2>0, <2>1
        <5>3. i <= Len(b)
          BY <2>0, <2>1
        <5> QED BY <3>2, <4>0, <5>1, <5>2, <5>3
      <4> DEFINE k == m + i - 1
      <4>3. k \in 1 .. Len(s) + Len(z) /\ ~(k <= Len(s)) /\ k - Len(s) = i - Len(a)
        BY <1>0, <2>0, <4>0, <4>2
      <4> HIDE DEF k
      <4>4. t[k] = z[k - Len(s)]
        BY <1>c, <4>3
      <4> QED BY <4>1, <4>3, <4>4 DEF k
    <3> QED BY <3>1, <3>2
  <2>6. b = c
    BY <2>1, <2>3, <2>4, <2>5, SeqEqual
  <2> QED BY <2>6 DEF a, b, c, m
<1> QED BY <1>5, <1>6, <1>7, <1>8 DEF t

\* What no tag begins in may be taken off the front.
LEMMA Shifted ==
    ASSUME NEW u \in Seq(Letters), NEW t \in Seq(Letters), NEW tag \in Seq(Letters), tag # <<>>,
           \A q : At(u \o t, tag, q) => q > Len(u)
    PROVE  /\ Places(u \o t, tag) = {} <=> Places(t, tag) = {}
           /\ Places(t, tag) # {} =>
                 /\ Upto(u \o t, tag) = u \o Upto(t, tag)
                 /\ After(u \o t, tag) = After(t, tag)
<1>0. Len(u) \in Nat /\ Len(t) \in Nat /\ Len(tag) \in Nat \ {0}
  BY EmptySeq, LenProperties
<1> DEFINE s == u \o t
<1>c. /\ s \in Seq(Letters)
      /\ Len(s) = Len(u) + Len(t)
      /\ \A i \in 1 .. Len(u) + Len(t) : s[i] = IF i <= Len(u) THEN u[i] ELSE t[i - Len(u)]
  BY ConcatProperties
<1>s. \A q : At(s, tag, q) => q > Len(u)
  OBVIOUS
<1> HIDE DEF s
<1>t. ASSUME NEW i \in Nat \ {0}, i <= Len(t) PROVE s[Len(u) + i] = t[i]
  <2> DEFINE k == Len(u) + i
  <2>1. k \in 1 .. Len(u) + Len(t) /\ ~(k <= Len(u)) /\ k - Len(u) = i
    BY <1>0, <1>t
  <2> HIDE DEF k
  <2>2. s[k] = t[i]
    BY <1>c, <2>1
  <2> QED BY <2>2 DEF k
<1>1. ASSUME NEW p \in Nat \ {0} PROVE At(t, tag, p) <=> At(s, tag, Len(u) + p)
  <2>1. p + Len(tag) - 1 <= Len(t) <=> (Len(u) + p) + Len(tag) - 1 <= Len(s)
    BY <1>0, <1>c
  <2>2. ASSUME p + Len(tag) - 1 <= Len(t), NEW j \in 1 .. Len(tag)
        PROVE  s[(Len(u) + p) + j - 1] = t[p + j - 1]
    <3>1. p + j - 1 \in Nat \ {0} /\ p + j - 1 <= Len(t)
      BY <1>0, <2>2
    <3>2. (Len(u) + p) + j - 1 = Len(u) + (p + j - 1)
      BY <1>0
    <3> QED BY <1>t, <3>1, <3>2
  <2>3. Len(u) + p \in Nat \ {0}
    BY <1>0
  <2> QED BY <2>1, <2>2, <2>3 DEF At
<1>2. ASSUME NEW q, At(s, tag, q) PROVE \E p \in Nat \ {0} : q = Len(u) + p /\ At(t, tag, p)
  <2>1. q \in Nat /\ q > Len(u)
    BY <1>s, <1>2 DEF At
  <2>2. q - Len(u) \in Nat \ {0} /\ q = Len(u) + (q - Len(u))
    BY <1>0, <2>1
  <2> QED BY <1>1, <1>2, <2>2
<1>3. Places(s, tag) = {} <=> Places(t, tag) = {}
  <2>1. ASSUME NEW p, At(t, tag, p) PROVE \E q : At(s, tag, q)
    <3>1. p \in Nat \ {0}
      BY <2>1 DEF At
    <3> QED BY <1>1, <2>1, <3>1
  <2>2. \A q : q \in Places(s, tag) <=> At(s, tag, q)
    BY <1>c, PlacesAre
  <2>3. \A q : q \in Places(t, tag) <=> At(t, tag, q)
    BY PlacesAre
  <2> QED BY <1>2, <2>1, <2>2, <2>3
<1>4. ASSUME Places(t, tag) # {}
      PROVE  Upto(s, tag) = u \o Upto(t, tag) /\ After(s, tag) = After(t, tag)
  <2>1. PICK p : At(t, tag, p) /\ \A q : At(t, tag, q) => p <= q
    BY <1>4, SomeFirstPlace
  <2>p. p \in Nat \ {0} /\ p + Len(tag) - 1 <= Len(t)
    BY <2>1 DEF At
  <2>2. At(s, tag, Len(u) + p)
    BY <1>1, <2>1, <2>p
  <2>3. ASSUME NEW q, At(s, tag, q) PROVE Len(u) + p <= q
    <3>1. PICK r \in Nat \ {0} : q = Len(u) + r /\ At(t, tag, r)
      BY <1>2, <2>3
    <3>2. p <= r
      BY <2>1, <3>1
    <3> QED BY <1>0, <2>p, <3>1, <3>2
  <2>4. /\ Upto(s, tag) = SubSeq(s, 1, Len(u) + p - 1)
        /\ After(s, tag) = SubSeq(s, Len(u) + p + Len(tag), Len(s))
    <3> DEFINE r == Len(u) + p
    <3>1. At(s, tag, r) /\ \A q : At(s, tag, q) => r <= q
      BY <2>2, <2>3
    <3> HIDE DEF r
    <3>2. Upto(s, tag) = SubSeq(s, 1, r - 1) /\ After(s, tag) = SubSeq(s, r + Len(tag), Len(s))
      BY <1>c, <3>1, FirstPlace
    <3>3. r - 1 = Len(u) + p - 1 /\ r + Len(tag) = Len(u) + p + Len(tag)
      BY <1>0, <2>p DEF r
    <3> QED BY <3>2, <3>3
  <2>5. Upto(t, tag) = SubSeq(t, 1, p - 1) /\ After(t, tag) = SubSeq(t, p + Len(tag), Len(t))
    BY <2>1, FirstPlace
  <2>6. SubSeq(s, 1, Len(u) + p - 1) = u \o SubSeq(t, 1, p - 1)
    <3> DEFINE n == Len(u) + p - 1
               b == SubSeq(s, 1, n)
               a == SubSeq(t, 1, p - 1)
               c == u \o a
    <3>0. n \in Nat /\ n <= Len(s) /\ p - 1 \in Nat /\ p - 1 <= Len(t) /\ n = Len(u) + (p - 1)
      BY <1>0, <1>c, <2>p
    <3> HIDE DEF n
    <3>1. b \in Seq(Letters) /\ Len(b) = n /\ \A i \in 1 .. n : b[i] = s[i]
      <4>1. 1 <= n + 1 /\ n - 1 + 1 = n
        BY <3>0
      <4>2. \A i \in 1 .. n : 1 + i - 1 = i
        BY <3>0
      <4> QED BY <1>c, <3>0, <4>1, <4>2, PieceIs
    <3>2. a \in Seq(Letters) /\ Len(a) = p - 1 /\ \A i \in 1 .. p - 1 : a[i] = t[i]
      <4>1. 1 <= (p - 1) + 1 /\ (p - 1) - 1 + 1 = p - 1
        BY <3>0
      <4>2. \A i \in 1 .. p - 1 : 1 + i - 1 = i
        BY <3>0
      <4> QED BY <3>0, <4>1, <4>2, PieceIs
    <3> HIDE DEF a, b
    <3>3. /\ c \in Seq(Letters) /\ Len(c) = Len(u) + Len(a)
          /\ \A i \in 1 .. Len(u) + Len(a) : c[i] = IF i <= Len(u) THEN u[i] ELSE a[i - Len(u)]
      BY <3>2, ConcatProperties
    <3> HIDE DEF c
    <3>4. Len(b) = Len(c)
      BY <3>0, <3>1, <3>2, <3>3
    <3>5. ASSUME NEW i \in 1 .. Len(b) PROVE b[i] = c[i]
      <4>1. i \in 1 .. Len(u) + Len(a) /\ i \in 1 .. n /\ b[i] = s[i]
        BY <3>0, <3>1, <3>2
      <4>2. i \in 1 .. Len(u) + Len(t)
        BY <1>0, <3>0, <4>1
      <4>3. CASE i <= Len(u)
        BY <1>c, <3>3, <4>1, <4>2, <4>3
      <4>4. CASE ~(i <= Len(u))
        <5>1. i - Len(u) \in 1 .. p - 1
          BY <1>0, <3>0, <4>1, <4>4
        <5> QED BY <1>c, <3>2, <3>3, <4>1, <4>2, <4>4, <5>1
      <4> QED BY <4>3, <4>4
    <3>6. b = c
      BY <3>1, <3>3, <3>4, <3>5, SeqEqual
    <3> QED BY <3>6 DEF a, b, c, n
  <2>7. SubSeq(s, Len(u) + p + Len(tag), Len(s)) = SubSeq(t, p + Len(tag), Len(t))
    <3> DEFINE m == p + Len(tag)
               l == Len(u) + m
               b == SubSeq(s, l, Len(s))
               a == SubSeq(t, m, Len(t))
    <3>0. /\ m \in Nat \ {0} /\ m <= Len(t) + 1 /\ l \in Nat \ {0} /\ l <= Len(s) + 1
          /\ Len(s) \in Nat /\ l = Len(u) + p + Len(tag)
      BY <1>0, <1>c, <2>p
    <3>00. l = Len(u) + m
      OBVIOUS
    <3> HIDE DEF m, l
    <3>1. b \in Seq(Letters) /\ Len(b) = Len(s) - l + 1 /\ \A i \in 1 .. Len(s) - l + 1 : b[i] = s[l + i - 1]
      <4>1. s \in Seq(Letters) /\ l \in Nat \ {0} /\ Len(s) \in Nat /\ l <= Len(s) + 1 /\ Len(s) <= Len(s)
        BY <1>c, <3>0
      <4> QED BY <4>1, PieceIs
    <3>2. a \in Seq(Letters) /\ Len(a) = Len(t) - m + 1 /\ \A i \in 1 .. Len(t) - m + 1 : a[i] = t[m + i - 1]
      <4>1. /\ t \in Seq(Letters) /\ m \in Nat \ {0} /\ Len(t) \in Nat
            /\ m <= Len(t) + 1 /\ Len(t) <= Len(t)
        BY <1>0, <3>0
      <4> QED BY <4>1, PieceIs
    <3>3. Len(a) = Len(b) /\ Len(t) - m + 1 = Len(s) - l + 1 /\ Len(a) = Len(t) - m + 1
      <4>1. Len(t) - m + 1 = Len(s) - l + 1
        BY <1>0, <1>c, <3>0, <3>00
      <4> QED BY <3>1, <3>2, <4>1
    <3> HIDE DEF a, b
    <3>4. ASSUME NEW i \in 1 .. Len(b) PROVE b[i] = a[i]
      <4>1. i \in 1 .. Len(t) - m + 1
        BY <3>1, <3>3
      <4>2. m + i - 1 \in Nat \ {0} /\ m + i - 1 <= Len(t) /\ l + i - 1 = Len(u) + (m + i - 1)
        BY <1>0, <3>0, <3>00, <4>1
      <4>3. s[l + i - 1] = t[m + i - 1]
        BY <1>t, <4>2
      <4> QED BY <3>1, <3>2, <3>3, <4>1, <4>3
    <3>5. b = a
      BY <3>1, <3>2, <3>3, <3>4, SeqEqual
    <3>6. b = SubSeq(s, Len(u) + p + Len(tag), Len(s)) /\ a = SubSeq(t, p + Len(tag), Len(t))
      BY <3>0 DEF a, b, m
    <3> QED BY <3>5, <3>6
  <2> QED BY <2>4, <2>5, <2>6, <2>7
<1> QED BY <1>3, <1>4 DEF s

\* What is held back: the longest tail that the tag begins with.
LEMMA TailIs ==
    ASSUME NEW s \in Seq(Letters), NEW tag \in Seq(Letters), tag # <<>>
    PROVE  \E n \in Nat :
              /\ n < Len(tag) /\ n <= Len(s)
              /\ PartialTagSuffix(s, tag) = SubSeq(s, Len(s) - n + 1, Len(s))
              /\ \A m \in Nat :
                    n < m /\ m < Len(tag) /\ m <= Len(s) =>
                       \E j \in 1 .. m : s[Len(s) - m + j] # tag[j]
<1>0. Len(s) \in Nat /\ Len(tag) \in Nat \ {0}
  BY EmptySeq, LenProperties
<1> DEFINE both == {Len(tag) - 1, Len(s)}
           N == Min(both)
<1>1. N \in Nat /\ N <= Len(tag) - 1 /\ N <= Len(s) /\ (N = Len(tag) - 1 \/ N = Len(s))
  <2>1. both \subseteq Nat /\ both # {}
    BY <1>0
  <2> HIDE DEF both
  <2>2. N \in both /\ \A y \in both : N <= y
    BY <2>1, LeastOf
  <2> HIDE DEF N
  <2> QED BY <1>0, <2>1, <2>2 DEF both
<1> HIDE DEF N
<1> DEFINE T == {n \in 0 .. N : IsSuffix(SubSeq(tag, 1, n), s)}
<1>2. ASSUME NEW n \in 0 .. N
      PROVE  IsSuffix(SubSeq(tag, 1, n), s) <=> \A j \in 1 .. n : s[Len(s) - n + j] = tag[j]
  <2> DEFINE x == SubSeq(tag, 1, n)
             rx == Reverse(x)
             rs == Reverse(s)
  <2>0. n \in Nat /\ n <= Len(tag) /\ n <= Len(s) /\ 1 <= n + 1 /\ n - 1 + 1 = n
    BY <1>0, <1>1
  <2>1. x \in Seq(Letters) /\ Len(x) = n /\ \A i \in 1 .. n : x[i] = tag[i]
    <3>1. \A i \in 1 .. n : 1 + i - 1 = i
      BY <2>0
    <3> QED BY <2>0, <3>1, PieceIs
  <2> HIDE DEF x
  <2>2. /\ rx = [i \in 1 .. n |-> x[(n - i) + 1]]
        /\ rs = [i \in 1 .. Len(s) |-> s[(Len(s) - i) + 1]]
    BY <2>1 DEF Reverse
  <2>3. \A i \in 1 .. n : x[(n - i) + 1] \in Letters
    <3>1. \A i \in 1 .. n : (n - i) + 1 \in 1 .. Len(x)
      BY <2>0, <2>1
    <3> QED BY <2>1, <3>1, ElementOfSeq
  <2>4. \A i \in 1 .. Len(s) : s[(Len(s) - i) + 1] \in Letters
    <3>1. \A i \in 1 .. Len(s) : (Len(s) - i) + 1 \in 1 .. Len(s)
      BY <1>0
    <3> QED BY <3>1, ElementOfSeq
  <2>5. rx \in Seq(Letters) /\ Len(rx) = n
    <3>1. rx \in [1 .. n -> Letters]
      BY <2>2, <2>3
    <3> HIDE DEF rx
    <3> QED BY <2>0, <3>1
  <2>6. rs \in Seq(Letters) /\ Len(rs) = Len(s)
    <3>1. rs \in [1 .. Len(s) -> Letters]
      BY <2>2, <2>4
    <3> HIDE DEF rs
    <3> QED BY <1>0, <3>1
  <2> HIDE DEF rx, rs
  <2>7. /\ SubSeq(rx, 1, n) \in Seq(Letters) /\ Len(SubSeq(rx, 1, n)) = n
        /\ \A i \in 1 .. n : SubSeq(rx, 1, n)[i] = rx[i]
    <3>1. \A i \in 1 .. n : 1 + i - 1 = i
      BY <2>0
    <3> QED BY <2>0, <2>5, <3>1, PieceIs
  <2>8. /\ SubSeq(rs, 1, n) \in Seq(Letters) /\ Len(SubSeq(rs, 1, n)) = n
        /\ \A i \in 1 .. n : SubSeq(rs, 1, n)[i] = rs[i]
    <3>1. \A i \in 1 .. n : 1 + i - 1 = i
      BY <2>0
    <3> QED BY <2>0, <2>6, <3>1, PieceIs
  <2>9. IsSuffix(x, s) <=> SubSeq(rx, 1, n) = SubSeq(rs, 1, n)
    <3>1. IsSuffix(x, s) <=> (Len(rx) <= Len(rs) /\ SubSeq(rx, 1, Len(rx)) = SubSeq(rs, 1, Len(rx)))
      BY DEF IsSuffix, IsPrefix, rx, rs
    <3> QED BY <2>0, <2>5, <2>6, <3>1
  <2>10. SubSeq(rx, 1, n) = SubSeq(rs, 1, n) <=> \A i \in 1 .. n : rx[i] = rs[i]
    <3>1. ASSUME \A i \in 1 .. n : rx[i] = rs[i] PROVE SubSeq(rx, 1, n) = SubSeq(rs, 1, n)
      <4> DEFINE a == SubSeq(rx, 1, n)
                 b == SubSeq(rs, 1, n)
      <4>1. Len(a) = Len(b) /\ \A i \in 1 .. Len(a) : a[i] = b[i]
        BY <2>7, <2>8, <3>1
      <4>2. a \in Seq(Letters) /\ b \in Seq(Letters)
        BY <2>7, <2>8
      <4> HIDE DEF a, b
      <4>3. a = b
        BY <4>1, <4>2, SeqEqual
      <4> QED BY <4>3 DEF a, b
    <3> QED BY <2>7, <2>8, <3>1
  <2>11. \A i \in 1 .. n : rx[i] = tag[(n - i) + 1] /\ rs[i] = s[(Len(s) - i) + 1]
    <3>1. \A i \in 1 .. n : (n - i) + 1 \in 1 .. n /\ i \in 1 .. Len(s)
      BY <2>0, <1>0
    <3> QED BY <2>1, <2>2, <3>1
  <2>12. (\A i \in 1 .. n : rx[i] = rs[i]) <=> \A j \in 1 .. n : s[Len(s) - n + j] = tag[j]
    <3>1. ASSUME \A i \in 1 .. n : rx[i] = rs[i], NEW j \in 1 .. n
          PROVE  s[Len(s) - n + j] = tag[j]
      <4>1. (n - j) + 1 \in 1 .. n /\ (n - ((n - j) + 1)) + 1 = j
            /\ (Len(s) - ((n - j) + 1)) + 1 = Len(s) - n + j
        BY <1>0, <2>0
      <4> QED BY <2>11, <3>1, <4>1
    <3>2. ASSUME \A j \in 1 .. n : s[Len(s) - n + j] = tag[j], NEW i \in 1 .. n
          PROVE  rx[i] = rs[i]
      <4>1. (n - i) + 1 \in 1 .. n /\ Len(s) - n + ((n - i) + 1) = (Len(s) - i) + 1
        BY <1>0, <2>0
      <4> QED BY <2>11, <3>2, <4>1
    <3> QED BY <3>1, <3>2
  <2> QED BY <2>9, <2>10, <2>12 DEF x
<1>3. Max(T) \in T /\ \A y \in T : y <= Max(T)
  <2>1. T \subseteq 0 .. N
    OBVIOUS
  <2>2. 0 \in T
    BY <1>1, <1>2
  <2> HIDE DEF T
  <2> QED BY <1>1, <2>1, <2>2, GreatestOf
<1> DEFINE n == Max(T)
<1>4. PartialTagSuffix(s, tag) = SubSeq(s, Len(s) - n + 1, Len(s))
  BY DEF PartialTagSuffix, N
<1>5. n \in 0 .. N /\ \A y \in T : y <= n
  BY <1>3
<1>6. ASSUME NEW m \in Nat, n < m, m < Len(tag), m <= Len(s)
      PROVE  \E j \in 1 .. m : s[Len(s) - m + j] # tag[j]
  <2> HIDE DEF n
  <2>1. m \in 0 .. N
    BY <1>0, <1>1, <1>6
  <2>2. m \notin T
    BY <1>5, <1>6
  <2> QED BY <1>2, <2>1, <2>2
<1> HIDE DEF n, T
<1>7. n \in Nat /\ n < Len(tag) /\ n <= Len(s)
  BY <1>0, <1>1, <1>5
<1> QED BY <1>4, <1>6, <1>7

\* The buffer without what is held back, and what is held back.
LEMMA TailSplits ==
    ASSUME NEW s \in Seq(Letters), NEW tag \in Seq(Letters), tag # <<>>, Places(s, tag) = {}
    PROVE  LET k == PartialTagSuffix(s, tag)
               u == SubSeq(s, 1, Len(s) - Len(k))
           IN  /\ k \in Seq(Letters) /\ u \in Seq(Letters)
               /\ u \o k = s
               /\ Places(k, tag) = {}
               /\ \A z \in Seq(Letters) : \A q : At(s \o z, tag, q) => q > Len(u)
<1>0. Len(s) \in Nat /\ Len(tag) \in Nat \ {0}
  BY EmptySeq, LenProperties
<1>1. PICK n \in Nat :
         /\ n < Len(tag) /\ n <= Len(s)
         /\ PartialTagSuffix(s, tag) = SubSeq(s, Len(s) - n + 1, Len(s))
         /\ \A m \in Nat :
               n < m /\ m < Len(tag) /\ m <= Len(s) => \E j \in 1 .. m : s[Len(s) - m + j] # tag[j]
  BY TailIs
<1> DEFINE k == PartialTagSuffix(s, tag)
           l == Len(s) - n
           u == SubSeq(s, 1, l)
<1>2. l \in Nat /\ l <= Len(s) /\ l + 1 \in Nat \ {0} /\ l + 1 <= Len(s) + 1 /\ Len(s) - (l + 1) + 1 = n
      /\ 1 <= l + 1 /\ l - 1 + 1 = l /\ Len(s) = l + n
  BY <1>0, <1>1
<1>3. k = SubSeq(s, l + 1, Len(s))
  BY <1>1
<1> HIDE DEF l
<1>4. k \in Seq(Letters) /\ Len(k) = n
  <2> HIDE DEF k
  <2>1. /\ SubSeq(s, l + 1, Len(s)) \in Seq(Letters)
        /\ Len(SubSeq(s, l + 1, Len(s))) = Len(s) - (l + 1) + 1
    BY <1>0, <1>2, PieceIs
  <2> QED BY <1>2, <1>3, <2>1
<1>5. u \in Seq(Letters) /\ Len(u) = l
  <2>1. u \in Seq(Letters) /\ Len(u) = l - 1 + 1
    BY <1>2, PieceIs
  <2> QED BY <1>2, <2>1
<1>6. u \o k = s
  <2> HIDE DEF k
  <2>1. 1 \in 1 .. Len(s) + 1 /\ l \in 1 - 1 .. Len(s) /\ Len(s) \in l .. Len(s)
    BY <1>0, <1>2
  <2>2. SubSeq(s, 1, l) \o SubSeq(s, l + 1, Len(s)) = SubSeq(s, 1, Len(s))
    BY <2>1, ConcatAdjacentSubSeq
  <2>3. SubSeq(s, 1, Len(s)) = s
    BY SubSeqFull
  <2> QED BY <1>3, <2>2, <2>3
<1>7. Len(s) - Len(k) = l
  <2> HIDE DEF k
  <2> QED BY <1>2, <1>4
<1>8. Places(k, tag) = {}
  <2> HIDE DEF k
  <2>1. ASSUME NEW q, At(k, tag, q) PROVE FALSE
    <3>1. q \in Nat \ {0} /\ q + Len(tag) - 1 <= n
      BY <1>4, <2>1 DEF At
    <3> QED BY <1>0, <1>1, <3>1
  <2> QED BY <1>4, <2>1, PlacesAre
<1>9. ASSUME NEW z \in Seq(Letters), NEW q, At(s \o z, tag, q), q <= l PROVE FALSE
  <2> DEFINE t == s \o z
  <2>1. /\ Len(z) \in Nat
        /\ Len(t) = Len(s) + Len(z)
        /\ \A i \in 1 .. Len(s) + Len(z) : t[i] = IF i <= Len(s) THEN s[i] ELSE z[i - Len(s)]
    BY ConcatProperties, LenProperties
  <2>2. At(t, tag, q)
    BY <1>9
  <2> HIDE DEF t
  <2>3. q \in Nat \ {0} /\ q <= l
    BY <1>9, <2>2 DEF At
  <2>4. CASE q + Len(tag) - 1 <= Len(s)
    <3>1. ASSUME NEW j \in 1 .. Len(tag) PROVE s[q + j - 1] = tag[j]
      <4>1. q + j - 1 \in 1 .. Len(s)
        BY <1>0, <2>3, <2>4
      <4>2. t[q + j - 1] = s[q + j - 1]
        BY <1>0, <2>1, <4>1
      <4> QED BY <2>2, <4>2 DEF At
    <3>2. At(s, tag, q)
      BY <2>3, <2>4, <3>1 DEF At
    <3> QED BY <3>2, PlacesAre
  <2>5. CASE ~ (q + Len(tag) - 1 <= Len(s))
    <3> DEFINE m == Len(s) - q + 1
    <3>1. m \in Nat /\ n < m /\ m < Len(tag) /\ m <= Len(s) /\ Len(s) - m + 1 = q
      BY <1>0, <1>2, <2>3, <2>5
    <3> HIDE DEF m
    <3>2. PICK j \in 1 .. m : s[Len(s) - m + j] # tag[j]
      BY <1>1, <3>1
    <3>3. j \in 1 .. Len(tag) /\ q + j - 1 \in 1 .. Len(s) /\ Len(s) - m + j = q + j - 1
      BY <1>0, <2>3, <3>1
    <3>4. t[q + j - 1] = s[q + j - 1]
      BY <1>0, <2>1, <3>3
    <3>5. t[q + j - 1] = tag[j]
      BY <2>2, <3>3 DEF At
    <3> QED BY <3>2, <3>3, <3>4, <3>5
  <2> QED BY <2>4, <2>5
<1>10. ASSUME NEW z \in Seq(Letters), NEW q, At(s \o z, tag, q) PROVE q > l
  <2>1. q \in Nat
    BY <1>10 DEF At
  <2> QED BY <1>2, <1>9, <1>10, <2>1
<1>11. u = SubSeq(s, 1, Len(s) - Len(k))
  BY <1>7
<1> HIDE DEF k, u
<1>12. /\ k \in Seq(Letters) /\ u \in Seq(Letters) /\ u \o k = s /\ Places(k, tag) = {}
       /\ \A z \in Seq(Letters) : \A q : At(s \o z, tag, q) => q > Len(u)
  BY <1>4, <1>5, <1>6, <1>8, <1>10
<1> QED BY <1>11, <1>12 DEF k

-----------------------------------------------------------------------------
(* The two recursive functions are what their definitions say.             *)

LEMMA TagsAre == \A w \in BOOLEAN : Tag(w) \in Seq(Letters) /\ Tag(w) # <<>>
  BY FilterAssumption DEF Tag

\* What is visible of a text, by its first span.
LEMMA VisibleIs ==
    \A s \in Seq(Letters) :
       /\ Visible[s] \in Seq(Letters)
       /\ Visible[s] =
            IF Places(s, ThinkOpen) = {} THEN s
            ELSE LET span == After(s, ThinkOpen)
                 IN  Upto(s, ThinkOpen)
                     \o (IF Places(span, ThinkClose) = {} THEN <<>>
                         ELSE Visible[After(span, ThinkClose)])
<1> DEFINE D == Seq(Letters)
           Span(s) == After(s, ThinkOpen)
           More(s) == Places(s, ThinkOpen) # {} /\ Places(Span(s), ThinkClose) # {}
           Body(f, s) == IF Places(s, ThinkOpen) = {} THEN s
                         ELSE Upto(s, ThinkOpen)
                              \o (IF Places(Span(s), ThinkClose) = {} THEN <<>>
                                  ELSE f[After(Span(s), ThinkClose)])
           Is(f) == f = [s \in Seq(Letters) |-> Body(f, s)]
<1> DEFINE size == [s \in D |-> Len(s)]
           final == {s \in D : ~More(s)}
           next == [s \in D |-> IF More(s) THEN After(Span(s), ThinkClose) ELSE s]
           start == [s \in D |-> IF Places(s, ThinkOpen) = {} THEN s ELSE Upto(s, ThinkOpen)]
           join == [p \in D \X D |-> IF More(p[1]) THEN Upto(p[1], ThinkOpen) \o p[2] ELSE p[2]]
<1>0. ThinkOpen \in Seq(Letters) /\ ThinkOpen # <<>> /\ ThinkClose \in Seq(Letters) /\ ThinkClose # <<>>
  BY FilterAssumption
<1>1. ASSUME NEW s \in D, Places(s, ThinkOpen) # {}
      PROVE  Upto(s, ThinkOpen) \in D /\ Span(s) \in D /\ Len(Span(s)) < Len(s)
  BY <1>0, <1>1, PartsAre
<1>2. ASSUME NEW s \in D, More(s)
      PROVE  After(Span(s), ThinkClose) \in D /\ Len(After(Span(s), ThinkClose)) < Len(s)
  <2>1. Span(s) \in D /\ Len(Span(s)) < Len(s)
    BY <1>1, <1>2
  <2> HIDE DEF Span
  <2>2. /\ After(Span(s), ThinkClose) \in D
        /\ Len(After(Span(s), ThinkClose)) < Len(Span(s))
    BY <1>0, <1>2, <2>1, PartsAre
  <2>3. Len(s) \in Nat /\ Len(Span(s)) \in Nat /\ Len(After(Span(s), ThinkClose)) \in Nat
    BY <2>1, <2>2, LenProperties
  <2> QED BY <2>1, <2>2, <2>3
<1>3. \E f \in [D -> D] :
         \A s \in D : f[s] = IF s \in final THEN start[s] ELSE join[<<s, f[next[s]]>>]
  <2>1. size \in [D -> Nat]
    BY LenProperties
  <2>2. next \in [D -> D]
    BY <1>2
  <2>3. start \in [D -> D]
    BY <1>1
  <2>4. join \in [D \X D -> D]
    <3>1. ASSUME NEW p \in D \X D
          PROVE  (IF More(p[1]) THEN Upto(p[1], ThinkOpen) \o p[2] ELSE p[2]) \in D
      <4>0. p[1] \in D /\ p[2] \in D
        OBVIOUS
      <4>1. CASE More(p[1])
        <5>1. Upto(p[1], ThinkOpen) \in D
          BY <1>1, <4>0, <4>1
        <5> QED BY <4>0, <4>1, <5>1, ConcatProperties
      <4>2. CASE ~More(p[1])
        BY <4>0, <4>2
      <4> QED BY <4>1, <4>2
    <3> HIDE DEF More
    <3> QED BY <3>1
  <2>5. \A s \in D : s \notin final => size[next[s]] < size[s]
    <3>1. ASSUME NEW s \in D, s \notin final PROVE size[next[s]] < size[s]
      <4>1. More(s)
        BY <3>1
      <4>2. next[s] = After(Span(s), ThinkClose)
        BY <4>1
      <4> QED BY <1>2, <4>1, <4>2
    <3> QED BY <3>1
  <2> HIDE DEF D, size, final, next, start, join
  <2>6. Descends(D, D, size, final, next, start, join)
    BY <2>1, <2>2, <2>3, <2>4, <2>5 DEF Descends
  <2> QED BY <2>6, RecursionDefines
<1>4. PICK f \in [D -> D] :
         \A s \in D : f[s] = IF s \in final THEN start[s] ELSE join[<<s, f[next[s]]>>]
  BY <1>3
<1>5. ASSUME NEW s \in D PROVE f[s] = Body(f, s)
  <2>1. CASE Places(s, ThinkOpen) = {}
    <3>1. s \in final /\ start[s] = s
      BY <2>1
    <3> HIDE DEF final, start, join, next
    <3> QED BY <1>4, <2>1, <3>1
  <2>2. CASE Places(s, ThinkOpen) # {} /\ Places(Span(s), ThinkClose) = {}
    <3>1. s \in final /\ start[s] = Upto(s, ThinkOpen)
      BY <2>2
    <3>2. f[s] = Upto(s, ThinkOpen)
      <4> HIDE DEF final, start, join, next
      <4> QED BY <1>4, <3>1
    <3>3. Upto(s, ThinkOpen) \o <<>> = Upto(s, ThinkOpen)
      BY <1>1, <2>2, ConcatEmptySeq
    <3> QED BY <2>2, <3>2, <3>3
  <2>3. CASE More(s)
    <3> DEFINE e == After(Span(s), ThinkClose)
    <3>1. s \notin final /\ next[s] = e
      BY <2>3
    <3>2. e \in D
      BY <1>2, <2>3
    <3>3. f[e] \in D
      BY <1>4, <3>2
    <3>4. f[s] = join[<<s, f[e]>>]
      <4> HIDE DEF final, start, join, next, e
      <4> QED BY <1>4, <3>1
    <3>5. join[<<s, f[e]>>] = Upto(s, ThinkOpen) \o f[e]
      <4> DEFINE p == <<s, f[e]>>
      <4>1. p \in D \X D /\ p[1] = s /\ p[2] = f[e]
        BY <3>3
      <4> HIDE DEF p, More, e
      <4>2. join[p] = IF More(p[1]) THEN Upto(p[1], ThinkOpen) \o p[2] ELSE p[2]
        BY <4>1
      <4> QED BY <2>3, <4>1, <4>2 DEF p
    <3>6. Body(f, s) = Upto(s, ThinkOpen) \o f[e]
      BY <2>3
    <3> QED BY <3>4, <3>5, <3>6
  <2> QED BY <2>1, <2>2, <2>3
<1>6. Is(f)
  <2> HIDE DEF Body
  <2>1. f = [s \in D |-> f[s]]
    BY <1>4
  <2> QED BY <1>5, <2>1
<1>7. Visible = CHOOSE g : Is(g)
  BY DEF Visible
<1> HIDE DEF Is
<1>8. Is(Visible)
  BY <1>6, <1>7
<1>9. \A s \in D : Visible[s] = Body(Visible, s)
  <2>1. Visible = [s \in D |-> Body(Visible, s)]
    BY <1>8 DEF Is
  <2> HIDE DEF Body
  <2> QED BY <2>1
<1>10. \A s \in D : Visible[s] \in D
  <2> DEFINE B == {n \in Nat : \A s \in D : Len(s) = n => Visible[s] \in D}
  <2>1. ASSUME NEW n \in Nat, \A m \in Nat : m < n => m \in B PROVE n \in B
    <3>1. ASSUME NEW s \in D, Len(s) = n PROVE Visible[s] \in D
      <4>1. CASE Places(s, ThinkOpen) = {}
        BY <1>9, <4>1
      <4>2. CASE Places(s, ThinkOpen) # {} /\ Places(Span(s), ThinkClose) = {}
        <5>1. Upto(s, ThinkOpen) \o <<>> = Upto(s, ThinkOpen) /\ Upto(s, ThinkOpen) \in D
          BY <1>1, <4>2, ConcatEmptySeq
        <5> QED BY <1>9, <4>2, <5>1
      <4>3. CASE More(s)
        <5> DEFINE e == After(Span(s), ThinkClose)
        <5>1. e \in D /\ Len(e) < n /\ Len(e) \in Nat
          BY <1>2, <3>1, <4>3, LenProperties
        <5>2. Visible[e] \in D
          <6> HIDE DEF e, D
          <6> QED BY <2>1, <5>1
        <5>3. Upto(s, ThinkOpen) \in D
          BY <1>1, <4>3
        <5>4. Visible[s] = Upto(s, ThinkOpen) \o Visible[e]
          BY <1>9, <4>3
        <5> HIDE DEF e
        <5> QED BY <5>2, <5>3, <5>4, ConcatProperties
      <4> QED BY <4>1, <4>2, <4>3
    <3> QED BY <3>1
  <2> HIDE DEF B
  <2>2. \A n \in Nat : n \in B
    BY <2>1, BelowInduction
  <2> QED BY <2>2, LenProperties DEF B
<1> QED BY <1>9, <1>10

FedRecord == [out : Seq(Letters), held : Seq(Letters), inside : BOOLEAN]

\* What is seen of a sequence is one.
LEMMA SeenType ==
    ASSUME NEW w \in BOOLEAN, NEW s \in Seq(Letters)
    PROVE  Seen(w, s) \in Seq(Letters)
  BY EmptySeq DEF Seen

\* The other side of a tag is a side.
LEMMA OtherSide == \A w \in BOOLEAN : (~w) \in BOOLEAN
<1>1. ASSUME NEW w \in BOOLEAN PROVE (~w) \in BOOLEAN
  <2>1. TRUE \in BOOLEAN /\ FALSE \in BOOLEAN /\ ~TRUE = FALSE /\ ~FALSE = TRUE
    BY Zenon
  <2>2. w = TRUE \/ w = FALSE
    OBVIOUS
  <2> QED BY <2>1, <2>2, Zenon
<1> QED BY <1>1, Zenon

LEMMA AssociatesAll ==
    \A s, t, u \in Seq(Letters) : (s \o t) \o u = s \o (t \o u)
  BY ConcatAssociative

LEMMA Associates ==
    ASSUME NEW s \in Seq(Letters), NEW t \in Seq(Letters), NEW u \in Seq(Letters)
    PROVE  (s \o t) \o u = s \o (t \o u) /\ s \o (t \o u) = (s \o t) \o u
<1>1. (s \o t) \o u = s \o (t \o u)
  BY AssociatesAll, Zenon
<1> QED BY <1>1, Zenon

\* What the loop of feed does, by its first turn.
LEMMA DrainIs ==
    \A b \in Seq(Letters), w \in BOOLEAN :
       /\ Places(b, Tag(w)) # {} => 
             Drain[b][w] = [Drain[After(b, Tag(w))][~w] EXCEPT !.out = Seen(w, Upto(b, Tag(w))) \o @]
       /\ Places(b, Tag(w)) = {} =>
             Drain[b][w] = [out |-> Seen(w, SubSeq(b, 1, Len(b) - Len(PartialTagSuffix(b, Tag(w))))),
                            held |-> PartialTagSuffix(b, Tag(w)), inside |-> w]
<1> DEFINE S == Seq(Letters)
           D == S \X BOOLEAN
           More(b, w) == Places(b, Tag(w)) # {}
           Last_(b, w) == [out |-> Seen(w, SubSeq(b, 1, Len(b) - Len(PartialTagSuffix(b, Tag(w))))),
                           held |-> PartialTagSuffix(b, Tag(w)), inside |-> w]
           Then_(b, w, r) == [r EXCEPT !.out = Seen(w, Upto(b, Tag(w))) \o @]
           Body(f, b, w) == IF More(b, w) THEN Then_(b, w, f[After(b, Tag(w))][~w]) ELSE Last_(b, w)
           Is(f) == f = [b \in Seq(Letters) |-> [w \in BOOLEAN |-> Body(f, b, w)]]
<1> DEFINE size == [d \in D |-> Len(d[1])]
           final == {d \in D : ~More(d[1], d[2])}
           next == [d \in D |-> IF More(d[1], d[2]) THEN <<After(d[1], Tag(d[2])), ~d[2]>> ELSE d]
           some == [out |-> <<>>, held |-> <<>>, inside |-> FALSE]
           start == [d \in D |-> IF More(d[1], d[2]) THEN some ELSE Last_(d[1], d[2])]
           join == [p \in D \X FedRecord |->
                      IF More(p[1][1], p[1][2]) THEN Then_(p[1][1], p[1][2], p[2]) ELSE some]
<1>0. \A w \in BOOLEAN : Tag(w) \in S /\ Tag(w) # <<>>
  BY TagsAre
<1>1. ASSUME NEW b \in S, NEW w \in BOOLEAN, More(b, w)
      PROVE  /\ Upto(b, Tag(w)) \in S /\ After(b, Tag(w)) \in S /\ Len(After(b, Tag(w))) < Len(b)
             /\ \A r \in FedRecord : Then_(b, w, r) \in FedRecord
  <2>1. /\ Upto(b, Tag(w)) \in S /\ After(b, Tag(w)) \in S /\ Len(After(b, Tag(w))) < Len(b)
    BY <1>0, <1>1, PartsAre
  <2>2. ASSUME NEW r \in FedRecord PROVE Then_(b, w, r) \in FedRecord
    <3>1. Seen(w, Upto(b, Tag(w))) \in S
      BY <2>1, SeenType
    <3>2. r.out \in S
      BY DEF FedRecord
    <3>3. Seen(w, Upto(b, Tag(w))) \o r.out \in S
      BY <3>1, <3>2, ConcatProperties
    <3> QED BY <3>3 DEF FedRecord
  <2> QED BY <2>1, <2>2
<1>2. ASSUME NEW b \in S, NEW w \in BOOLEAN, ~More(b, w)
      PROVE  Last_(b, w) \in FedRecord
  <2>1. /\ PartialTagSuffix(b, Tag(w)) \in S
        /\ SubSeq(b, 1, Len(b) - Len(PartialTagSuffix(b, Tag(w)))) \in S
    BY <1>0, <1>2, TailSplits
  <2>2. Seen(w, SubSeq(b, 1, Len(b) - Len(PartialTagSuffix(b, Tag(w))))) \in S
    BY <2>1, SeenType
  <2> QED BY <2>1, <2>2 DEF FedRecord
<1>s. some \in FedRecord
  BY EmptySeq DEF FedRecord
<1>b. \A w \in BOOLEAN : (~w) \in BOOLEAN
  BY OtherSide
<1>e. \A d \in D : d[1] \in S /\ d[2] \in BOOLEAN /\ d = <<d[1], d[2]>>
  OBVIOUS
<1> HIDE DEF More, Last_, Then_, some
<1>3. \E f \in [D -> FedRecord] :
         \A d \in D : f[d] = IF d \in final THEN start[d] ELSE join[<<d, f[next[d]]>>]
  <2>1. size \in [D -> Nat]
    BY <1>e, LenProperties
  <2>2. next \in [D -> D]
    <3>1. ASSUME NEW d \in D
          PROVE  (IF More(d[1], d[2]) THEN <<After(d[1], Tag(d[2])), ~d[2]>> ELSE d) \in D
      <4>1. CASE More(d[1], d[2])
        <5>1. After(d[1], Tag(d[2])) \in S
          BY <1>1, <1>e, <4>1
        <5>2. (~d[2]) \in BOOLEAN
          BY <1>b, <1>e
        <5> QED BY <4>1, <5>1, <5>2
      <4> QED BY <4>1
    <3> QED BY <3>1
  <2>3. start \in [D -> FedRecord]
    BY <1>2, <1>s, <1>e
  <2>4. join \in [D \X FedRecord -> FedRecord]
    <3>1. ASSUME NEW p \in D \X FedRecord
          PROVE  (IF More(p[1][1], p[1][2]) THEN Then_(p[1][1], p[1][2], p[2]) ELSE some) \in FedRecord
      <4>1. p[1][1] \in S /\ p[1][2] \in BOOLEAN /\ p[2] \in FedRecord
        OBVIOUS
      <4> QED BY <1>1, <1>s, <4>1
    <3> QED BY <3>1
  <2>5. \A d \in D : d \notin final => size[next[d]] < size[d]
    <3>1. ASSUME NEW d \in D, d \notin final PROVE size[next[d]] < size[d]
      <4>1. More(d[1], d[2]) /\ d[1] \in S /\ d[2] \in BOOLEAN
        BY <1>e, <3>1
      <4> DEFINE e == <<After(d[1], Tag(d[2])), ~d[2]>>
      <4>2. next[d] = e
        BY <4>1
      <4>3. After(d[1], Tag(d[2])) \in S /\ Len(After(d[1], Tag(d[2]))) < Len(d[1])
        BY <1>1, <4>1
      <4>4. e \in D /\ e[1] = After(d[1], Tag(d[2]))
        BY <4>1, <4>3
      <4> HIDE DEF e
      <4>5. size[e] = Len(e[1]) /\ size[d] = Len(d[1])
        BY <4>4
      <4> QED BY <4>2, <4>3, <4>4, <4>5
    <3> QED BY <3>1
  <2> HIDE DEF D, size, final, next, start, join
  <2>6. Descends(D, FedRecord, size, final, next, start, join)
    BY <2>1, <2>2, <2>3, <2>4, <2>5 DEF Descends
  <2> QED BY <2>6, RecursionDefines
<1>4. PICK f \in [D -> FedRecord] :
         \A d \in D : f[d] = IF d \in final THEN start[d] ELSE join[<<d, f[next[d]]>>]
  BY <1>3
<1> DEFINE g == [b \in S |-> [w \in BOOLEAN |-> f[<<b, w>>]]]
<1>5. ASSUME NEW b \in S, NEW w \in BOOLEAN PROVE g[b][w] = Body(g, b, w)
  <2> DEFINE d == <<b, w>>
  <2>0. d \in D /\ d[1] = b /\ d[2] = w /\ g[b][w] = f[d]
    OBVIOUS
  <2>1. CASE ~More(b, w)
    <3>1. d \in final /\ start[d] = Last_(b, w)
      BY <2>0, <2>1
    <3>2. f[d] = Last_(b, w)
      <4> HIDE DEF final, start, join, next, d, D
      <4> QED BY <1>4, <2>0, <3>1
    <3> HIDE DEF g, d
    <3> QED BY <2>0, <2>1, <3>2
  <2>2. CASE More(b, w)
    <3> DEFINE e == <<After(b, Tag(w)), ~w>>
    <3>1. d \notin final /\ next[d] = e
      BY <2>0, <2>2
    <3>2. After(b, Tag(w)) \in S /\ (~w) \in BOOLEAN
      <4>1. After(b, Tag(w)) \in S
        BY <1>1, <2>2
      <4>2. (~w) \in BOOLEAN
        BY <1>b
      <4> QED BY <4>1, <4>2
    <3>3. e \in D /\ f[e] \in FedRecord
      BY <1>4, <3>2
    <3>4. g[After(b, Tag(w))][~w] = f[e]
      BY <3>2
    <3>5. f[d] = join[<<d, f[e]>>]
      <4> HIDE DEF final, start, join, next, d, e, D
      <4> QED BY <1>4, <2>0, <3>1
    <3>6. join[<<d, f[e]>>] = Then_(b, w, f[e])
      <4> DEFINE p == <<d, f[e]>>
      <4>1. p \in D \X FedRecord /\ p[1] = d /\ p[2] = f[e]
        BY <2>0, <3>3
      <4>2. p[1][1] = b /\ p[1][2] = w
        BY <2>0, <4>1
      <4> HIDE DEF p, d, e
      <4>3. join[p] = IF More(p[1][1], p[1][2]) THEN Then_(p[1][1], p[1][2], p[2]) ELSE some
        BY <4>1
      <4> QED BY <2>2, <4>1, <4>2, <4>3 DEF p
    <3> HIDE DEF g, d, e
    <3> QED BY <2>0, <2>2, <3>4, <3>5, <3>6
  <2> QED BY <2>1, <2>2
<1>6. Is(g)
  <2>1. \A b \in S : g[b] = [w \in BOOLEAN |-> g[b][w]]
    OBVIOUS
  <2>2. g = [b \in S |-> g[b]]
    OBVIOUS
  <2> HIDE DEF g, Body
  <2>3. \A b \in S : g[b] = [w \in BOOLEAN |-> Body(g, b, w)]
    <3>1. ASSUME NEW b \in S PROVE g[b] = [w \in BOOLEAN |-> Body(g, b, w)]
      <4>1. [w \in BOOLEAN |-> g[b][w]] = [w \in BOOLEAN |-> Body(g, b, w)]
        BY <1>5
      <4> QED BY <2>1, <4>1
    <3> QED BY <3>1
  <2>4. [b \in S |-> g[b]] = [b \in S |-> [w \in BOOLEAN |-> Body(g, b, w)]]
    BY <2>3
  <2> QED BY <2>2, <2>4
<1>7. Drain = CHOOSE h : Is(h)
  BY DEF Drain, More, Then_, Last_
<1> HIDE DEF Is, g
<1>8. Is(Drain)
  BY <1>6, <1>7
<1>9. \A b \in S, w \in BOOLEAN : Drain[b][w] = Body(Drain, b, w)
  <2>1. Drain = [b \in S |-> [w \in BOOLEAN |-> Body(Drain, b, w)]]
    BY <1>8 DEF Is
  <2> HIDE DEF Body
  <2>2. \A b \in S : Drain[b] = [w \in BOOLEAN |-> Body(Drain, b, w)]
    BY <2>1
  <2> QED BY <2>2
<1> QED BY <1>9 DEF More, Then_, Last_

-----------------------------------------------------------------------------
(* The argument: what has been let out, followed by what is visible of the *)
(* rest whatever the rest turns out to be, is what is visible of the whole.*)

\* What is still to be seen of `s' on one side of a tag.
Rest(within, s) ==
    IF within THEN (IF Places(s, ThinkClose) = {} THEN <<>> ELSE Visible[After(s, ThinkClose)])
    ELSE Visible[s]

LEMMA RestIs ==
    ASSUME NEW s \in Seq(Letters), NEW w \in BOOLEAN
    PROVE  /\ Rest(w, s) \in Seq(Letters)
           /\ Rest(w, s) = IF Places(s, Tag(w)) = {} THEN Seen(w, s)
                           ELSE Seen(w, Upto(s, Tag(w))) \o Rest(~w, After(s, Tag(w)))
<1>0. ThinkOpen \in Seq(Letters) /\ ThinkOpen # <<>> /\ ThinkClose \in Seq(Letters) /\ ThinkClose # <<>>
  BY FilterAssumption
<1>1. CASE w = FALSE
  <2>1. /\ Visible[s] \in Seq(Letters)
        /\ Visible[s] =
             IF Places(s, ThinkOpen) = {} THEN s
             ELSE Upto(s, ThinkOpen)
                     \o (IF Places(After(s, ThinkOpen), ThinkClose) = {} THEN <<>>
                         ELSE Visible[After(After(s, ThinkOpen), ThinkClose)])
    BY VisibleIs
  <2>2. Tag(w) = ThinkOpen /\ (~w) = TRUE
    BY <1>1 DEF Tag
  <2> QED BY <1>1, <2>1, <2>2 DEF Rest, Seen
<1>2. CASE w = TRUE
  <2>1. Tag(w) = ThinkClose /\ (~w) = FALSE
    BY <1>2 DEF Tag
  <2>2. CASE Places(s, ThinkClose) = {}
    BY <1>2, <2>1, <2>2, EmptySeq DEF Rest, Seen
  <2>3. CASE Places(s, ThinkClose) # {}
    <3>1. After(s, ThinkClose) \in Seq(Letters)
      BY <1>0, <2>3, PartsAre
    <3>2. Visible[After(s, ThinkClose)] \in Seq(Letters)
      BY <3>1, VisibleIs
    <3>3. <<>> \o Visible[After(s, ThinkClose)] = Visible[After(s, ThinkClose)]
      BY <3>2, ConcatEmptySeq
    <3> QED BY <1>2, <2>1, <2>3, <3>2, <3>3 DEF Rest, Seen
  <2> QED BY <2>2, <2>3
<1> QED BY <1>1, <1>2

\* The loop loses nothing and shows nothing of a span, whatever follows the buffer.
LEMMA DrainReads ==
    \A b \in Seq(Letters), w \in BOOLEAN :
       /\ Drain[b][w] \in FedRecord
       /\ Places(Drain[b][w].held, Tag(Drain[b][w].inside)) = {}
       /\ \A z \in Seq(Letters) :
             Rest(w, b \o z) = Drain[b][w].out \o Rest(Drain[b][w].inside, Drain[b][w].held \o z)
<1> DEFINE S == Seq(Letters)
           Reads(b, w, r) ==
              /\ r \in FedRecord
              /\ Places(r.held, Tag(r.inside)) = {}
              /\ \A z \in S : Rest(w, b \o z) = r.out \o Rest(r.inside, r.held \o z)
           B == {n \in Nat : \A b \in S, w \in BOOLEAN : Len(b) = n => Reads(b, w, Drain[b][w])}
<1>f. ASSUME NEW r \in FedRecord
      PROVE  r.out \in S /\ r.held \in S /\ r.inside \in BOOLEAN
  BY DEF FedRecord
<1>b. \A w \in BOOLEAN : (~w) \in BOOLEAN
  BY OtherSide
<1>1. ASSUME NEW n \in Nat, \A m \in Nat : m < n => m \in B,
             NEW b \in S, NEW w \in BOOLEAN, Len(b) = n, Places(b, Tag(w)) # {}
      PROVE  Reads(b, w, Drain[b][w])
  <2> DEFINE a == After(b, Tag(w))
             o == Seen(w, Upto(b, Tag(w)))
             v == ~w
             r == Drain[a][v]
             d == [r EXCEPT !.out = o \o @]
  <2>1. Tag(w) \in S /\ Tag(w) # <<>>
    BY TagsAre
  <2>2. a \in S /\ Upto(b, Tag(w)) \in S /\ Len(a) < n /\ Len(a) \in Nat
    BY <1>1, <2>1, PartsAre, LenProperties
  <2>3. o \in S /\ v \in BOOLEAN
    <3>1. o \in S
      BY <2>2, SeenType
    <3>2. v \in BOOLEAN
      BY <1>b
    <3> QED BY <3>1, <3>2
  <2>4. Reads(a, v, r)
    <3>1. Len(a) \in B
      BY <1>1, <2>2
    <3> HIDE DEF a, v, Reads
    <3> QED BY <2>2, <2>3, <3>1
  <2>5. Drain[b][w] = d
    BY <1>1, DrainIs
  <2>6. \A z \in S : /\ Places(b \o z, Tag(w)) # {}
                     /\ Upto(b \o z, Tag(w)) = Upto(b, Tag(w))
                     /\ After(b \o z, Tag(w)) = a \o z
    BY <1>1, <2>1, TagStays
  <2> HIDE DEF a, o, v, r
  <2>7. r.out \in S /\ r.held \in S /\ r.inside \in BOOLEAN
    BY <1>f, <2>4
  <2>8. d \in FedRecord /\ d.out = o \o r.out /\ d.held = r.held /\ d.inside = r.inside
    <3>1. o \o r.out \in S
      BY <2>3, <2>7, ConcatProperties
    <3> QED BY <2>4, <3>1 DEF FedRecord
  <2> HIDE DEF d
  <2>9. ASSUME NEW z \in S PROVE Rest(w, b \o z) = d.out \o Rest(d.inside, d.held \o z)
    <3>1. b \o z \in S /\ r.held \o z \in S /\ a \o z \in S
      BY <2>2, <2>7, ConcatProperties
    <3>2. Rest(w, b \o z) = o \o Rest(v, a \o z)
      <4>1. Rest(w, b \o z) = IF Places(b \o z, Tag(w)) = {} THEN Seen(w, b \o z)
                              ELSE Seen(w, Upto(b \o z, Tag(w))) \o Rest(~w, After(b \o z, Tag(w)))
        BY <3>1, RestIs
      <4> QED BY <2>6, <4>1 DEF o, v
    <3>3. Rest(v, a \o z) = r.out \o Rest(r.inside, r.held \o z)
      BY <2>4
    <3>4. Rest(r.inside, r.held \o z) \in S
      BY <2>7, <3>1, RestIs
    <3>5. o \o (r.out \o Rest(r.inside, r.held \o z)) = (o \o r.out) \o Rest(r.inside, r.held \o z)
      <4> DEFINE x == Rest(r.inside, r.held \o z)
                 y == r.out
      <4>1. x \in S /\ y \in S /\ o \in S
        BY <2>3, <2>7, <3>4
      <4> HIDE DEF x, y
      <4>2. o \o (y \o x) = (o \o y) \o x
        BY <4>1, Associates
      <4> QED BY <4>2 DEF x, y
    <3> QED BY <2>8, <3>2, <3>3, <3>5
  <2>10. Places(d.held, Tag(d.inside)) = {}
    BY <2>4, <2>8
  <2> QED BY <2>5, <2>8, <2>9, <2>10
<1>2. ASSUME NEW b \in S, NEW w \in BOOLEAN, Places(b, Tag(w)) = {}
      PROVE  Reads(b, w, Drain[b][w])
  <2> DEFINE tag == Tag(w)
             k == PartialTagSuffix(b, tag)
             u == SubSeq(b, 1, Len(b) - Len(k))
             d == [out |-> Seen(w, u), held |-> k, inside |-> w]
  <2>1. tag \in S /\ tag # <<>>
    BY TagsAre
  <2>2. /\ k \in S /\ u \in S /\ u \o k = b /\ Places(k, tag) = {}
        /\ \A z \in S : \A q : At(b \o z, tag, q) => q > Len(u)
    BY <1>2, <2>1, TailSplits
  <2>3. Drain[b][w] = d
    BY <1>2, DrainIs
  <2> HIDE DEF k, u
  <2>4. Seen(w, u) \in S
    BY <2>2, SeenType
  <2>5. d \in FedRecord /\ d.out = Seen(w, u) /\ d.held = k /\ d.inside = w
    BY <2>2, <2>4 DEF FedRecord
  <2> HIDE DEF d
  <2>6. ASSUME NEW z \in S PROVE Rest(w, b \o z) = Seen(w, u) \o Rest(w, k \o z)
    <3> DEFINE t == k \o z
    <3>1. t \in S /\ b \o z \in S
      BY <2>2, ConcatProperties
    <3>2. b \o z = u \o t
      BY <2>2, Associates
    <3> HIDE DEF t, tag
    <3>3. \A q : At(u \o t, tag, q) => q > Len(u)
      BY <2>2, <3>2
    <3>4. /\ Places(u \o t, tag) = {} <=> Places(t, tag) = {}
          /\ Places(t, tag) # {} =>
                Upto(u \o t, tag) = u \o Upto(t, tag) /\ After(u \o t, tag) = After(t, tag)
      BY <2>1, <2>2, <3>1, <3>3, Shifted
    <3>5. CASE Places(t, tag) = {}
      <4>1. Rest(w, b \o z) = Seen(w, u \o t)
        BY <3>1, <3>2, <3>4, <3>5, RestIs DEF tag
      <4>2. Rest(w, t) = Seen(w, t)
        BY <3>1, <3>5, RestIs DEF tag
      <4>3. Seen(w, u \o t) = Seen(w, u) \o Seen(w, t)
        BY EmptySeq, ConcatEmptySeq DEF Seen
      <4> QED BY <4>1, <4>2, <4>3 DEF t
    <3>6. CASE Places(t, tag) # {}
      <4> DEFINE p == Upto(t, tag)
                 y == Rest(~w, After(t, tag))
      <4>1. Rest(w, b \o z) = Seen(w, u \o p) \o y
        <5>1. Rest(w, b \o z) = IF Places(b \o z, tag) = {} THEN Seen(w, b \o z)
                                ELSE Seen(w, Upto(b \o z, tag)) \o Rest(~w, After(b \o z, tag))
          BY <3>1, RestIs DEF tag
        <5> QED BY <3>2, <3>4, <3>6, <5>1
      <4>2. Rest(w, t) = Seen(w, p) \o y
        BY <3>1, <3>6, RestIs DEF tag
      <4>3. p \in S /\ After(t, tag) \in S
        BY <2>1, <3>1, <3>6, PartsAre
      <4>4. y \in S
        <5>1. (~w) \in BOOLEAN
          BY <1>b
        <5> QED BY <4>3, <5>1, RestIs
      <4> HIDE DEF p, y
      <4>5. Seen(w, u \o p) = Seen(w, u) \o Seen(w, p)
        BY EmptySeq, ConcatEmptySeq DEF Seen
      <4>6. Seen(w, p) \in S
        BY <4>3, SeenType
      <4>7. (Seen(w, u) \o Seen(w, p)) \o y = Seen(w, u) \o (Seen(w, p) \o y)
        BY <2>4, <4>4, <4>6, Associates
      <4> QED BY <4>1, <4>2, <4>5, <4>7 DEF t
    <3> QED BY <3>5, <3>6
  <2> QED BY <2>2, <2>3, <2>5, <2>6
<1>3. ASSUME NEW n \in Nat, \A m \in Nat : m < n => m \in B PROVE n \in B
  <2>1. ASSUME NEW b \in S, NEW w \in BOOLEAN, Len(b) = n PROVE Reads(b, w, Drain[b][w])
    <3> HIDE DEF Reads, B
    <3>1. CASE Places(b, Tag(w)) # {}
      BY <1>1, <1>3, <2>1, <3>1
    <3>2. CASE Places(b, Tag(w)) = {}
      BY <1>2, <3>2
    <3> QED BY <3>1, <3>2
  <2> HIDE DEF Reads
  <2> QED BY <2>1
<1> HIDE DEF B
<1>4. \A n \in Nat : n \in B
  BY <1>3, BelowInduction
<1>5. \A b \in S, w \in BOOLEAN : Reads(b, w, Drain[b][w])
  <2> HIDE DEF Reads
  <2> QED BY <1>4, LenProperties DEF B
<1> QED BY <1>5

FilterTypeOK ==
    /\ text \in Seq(Letters) /\ held \in Seq(Letters) /\ shown \in Seq(Letters)
    /\ inside \in BOOLEAN
    /\ ended \in {"no", "flushed", "failed"}

\* What keeps the promise however the rest of the answer is cut.
FilterInv ==
    /\ FilterTypeOK
    /\ ended = "flushed" => shown = Visible[text]
    /\ ended # "flushed" =>
         /\ Places(held, Tag(inside)) = {}
         /\ \A z \in Seq(Letters) : Visible[text \o z] = shown \o Rest(inside, held \o z)

LEMMA FilterInitInv == FilterInit => FilterInv
<1> SUFFICES ASSUME FilterInit PROVE FilterInv
  OBVIOUS
<1>1. FilterTypeOK
  BY EmptySeq DEF FilterInit, FilterTypeOK
<1>2. Places(<<>>, Tag(FALSE)) = {}
  <2> DEFINE tag == Tag(FALSE)
  <2>1. tag \in Seq(Letters) /\ tag # <<>> /\ <<>> \in Seq(Letters) /\ Len(<<>>) = 0
    BY TagsAre, EmptySeq
  <2> HIDE DEF tag
  <2>2. Len(tag) \in Nat /\ Len(tag) # 0
    BY <2>1, EmptySeq
  <2>3. ASSUME NEW q, At(<<>>, tag, q) PROVE FALSE
    <3>1. q \in Nat /\ q # 0 /\ q + Len(tag) - 1 <= 0
      BY <2>1, <2>3 DEF At
    <3> QED BY <2>2, <3>1
  <2>4. Places(<<>>, tag) = {}
    BY <2>1, <2>3, PlacesAre
  <2> QED BY <2>4 DEF tag
<1>3. ASSUME NEW z \in Seq(Letters) PROVE Visible[<<>> \o z] = <<>> \o Rest(FALSE, <<>> \o z)
  <2>1. <<>> \o z = z /\ Visible[z] \in Seq(Letters)
    BY ConcatEmptySeq, VisibleIs
  <2>2. <<>> \o Visible[z] = Visible[z]
    BY <2>1, ConcatEmptySeq
  <2> QED BY <2>1, <2>2 DEF Rest
<1> QED BY <1>1, <1>2, <1>3 DEF FilterInit, FilterInv

\* At the end of what has arrived nothing is to be seen but what was held back.
LEMMA NothingFollows ==
    ASSUME FilterInv, ended # "flushed"
    PROVE  Visible[text] = shown \o Trailing
<1>1. <<>> \in Seq(Letters) /\ text \o <<>> = text /\ held \o <<>> = held
  BY EmptySeq, ConcatEmptySeq DEF FilterInv, FilterTypeOK
<1>2. Visible[text \o <<>>] = shown \o Rest(inside, held \o <<>>)
  BY <1>1 DEF FilterInv
<1>3. Rest(inside, held) = Seen(inside, held)
  BY RestIs DEF FilterInv, FilterTypeOK
<1> QED BY <1>1, <1>2, <1>3 DEF Trailing

LEMMA FeedKeeps ==
    ASSUME FilterInv, NEW delta \in Seq(Letters), Feed(delta)
    PROVE  FilterInv'
<1> DEFINE fed == Drain[held \o delta][inside]
<1>0. /\ text \in Seq(Letters) /\ held \in Seq(Letters) /\ shown \in Seq(Letters)
      /\ inside \in BOOLEAN /\ ended = "no"
  BY DEF FilterInv, FilterTypeOK, Feed
<1>1. held \o delta \in Seq(Letters) /\ text \o delta \in Seq(Letters)
  BY <1>0, ConcatProperties
<1>2. /\ fed \in FedRecord
      /\ Places(fed.held, Tag(fed.inside)) = {}
      /\ \A z \in Seq(Letters) :
            Rest(inside, (held \o delta) \o z) = fed.out \o Rest(fed.inside, fed.held \o z)
  BY <1>0, <1>1, DrainReads
<1>3. /\ text' = text \o delta /\ held' = fed.held /\ inside' = fed.inside
      /\ shown' = shown \o fed.out /\ ended' = ended
  BY DEF Feed
<1> HIDE DEF fed
<1>4. fed.out \in Seq(Letters) /\ fed.held \in Seq(Letters) /\ fed.inside \in BOOLEAN
  BY <1>2 DEF FedRecord
<1>5. FilterTypeOK'
  <2>1. shown \o fed.out \in Seq(Letters)
    BY <1>0, <1>4, ConcatProperties
  <2> QED BY <1>0, <1>1, <1>3, <1>4, <2>1 DEF FilterTypeOK
<1>6. ASSUME NEW z \in Seq(Letters)
      PROVE  Visible[(text \o delta) \o z] = (shown \o fed.out) \o Rest(fed.inside, fed.held \o z)
  <2>1. delta \o z \in Seq(Letters) /\ fed.held \o z \in Seq(Letters)
    BY <1>4, ConcatProperties
  <2>2. (text \o delta) \o z = text \o (delta \o z) /\ (held \o delta) \o z = held \o (delta \o z)
    <3>1. (text \o delta) \o z = text \o (delta \o z)
      BY <1>0, Associates, Zenon
    <3>2. (held \o delta) \o z = held \o (delta \o z)
      BY <1>0, Associates, Zenon
    <3> QED BY <3>1, <3>2
  <2>3. Visible[text \o (delta \o z)] = shown \o Rest(inside, held \o (delta \o z))
    BY <1>0, <2>1 DEF FilterInv
  <2>4. Rest(inside, (held \o delta) \o z) = fed.out \o Rest(fed.inside, fed.held \o z)
    BY <1>2
  <2>5. Rest(fed.inside, fed.held \o z) \in Seq(Letters)
    BY <1>4, <2>1, RestIs
  <2>6. shown \o (fed.out \o Rest(fed.inside, fed.held \o z))
          = (shown \o fed.out) \o Rest(fed.inside, fed.held \o z)
    <3> DEFINE x == Rest(fed.inside, fed.held \o z)
               y == fed.out
    <3>1. x \in Seq(Letters) /\ y \in Seq(Letters) /\ shown \in Seq(Letters)
      BY <1>0, <1>4, <2>5
    <3> HIDE DEF x, y
    <3>2. shown \o (y \o x) = (shown \o y) \o x
      BY <3>1, Associates, Zenon
    <3> QED BY <3>2 DEF x, y
  <2> QED BY <2>2, <2>3, <2>4, <2>6
<1> QED BY <1>0, <1>2, <1>3, <1>5, <1>6 DEF FilterInv

LEMMA FilterStepInv == FilterInv /\ [FilterNext]_filterVars => FilterInv'
<1> SUFFICES ASSUME FilterInv, [FilterNext]_filterVars PROVE FilterInv'
  OBVIOUS
<1>1. ASSUME NEW delta \in BoundedSeq(Letters, MaxDelta), Feed(delta) PROVE FilterInv'
  <2>1. delta \in Seq(Letters)
    <3>1. PICK m \in 0 .. MaxDelta : delta \in [1 .. m -> Letters]
      BY FilterAssumption DEF BoundedSeq, SeqOf
    <3>2. m \in Nat
      BY FilterAssumption
    <3> QED BY <3>1, <3>2
  <2> QED BY <1>1, <2>1, FeedKeeps
<1>2. CASE Flush
  <2>1. /\ ended = "no" /\ ended' = "flushed" /\ shown' = shown \o Trailing /\ held' = <<>>
        /\ text' = text /\ inside' = inside
    BY <1>2 DEF Flush
  <2>2. Visible[text] = shown \o Trailing
    BY <2>1, NothingFollows
  <2>3. Visible[text] \in Seq(Letters)
    BY VisibleIs DEF FilterInv, FilterTypeOK
  <2>4. FilterTypeOK'
    BY <2>1, <2>2, <2>3, EmptySeq DEF FilterInv, FilterTypeOK
  <2> QED BY <2>1, <2>2, <2>4 DEF FilterInv
<1>3. CASE StreamFails
  <2>1. /\ ended = "no" /\ ended' = "failed"
        /\ text' = text /\ held' = held /\ inside' = inside /\ shown' = shown
    BY <1>3 DEF StreamFails
  <2> QED BY <2>1 DEF FilterInv, FilterTypeOK
<1>4. CASE UNCHANGED filterVars
  BY <1>4 DEF filterVars, FilterInv, FilterTypeOK
<1> QED BY <1>1, <1>2, <1>3, <1>4 DEF FilterNext

LEMMA FilterInvShows == FilterInv => ShownIsVisible
<1> SUFFICES ASSUME FilterInv PROVE ShownIsVisible
  OBVIOUS
<1>0. text \in Seq(Letters) /\ held \in Seq(Letters) /\ shown \in Seq(Letters) /\ inside \in BOOLEAN
      /\ ended \in {"no", "flushed", "failed"}
  BY DEF FilterInv, FilterTypeOK
<1>1. CASE ended = "flushed"
  <2>1. shown = Visible[text]
    BY <1>1 DEF FilterInv
  <2>2. IsPrefix(shown, shown)
    BY <1>0, LenProperties DEF IsPrefix
  <2> QED BY <1>1, <2>1, <2>2 DEF ShownIsVisible
<1>2. CASE ended # "flushed"
  <2>1. Visible[text] = shown \o Trailing
    BY <1>2, NothingFollows
  <2>2. Trailing \in Seq(Letters)
    BY <1>0, SeenType DEF Trailing
  <2>3. IsPrefix(shown, shown \o Trailing)
    <3> DEFINE n == Len(shown)
               v == shown \o Trailing
    <3>1. /\ n \in Nat /\ v \in Seq(Letters) /\ Len(v) = n + Len(Trailing) /\ Len(Trailing) \in Nat
          /\ \A i \in 1 .. n + Len(Trailing) : v[i] = IF i <= n THEN shown[i] ELSE Trailing[i - n]
      BY <1>0, <2>2, ConcatProperties, LenProperties
    <3> HIDE DEF v
    <3>2. SubSeq(shown, 1, n) = shown
      BY <1>0, SubSeqFull
    <3>3. /\ SubSeq(v, 1, n) \in Seq(Letters) /\ Len(SubSeq(v, 1, n)) = n
          /\ \A i \in 1 .. n : SubSeq(v, 1, n)[i] = v[i]
      <4> HIDE DEF n
      <4>1. 1 <= n + 1 /\ n <= Len(v) /\ n - 1 + 1 = n /\ \A i \in 1 .. n : 1 + i - 1 = i
        BY <3>1
      <4> QED BY <3>1, <4>1, PieceIs
    <3>4. \A i \in 1 .. Len(shown) : shown[i] = SubSeq(v, 1, n)[i]
      BY <3>1, <3>3
    <3>5. shown = SubSeq(v, 1, n)
      BY <1>0, <3>3, <3>4, SeqEqual
    <3>6. n <= Len(v)
      <4> HIDE DEF n
      <4> QED BY <3>1
    <3> QED BY <3>2, <3>5, <3>6 DEF IsPrefix, v
  <2> QED BY <1>0, <1>2, <2>1, <2>3 DEF ShownIsVisible
<1> QED BY <1>1, <1>2

\* However a provider cuts an answer of whatever length, with whatever tags, the visitor
\* reads the same, and never a letter of a span (ReasoningFilter.feed and flush).
THEOREM ShownIsVisibleHolds == FilterSpec => []ShownIsVisible
<1> QED BY FilterInitInv, FilterStepInv, FilterInvShows, PTL DEF FilterSpec
=============================================================================
