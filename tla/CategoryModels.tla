--------------------------- MODULE CategoryModels ---------------------------
(***************************************************************************)
(* The merge of model updates, src/src/qorme/ml/store.py (CategoryModels).  *)
(*                                                                         *)
(* A model is updated on its own, so one model is enough.  Its server,     *)
(* which is external, publishes numbered updates; each carries the samples *)
(* that have become stable or unstable since, and may repeat others.  Each *)
(* event stream hands the updates over in order and may repeat some after  *)
(* it has been resumed.                                                    *)
(***************************************************************************)
EXTENDS Naturals, SequencesExt

CONSTANTS
  Hashes,     \* hash values of samples
  Confs,      \* configurations of the model
  LastUpdate,       \* bound: the number of updates
  Streams,    \* event streams that hand them over
  NoModel

\* A sample of a model: the update it became stable or unstable with, and which.
SampleUpdate == [at : 1..LastUpdate, stable : BOOLEAN]

\* The samples of a model by their hash value.
SampleMaps == UNION {[H -> SampleUpdate] : H \in SUBSET Hashes}

Models == [at : 1..LastUpdate, conf : Confs, samples : SampleMaps]

ASSUME ModelsAssumption == LastUpdate \in Nat \ {0} /\ NoModel \notin Models

VARIABLES
  changes,    \* external: what each update says of each sample
  confs,      \* external: the configuration each update is for
  model,      \* self.models[name]
  handed,     \* the number of the update a stream has handed over last
  seen        \* history: the number of the latest update handed over

modelVars == <<changes, confs, model, handed, seen>>

Kinds == {"absent", "stable", "unstable", "repeated"}

\* The latest update up to n that changed the sample h.
Change(h, n) == {i \in 1..n : changes[i][h] \in {"stable", "unstable"}}

\* sample_updates of update n.
SampleUpdates(n) ==
  [h \in {g \in Hashes : changes[n][g] # "absent" /\ Change(g, n) # {}} |->
     LET i == Max(Change(h, n)) IN [at |-> i, stable |-> changes[i][h] = "stable"]]

Update(n) == [at |-> n, conf |-> confs[n], samples |-> SampleUpdates(n)]
-----------------------------------------------------------------------------
(* update_models for one model.                                             *)

\* A model without samples is not kept.
Kept(update, samples) ==
  IF DOMAIN samples = {}
  THEN NoModel
  ELSE [at |-> update.at, conf |-> update.conf, samples |-> samples]

StableOnly(samples) == Restrict(samples, {h \in DOMAIN samples : samples[h].stable})

\* The samples of base after those of an update: a newer copy is kept, a sample
\* that is no longer stable is removed.
Merged(base, samples) ==
  LET skipped  == {h \in DOMAIN base \cap DOMAIN samples : base[h].at >= samples[h].at}
      accepted == {h \in DOMAIN samples \ skipped : samples[h].stable}
      left     == (DOMAIN base \ DOMAIN samples) \cup skipped
  IN  [h \in accepted \cup left |-> IF h \in accepted THEN samples[h] ELSE base[h]]

\* Variant for a mutation: samples of another configuration are kept.
UpdatedAcrossConfs(update) ==
  IF model = NoModel
  THEN Kept(update, StableOnly(update.samples))
  ELSE IF model.at >= update.at
  THEN model
  ELSE Kept(update, Merged(model.samples, update.samples))

\* Variant for a mutation: an update that is not newer is applied all the same.
UpdatedUnguarded(update) ==
  IF model = NoModel
  THEN Kept(update, StableOnly(update.samples))
  ELSE Kept(update, Merged(IF model.conf = update.conf THEN model.samples ELSE <<>>,
                           update.samples))

Updated(update) ==
  IF model = NoModel
  THEN Kept(update, StableOnly(update.samples))
  ELSE IF model.at >= update.at
  THEN model
  ELSE Kept(update, Merged(IF model.conf = update.conf THEN model.samples ELSE <<>>,
                           update.samples))
-----------------------------------------------------------------------------
Deliver(s) ==
  /\ handed[s] < LastUpdate
  /\ handed' = [handed EXCEPT ![s] = @ + 1]
  /\ seen' = Max({seen, handed[s] + 1})
  /\ model' = Updated(Update(handed[s] + 1))
  /\ UNCHANGED <<changes, confs>>

\* A resumed stream repeats updates it has handed over before.
Resume(s) ==
  /\ \E n \in 0..(handed[s] - 1) : handed' = [handed EXCEPT ![s] = n]
  /\ UNCHANGED <<changes, confs, model, seen>>

ModelsInit ==
  /\ changes \in [1..LastUpdate -> [Hashes -> Kinds]]
  /\ confs \in [1..LastUpdate -> Confs]
  /\ model = NoModel
  /\ handed = [s \in Streams |-> 0]
  /\ seen = 0

ModelsNext == \E s \in Streams : Deliver(s) \/ Resume(s)

ModelsSpec == ModelsInit /\ [][ModelsNext]_modelVars
-----------------------------------------------------------------------------
(* Properties.                                                              *)

Samples == IF model = NoModel THEN <<>> ELSE model.samples

\* The update since which the configuration is that of update n.
Since(n) == Max({i \in 1..n : i = 1 \/ confs[i] # confs[i - 1]})

\* The updates of this configuration that mention a sample, and what the latest says.
Mentions(h, n) == {i \in Since(n)..n : h \in DOMAIN SampleUpdates(i)}
Latest(h, n) == SampleUpdates(Max(Mentions(h, n)))[h]

\* What a model that missed nothing holds after update n: every sample whose
\* latest mention under the current configuration is stable.
Reference(n) ==
  [h \in {g \in Hashes : Mentions(g, n) # {} /\ Latest(g, n).stable} |-> Latest(h, n)]

\* A stream that repeats updates leaves no trace of it once it has caught up: the
\* samples are those of a model that has seen every update once, in order.
MatchesServer == \A s \in Streams : handed[s] = seen /\ seen > 0 => Samples = Reference(seen)

\* While a model is kept its readers never see it, or a sample of it, replaced by
\* an older copy, whatever a stream repeats.
NeverOlder ==
  [][model # NoModel /\ model' # NoModel =>
       /\ model'.at >= model.at
       /\ \A h \in DOMAIN model.samples \cap DOMAIN model'.samples :
            model'.samples[h].at >= model.samples[h].at]_modelVars
=============================================================================
