---------------------------- MODULE CurriculumTree ----------------------------
(* The authored YAML tree, its two loaders, the cross-file validators, the   *)
(* compiler and the indexes of the catalog (content_yaml_loader.py,          *)
(* content_compiler.py, content_catalog.py, schemas.py). Authors edit one    *)
(* file at a time; the validation script reads the tree with the tolerant    *)
(* loader, the compiler with the strict one, and a process indexes what the  *)
(* compiler wrote.                                                           *)
EXTENDS Integers, Sequences, FiniteSets, SequencesExt

CONSTANTS
  Stems,      \* file names, also the values a slug field may hold
  MaxEdits    \* bound: the edits an author makes

\* The first tree has a requirement of another name in each directory.
ASSUME StemAssumption == IsFiniteSet(Stems) /\ Cardinality(Stems) >= 2
ASSUME EditAssumption == MaxEdits \in Nat

Dirs == 1..2     \* phase directories, in the order sorted(iterdir()) gives
NoTree == <<>>

VARIABLES
  meta,       \* [Dirs -> _phase.yaml: parses, uuid, order, topics, requirements]
  topicFile,  \* [Dirs \X Stems -> a topic file]
  reqFile,    \* [Dirs \X Stems -> a requirement file]
  validated,  \* what the last validation reported of the tree as it stands
  compiled,   \* what the last compile did with the tree as it stands
  artifact,   \* the phases in the artifact a process loads
  edits

vars == <<meta, topicFile, reqFile, validated, compiled, artifact, edits>>

------------------------------------------------------------------------------
(* The files *)

Uuid(kind, d, s, n) == <<kind, d, s, n>>
Uuids == {"phase", "topic", "step", "requirement"} \X Dirs \X (Stems \cup {0}) \X (0..2)

PhaseFile ==   \* _phase.yaml, without the texts
  [parses : BOOLEAN, uuid : Uuids, order : 0..Cardinality(Dirs),
   topics : Seq(Stems), reqs : Seq(Stems)]

StepEntry == [uuid : Uuids, slug : 1..2, order : 1..2]

TopicFile == [parses : BOOLEAN, uuid : Uuids, slug : Stems, steps : Seq(StepEntry)]

\* Whether a requirement parses covers the configuration of its type.
RequirementFile == [parses : BOOLEAN, uuid : Uuids, slug : Stems]

(* What the loaders build of them *)

Topic == [uuid : Uuids, slug : Stems, order : Nat, steps : Seq(StepEntry)]
Requirement == [uuid : Uuids, slug : Stems]
Phase ==
  [dir : Dirs, uuid : Uuids, order : 0..Cardinality(Dirs),
   topicSlugs : Seq(Stems), reqSlugs : Seq(Stems),
   topics : Seq(Topic), reqs : Seq(Requirement)]

------------------------------------------------------------------------------
(* What one file yields *)

\* The steps of a topic file carry explicit slugs, each used once, and the
\* file carries no order of its own.
TopicLoads(d, s) ==
  LET file == topicFile[<<d, s>>] IN
    /\ file.parses
    /\ IsInjective([i \in DOMAIN file.steps |-> file.steps[i].slug])

\* A requirement's slug is its file name, and its type one of the union's.
RequirementLoads(d, s) == reqFile[<<d, s>>].parses /\ reqFile[<<d, s>>].slug = s

BuiltTopic(d, s, i) ==
  [uuid |-> topicFile[<<d, s>>].uuid, slug |-> topicFile[<<d, s>>].slug, order |-> i,
   steps |-> topicFile[<<d, s>>].steps]

BuiltRequirement(d, s) == [uuid |-> reqFile[<<d, s>>].uuid, slug |-> reqFile[<<d, s>>].slug]

\* The positions a filter keeps, in the order of the list.
Ascending(positions) ==
  CHOOSE f \in [1..Cardinality(positions) -> positions] :
    \A i, j \in DOMAIN f : i < j => f[i] < f[j]

KeptTopics(d) == Ascending({i \in DOMAIN meta[d].topics : TopicLoads(d, meta[d].topics[i])})
KeptRequirements(d) ==
  Ascending({i \in DOMAIN meta[d].reqs : RequirementLoads(d, meta[d].reqs[i])})

\* The phase the tolerant loader builds: what does not load is skipped, the
\* listed slugs are kept beside what was loaded, and a topic's order is its
\* place in the list.
BuiltFrom(d, topics) ==
  [dir |-> d, uuid |-> meta[d].uuid, order |-> meta[d].order,
   topicSlugs |-> meta[d].topics, reqSlugs |-> meta[d].reqs, topics |-> topics,
   reqs |-> [n \in DOMAIN KeptRequirements(d) |->
               BuiltRequirement(d, meta[d].reqs[KeptRequirements(d)[n]])]]

\* Defect: topics are loaded in the order of their file names.
BuiltPhaseByName(d) ==
  LET kept == KeptTopics(d)
  IN BuiltFrom(d, [n \in DOMAIN kept |->
                     BuiltTopic(d, meta[d].topics[kept[Len(kept) + 1 - n]], n)])

BuiltPhase(d) ==
  BuiltFrom(d, [n \in DOMAIN KeptTopics(d) |->
                  BuiltTopic(d, meta[d].topics[KeptTopics(d)[n]], KeptTopics(d)[n])])

\* sorted(phases, key=order): stable over the directory order.
Before(p, q) == p.order < q.order \/ (p.order = q.order /\ p.dir < q.dir)
InOrder(dirs) ==
  CHOOSE phases \in [1..Cardinality(dirs) -> {BuiltPhase(d) : d \in dirs}] :
    \A i, j \in DOMAIN phases : i < j => Before(phases[i], phases[j])

TolerantLoad == InOrder({d \in Dirs : meta[d].parses})

\* The strict loader raises on the first thing the tolerant one would skip.
StrictlyLoads ==
  \A d \in Dirs :
    /\ meta[d].parses
    /\ \A s \in Range(meta[d].topics) : TopicLoads(d, s)
    /\ \A s \in Range(meta[d].reqs) : RequirementLoads(d, s)

------------------------------------------------------------------------------
(* The cross-file validators *)

Topics(phases) == FlattenSeq([i \in DOMAIN phases |-> phases[i].topics])
Steps(phases) ==
  LET topics == Topics(phases) IN FlattenSeq([i \in DOMAIN topics |-> topics[i].steps])
Requirements(phases) == FlattenSeq([i \in DOMAIN phases |-> phases[i].reqs])

Field(entities, name) == [i \in DOMAIN entities |-> entities[i][name]]

\* The uuids of a topic's objectives, which no index holds, are left out.
UuidsUnique(phases) ==
  IsInjective(Field(phases, "uuid") \o Field(Requirements(phases), "uuid")
              \o Field(Topics(phases), "uuid") \o Field(Steps(phases), "uuid"))

TopicSlugsResolve(phases) ==
  \A i \in DOMAIN phases : Len(phases[i].topics) >= Len(phases[i].topicSlugs)

StepOrdersUnique(phases) ==
  \A i \in DOMAIN Topics(phases) : IsInjective(Field(Topics(phases)[i].steps, "order"))

RequirementSlugsResolve(phases) ==
  \A i \in DOMAIN phases : Len(phases[i].reqs) >= Len(phases[i].reqSlugs)

\* Defect: a slug is compared with those of its own phase only.
RequirementSlugsUniquePerPhase(phases) ==
  \A i \in DOMAIN phases : IsInjective(Field(phases[i].reqs, "slug"))

RequirementSlugsUnique(phases) == IsInjective(Field(Requirements(phases), "slug"))

OrdersGapless(phases) == Field(phases, "order") = [i \in DOMAIN phases |-> i - 1]

ContentValid(phases) ==
  /\ UuidsUnique(phases)
  /\ TopicSlugsResolve(phases)
  /\ StepOrdersUnique(phases)
  /\ RequirementSlugsResolve(phases)
  /\ RequirementSlugsUnique(phases)
  /\ OrdersGapless(phases)

------------------------------------------------------------------------------
(* The catalog's indexes: one pass, a later entry under a key replacing an   *)
(* earlier one.                                                              *)

Indexed(entities, name) ==
  [k \in {entities[i][name] : i \in DOMAIN entities} |->
     entities[SelectLastInSeq(entities, LAMBDA e : e[name] = k)]]

Owned(phases) ==   \* every topic and step beside the phase it is read from
  FlattenSeq([i \in DOMAIN phases |->
    FlattenSeq([j \in DOMAIN phases[i].topics |->
      [k \in DOMAIN phases[i].topics[j].steps |->
         [uuid |-> phases[i].topics[j].steps[k].uuid,
          topic |-> phases[i].topics[j].uuid,
          phase |-> phases[i].order]]])])

Sited(phases) ==   \* every topic beside the slugs a URL would name it by
  FlattenSeq([i \in DOMAIN phases |->
    [j \in DOMAIN phases[i].topics |->
       [at |-> <<phases[i].dir, phases[i].topics[j].slug>>, topic |-> phases[i].topics[j]]]])

Catalog(phases) ==
  [phases_by_slug       |-> Indexed(phases, "dir"),
   phases_by_order      |-> Indexed(phases, "order"),
   topics_by_uuid       |-> Indexed(Topics(phases), "uuid"),
   topics_by_phase_and_slug |-> Indexed(Sited(phases), "at"),
   steps_by_uuid        |-> Indexed(Steps(phases), "uuid"),
   owner_by_step_uuid   |-> Indexed(Owned(phases), "uuid"),
   requirements_by_uuid |-> Indexed(Requirements(phases), "uuid"),
   requirements_by_slug |-> Indexed(Requirements(phases), "slug")]

------------------------------------------------------------------------------
(* Authors, the two scripts and a process that loads the artifact *)

\* A valid tree: each directory lists its topics in the order of Stems and one
\* requirement; the first topic of a directory has two steps.
StemSeq == SetToSeq(Stems)

Init ==
  /\ meta = [d \in Dirs |->
       [parses |-> TRUE, uuid |-> Uuid("phase", d, 0, 0), order |-> d - 1,
        topics |-> StemSeq, reqs |-> <<StemSeq[d]>>]]
  /\ topicFile = [f \in Dirs \X Stems |->
       [parses |-> TRUE, uuid |-> Uuid("topic", f[1], f[2], 0), slug |-> f[2],
        steps |-> [n \in 1..(IF f[2] = StemSeq[1] THEN 2 ELSE 1) |->
          [uuid |-> Uuid("step", f[1], f[2], n), slug |-> n, order |-> n]]]]
  /\ reqFile = [f \in Dirs \X Stems |->
       [parses |-> TRUE, uuid |-> Uuid("requirement", f[1], f[2], 0), slug |-> f[2]]]
  /\ validated = "unknown"
  /\ compiled = "unknown"
  /\ artifact = NoTree
  /\ edits = 0

Edited ==
  /\ edits < MaxEdits
  /\ edits' = edits + 1
  /\ validated' = "unknown"
  /\ compiled' = "unknown"
  /\ UNCHANGED artifact

\* A phase file is broken or deleted, renumbered, or lists other slugs.
EditPhase(d) ==
  /\ Edited
  /\ \/ meta' = [meta EXCEPT ![d].parses = FALSE]
     \/ \E o \in 0..Cardinality(Dirs) : meta' = [meta EXCEPT ![d].order = o]
     \/ \E s \in Stems : meta' = [meta EXCEPT ![d].topics = Append(@, s)]
     \/ meta' = [meta EXCEPT ![d].topics = Reverse(@)]
     \/ \E s \in Stems : meta' = [meta EXCEPT ![d].reqs = Append(@, s)]
  /\ UNCHANGED <<topicFile, reqFile>>

\* A topic file is broken, takes another slug, or is copied over another with
\* its identifiers; a step takes the slug, the order or the uuid of another.
EditTopic(d, s) ==
  /\ Edited
  /\ \/ topicFile' = [topicFile EXCEPT ![<<d, s>>].parses = FALSE]
     \/ \E t \in Stems : topicFile' = [topicFile EXCEPT ![<<d, s>>].slug = t]
     \/ \E f \in Dirs \X Stems : topicFile' = [topicFile EXCEPT ![<<d, s>>].uuid = topicFile[f].uuid]
     \/ \E n \in DOMAIN topicFile[<<d, s>>].steps :
          \/ topicFile' = [topicFile EXCEPT ![<<d, s>>].steps[n].slug = 1]
          \/ topicFile' = [topicFile EXCEPT ![<<d, s>>].steps[n].order = 1]
     \/ \E f \in Dirs \X Stems :
          topicFile' = [topicFile EXCEPT ![<<d, s>>].steps[1].uuid = topicFile[f].steps[1].uuid]
  /\ UNCHANGED <<meta, reqFile>>

EditRequirement(d, s) ==
  /\ Edited
  /\ \/ reqFile' = [reqFile EXCEPT ![<<d, s>>].parses = FALSE]
     \/ \E t \in Stems : reqFile' = [reqFile EXCEPT ![<<d, s>>].slug = t]
     \/ \E f \in Dirs \X Stems : reqFile' = [reqFile EXCEPT ![<<d, s>>].uuid = topicFile[f].uuid]
  /\ UNCHANGED <<meta, topicFile>>

\* scripts/validate_content.py: the validators over the tolerant load.
Validate ==
  /\ validated' = IF ContentValid(TolerantLoad) THEN "ok" ELSE "errors"
  /\ UNCHANGED <<meta, topicFile, reqFile, compiled, artifact, edits>>

\* scripts/compile_curriculum.py: a strict load, the same validators, and the
\* artifact replaced only when both succeed.
Compile ==
  LET phases == InOrder(Dirs)
      good == StrictlyLoads /\ ContentValid(phases)
  IN /\ compiled' = IF good THEN "ok" ELSE "failed"
     /\ artifact' = IF good THEN phases ELSE artifact
     /\ UNCHANGED <<meta, topicFile, reqFile, validated, edits>>

Next ==
  \/ \E d \in Dirs : EditPhase(d)
  \/ \E d \in Dirs, s \in Stems : EditTopic(d, s) \/ EditRequirement(d, s)
  \/ Validate
  \/ Compile

Spec == Init /\ [][Next]_vars

------------------------------------------------------------------------------
(* Properties *)

\* Type invariant: what the tree holds and what the scripts reported of it.
TypeOK ==
  /\ meta \in [Dirs -> PhaseFile]
  /\ topicFile \in [Dirs \X Stems -> TopicFile]
  /\ reqFile \in [Dirs \X Stems -> RequirementFile]
  /\ validated \in {"unknown", "ok", "errors"}
  /\ compiled \in {"unknown", "ok", "failed"}
  /\ artifact \in Seq(Phase)
  /\ edits \in 0..MaxEdits

\* What a compile just wrote holds every phase directory in gapless order,
\* every topic at its place in the list and every requirement listed, whatever
\* files were broken, missing or misnamed on the way.
CompiledIsWhole ==
  compiled = "ok" =>
    /\ {artifact[i].dir : i \in DOMAIN artifact} = Dirs
    /\ \A i \in DOMAIN artifact :
         LET d == artifact[i].dir IN
           /\ artifact[i].order = i - 1
           /\ [j \in DOMAIN artifact[i].topics |-> artifact[i].topics[j].uuid]
                = [j \in DOMAIN meta[d].topics |-> topicFile[<<d, meta[d].topics[j]>>].uuid]
           /\ [j \in DOMAIN artifact[i].topics |-> artifact[i].topics[j].order]
                = [j \in DOMAIN meta[d].topics |-> j]
           /\ Field(artifact[i].reqs, "slug") = meta[d].reqs

\* In the indexes a process builds, no topic, step, requirement or phase is
\* hidden by another under its key, so that a step has one owner, with one
\* exception: no validator looks at the slugs of topics, and of two topics of
\* one phase with one slug topics_by_phase_and_slug holds one. A topic is
\* hidden there by a namesake of its own phase or not at all.
OnlyNamesakesHide ==
  LET catalog == Catalog(artifact)
      complete(index, entities) == Cardinality(DOMAIN index) = Len(entities)
  IN /\ \A i \in DOMAIN artifact : \A j \in DOMAIN artifact[i].topics :
          LET slug == artifact[i].topics[j].slug
              found == catalog.topics_by_phase_and_slug[<<artifact[i].dir, slug>>].topic
          IN /\ found \in Range(artifact[i].topics)
             /\ found.slug = slug
     /\ complete(catalog.phases_by_slug, artifact)
     /\ complete(catalog.phases_by_order, artifact)
     /\ complete(catalog.topics_by_uuid, Topics(artifact))
     /\ complete(catalog.steps_by_uuid, Steps(artifact))
     /\ complete(catalog.owner_by_step_uuid, Steps(artifact))
     /\ complete(catalog.requirements_by_uuid, Requirements(artifact))
     /\ complete(catalog.requirements_by_slug, Requirements(artifact))

\* A tree that compiles is one the validation script accepts: the tolerant
\* loader builds of it exactly the phases of the artifact.
CompiledMeansValid ==
  compiled = "ok" => validated # "errors" /\ TolerantLoad = artifact

\* The artifact is the tree: whole, and what the validation script looked at.
CompiledIsFaithful == CompiledIsWhole /\ CompiledMeansValid

==============================================================================
