----------------------------- MODULE Bootstrap -----------------------------
(***************************************************************************)
(* The start of the indexers: NewIndexer of each node makes sure that the  *)
(* templates, indexes and aliases are there, asking for each and creating  *)
(* it when it was not found.  The nodes of all shards start at the same    *)
(* time, on one database, are stopped and started again; any request may   *)
(* fail, with or without its effect.  The first error ends the start.      *)
(*                                                                         *)
(* With or without Kibana the order is the same (the policies are not      *)
(* created).  Nothing deletes a template, an index or an alias.  Left out: *)
(* checks of the arguments, and nodes with indexing disabled, which get a  *)
(* nil indexer that never writes.                                          *)
(***************************************************************************)
EXTENDS Sequences, ElasticResponse

CONSTANTS
  Nodes,
  Names,            \* the aliases, in the order of the lists of createIndexes etc.
  Opendistro        \* the template that belongs to no index

ASSUME BootstrapAssumption == Names \in Seq(STRING)

AllNames == {Names[i] : i \in DOMAIN Names}

\* The templates NewIndexer passes on, with Kibana or without: one for each index
\* and Opendistro.  A template that is not among them would not be looked for
\* (getTemplateByName), but none of them is missing.
Templates == <<Opendistro>> \o Names

\* initNoKibana, initWithKibana: templates, then indexes, then aliases.
Objects(kind, names) == [i \in DOMAIN names |-> [kind |-> kind, name |-> names[i]]]

\* Mutation: indexes before the templates that give them their mappings.
ObjectsIndexesFirst ==
  Objects("index", Names) \o Objects("template", Templates) \o Objects("alias", Names)

ObjectsInOrder ==
  Objects("template", Templates) \o Objects("index", Names) \o Objects("alias", Names)

AllObjects == {ObjectsInOrder[i] : i \in DOMAIN ObjectsInOrder}

VARIABLES
  created,          \* objects of the database
  mapped,           \* names whose index was created with its template there
  implicit,         \* names of indexes the database created by itself, on a write
  documents,        \* names some document was written to
  status,           \* status[n]: of the indexer of node n
  at,               \* at[n]: the object it makes sure of
  missing,          \* missing[n]: it was not found, and is to be created
  failed,           \* history: nodes whose last start returned an error
  faults            \* history: some request has failed

database == <<created, mapped, implicit, documents>>
node == <<status, at, missing, failed>>
vars == <<database, node, faults>>

\* The object whose iteration a node is at.
Object(n) == ObjectsInOrder[at[n]]

-----------------------------------------------------------------------------
(* The node. *)

\* NewIndexer: a client, and NewElasticProcessor begins.
NewIndexer(n) ==
  /\ status[n] = "off"
  /\ status' = [status EXCEPT ![n] = "starting"]
  /\ at' = [at EXCEPT ![n] = 1]
  /\ missing' = [missing EXCEPT ![n] = FALSE]
  /\ failed' = failed \ {n}
  /\ UNCHANGED <<database, faults>>

\* The object is there: the next one, or the dispatcher and the data indexer.
Advance(n) ==
  /\ missing' = [missing EXCEPT ![n] = FALSE]
  /\ IF at[n] < Len(ObjectsInOrder)
     THEN at' = [at EXCEPT ![n] = @ + 1] /\ UNCHANGED status
     ELSE status' = [status EXCEPT ![n] = "running"] /\ UNCHANGED at
  /\ UNCHANGED failed

\* Mutation: the next start begins where this one ended.
FailKeepingMissing(n) ==
  /\ status' = [status EXCEPT ![n] = "off"]
  /\ failed' = failed \cup {n}
  /\ UNCHANGED <<at, missing>>

\* An error is returned all the way up.
Fail(n) ==
  /\ status' = [status EXCEPT ![n] = "off"]
  /\ failed' = failed \cup {n}
  /\ missing' = [missing EXCEPT ![n] = FALSE]
  /\ UNCHANGED at

\* Mutation: an error is logged, and the start goes on.
AfterAnswerLogged(n, answer) == Advance(n)

AfterAnswer(n, answer) == IF parseResponse(answer) = "ok" THEN Advance(n) ELSE Fail(n)

\* An answer of a server that is out of reach, busy, or behind a proxy that is.
FailedAnswers ==
  {NoAnswer, Answer(429, "other"), Answer(503, "other"),
   [code |-> 403, body |-> "text", type |-> "none", limited |-> TRUE]}

\* CheckAndCreate*: the request that asks for the object.
CheckExists(n) ==
  /\ status[n] = "starting"
  /\ ~missing[n]
  /\ \E answer \in {Answer(IF Object(n) \in created THEN 200 ELSE 404, "none")} \cup FailedAnswers :
       /\ IF exists(answer) THEN Advance(n)
          ELSE missing' = [missing EXCEPT ![n] = TRUE] /\ UNCHANGED <<status, at, failed>>
       /\ faults' = (faults \/ answer \in FailedAnswers)
  /\ UNCHANGED database

\* What Elasticsearch answers to the creation of an object.
CreateAnswer(o) ==
  CASE o.kind = "index" /\ o \in created -> Answer(400, "resource_already_exists_exception")
    [] o.kind = "alias" /\ o.name \in implicit -> Answer(400, "invalid_alias_name_exception")
    [] o.kind = "alias" /\ [kind |-> "index", name |-> o.name] \notin created -> Answer(404, "other")
    [] OTHER -> Answer(200, "none")

\* And does: a template or an alias that is there is written again.
PerformCreate(o) ==
  IF CreateAnswer(o).code = 200
  THEN /\ created' = created \cup {o}
       /\ mapped' = IF o.kind = "index" /\ [kind |-> "template", name |-> o.name] \in created
                    THEN mapped \cup {o.name} ELSE mapped
       /\ UNCHANGED <<implicit, documents>>
  ELSE UNCHANGED database

\* createIndexTemplate, createIndex, createAlias: done and answered; done, and the
\* answer lost; or not done.  (createPolicy, between them, is not called.)
Create(n) ==
  /\ status[n] = "starting"
  /\ missing[n]
  /\ \/ /\ PerformCreate(Object(n))
        /\ AfterAnswer(n, CreateAnswer(Object(n)))
        /\ UNCHANGED faults
     \/ /\ PerformCreate(Object(n)) \/ UNCHANGED database
        /\ \E answer \in FailedAnswers : AfterAnswer(n, answer)
        /\ faults' = TRUE

\* The node is stopped, in the middle of its start or later.
Stop(n) ==
  /\ status[n] # "off"
  /\ status' = [status EXCEPT ![n] = "off"]
  /\ missing' = [missing EXCEPT ![n] = FALSE]
  /\ UNCHANGED <<at, failed, database, faults>>

\* Mutation: the worker is started before the elastic processor is there.
WriteFromTheStart(n, name) ==
  /\ status[n] # "off"
  /\ IF [kind |-> "alias", name |-> name] \in created
     THEN UNCHANGED implicit ELSE implicit' = implicit \cup {name}
  /\ documents' = documents \cup {name}
  /\ UNCHANGED <<created, mapped, node, faults>>

\* A node writes a document to an alias; without it the database creates an index
\* of that name.
Write(n, name) ==
  /\ status[n] = "running"
  /\ IF [kind |-> "alias", name |-> name] \in created
     THEN UNCHANGED implicit ELSE implicit' = implicit \cup {name}
  /\ documents' = documents \cup {name}
  /\ UNCHANGED <<created, mapped, node, faults>>

-----------------------------------------------------------------------------
Init ==
  /\ created = {}
  /\ mapped = {}
  /\ implicit = {}
  /\ documents = {}
  /\ status = [n \in Nodes |-> "off"]
  /\ at = [n \in Nodes |-> 1]
  /\ missing = [n \in Nodes |-> FALSE]
  /\ failed = {}
  /\ faults = FALSE

Next ==
  \E n \in Nodes :
    \/ NewIndexer(n)
    \/ CheckExists(n)
    \/ Create(n)
    \/ Stop(n)
    \/ \E name \in AllNames : Write(n, name)

Spec == Init /\ [][Next]_vars

-----------------------------------------------------------------------------
TypeOK ==
  /\ created \subseteq AllObjects
  /\ mapped \subseteq AllNames
  /\ implicit \subseteq AllNames
  /\ documents \subseteq AllNames
  /\ status \in [Nodes -> {"off", "starting", "running"}]
  /\ at \in [Nodes -> DOMAIN ObjectsInOrder]
  /\ missing \in [Nodes -> BOOLEAN]
  /\ \A n \in Nodes : missing[n] => status[n] = "starting"
  /\ failed \subseteq {n \in Nodes : status[n] = "off"}
  /\ faults \in BOOLEAN

\* An indexer that has started finds all templates, indexes and aliases, however
\* its start was interleaved with others', whatever answers were lost, and although
\* a failed question counts as "not there" and a collision as done.
StartedFindsEverything ==
  (\E n \in Nodes : status[n] = "running") => created = AllObjects

\* No index is created before its template, which would leave it without mappings
\* for good: not by a second node either that starts while the first is half-way.
IndexesHaveMappings ==
  \A name \in AllNames : [kind |-> "index", name |-> name] \in created => name \in mapped

\* Nodes that start together do not make one another fail: without a failed
\* request no start returns an error.
CollisionsAreHarmless == failed # {} => faults

\* Documents go to the indexes with mappings; the database never has to create one.
DocumentsHaveMappings == documents \subseteq mapped /\ implicit = {}
=============================================================================
