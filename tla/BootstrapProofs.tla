-------------------------- MODULE BootstrapProofs ---------------------------
(***************************************************************************)
(* Proofs about Bootstrap for every set of nodes, every list of indexes    *)
(* and every history of starts, stops, failed requests and lost answers.   *)
(***************************************************************************)
EXTENDS Bootstrap, TLAPS

\* Two sequences one after the other.
LEMMA ConcatFacts ==
  ASSUME NEW S, NEW s \in Seq(S), NEW t \in Seq(S)
  PROVE  /\ s \o t \in Seq(S)
         /\ Len(s \o t) = Len(s) + Len(t)
         /\ \A i \in 1..Len(s) : (s \o t)[i] = s[i]
         /\ \A i \in 1..Len(t) : (s \o t)[Len(s) + i] = t[i]
  OBVIOUS

AnyObject == [kind : {"template", "index", "alias"}, name : STRING \cup {Opendistro}]

LEMMA ObjectsFacts ==
  ASSUME NEW kind \in {"template", "index", "alias"},
         NEW names \in Seq(STRING \cup {Opendistro})
  PROVE  /\ Objects(kind, names) \in Seq(AnyObject)
         /\ Len(Objects(kind, names)) = Len(names)
         /\ \A i \in 1..Len(names) : Objects(kind, names)[i] = [kind |-> kind, name |-> names[i]]
<1>1. DOMAIN names = 1..Len(names) /\ Len(names) \in Nat
  OBVIOUS
<1>2. \A i \in 1..Len(names) : [kind |-> kind, name |-> names[i]] \in AnyObject
  BY DEF AnyObject
<1> QED
  BY <1>1, <1>2 DEF Objects

\* Templates come first, then the indexes, then the aliases, in the same order.
LEMMA OrderFacts ==
  /\ Len(Names) \in Nat
  /\ DOMAIN ObjectsInOrder = 1..(3 * Len(Names) + 1)
  /\ Len(ObjectsInOrder) = 3 * Len(Names) + 1
  /\ ObjectsInOrder \in Seq(AnyObject)
  /\ ObjectsInOrder[1] = [kind |-> "template", name |-> Opendistro]
  /\ \A k \in 1..Len(Names) :
       /\ ObjectsInOrder[1 + k] = [kind |-> "template", name |-> Names[k]]
       /\ ObjectsInOrder[1 + Len(Names) + k] = [kind |-> "index", name |-> Names[k]]
       /\ ObjectsInOrder[1 + 2 * Len(Names) + k] = [kind |-> "alias", name |-> Names[k]]
<1> DEFINE named == STRING \cup {Opendistro}
           all == <<Opendistro>> \o Names
           L == Len(Names)
           T == Objects("template", all)
           I == Objects("index", Names)
           A == Objects("alias", Names)
<1>1. Names \in Seq(named) /\ <<Opendistro>> \in Seq(named) /\ Len(<<Opendistro>>) = 1
      /\ L \in Nat /\ <<Opendistro>>[1] = Opendistro
  BY BootstrapAssumption
<1>2. /\ all \in Seq(named) /\ Len(all) = 1 + L
      /\ all[1] = Opendistro /\ \A k \in 1..L : all[1 + k] = Names[k]
  <2>1. /\ all \in Seq(named) /\ Len(all) = 1 + L
        /\ \A i \in 1..1 : all[i] = <<Opendistro>>[i]
        /\ \A i \in 1..L : all[1 + i] = Names[i]
    BY <1>1, ConcatFacts
  <2> QED
    BY <1>1, <2>1
<1> HIDE DEF all
<1>3. /\ T \in Seq(AnyObject) /\ Len(T) = 1 + L
      /\ \A i \in 1..(1 + L) : T[i] = [kind |-> "template", name |-> all[i]]
  BY <1>2, ObjectsFacts
<1>4. /\ I \in Seq(AnyObject) /\ Len(I) = L
      /\ \A i \in 1..L : I[i] = [kind |-> "index", name |-> Names[i]]
  BY <1>1, ObjectsFacts
<1>5. /\ A \in Seq(AnyObject) /\ Len(A) = L
      /\ \A i \in 1..L : A[i] = [kind |-> "alias", name |-> Names[i]]
  BY <1>1, ObjectsFacts
<1>6. ObjectsInOrder = T \o I \o A
  BY DEF ObjectsInOrder, Templates, all
<1> HIDE DEF T, I, A
<1>7. /\ T \o I \in Seq(AnyObject) /\ Len(T \o I) = 1 + 2 * L
      /\ \A i \in 1..(1 + L) : (T \o I)[i] = T[i]
      /\ \A i \in 1..L : (T \o I)[1 + L + i] = I[i]
  <2>1. /\ T \o I \in Seq(AnyObject)
        /\ Len(T \o I) = Len(T) + Len(I)
        /\ \A i \in 1..Len(T) : (T \o I)[i] = T[i]
        /\ \A i \in 1..Len(I) : (T \o I)[Len(T) + i] = I[i]
    <3>1. T \in Seq(AnyObject)
      BY <1>3
    <3>2. I \in Seq(AnyObject)
      BY <1>4
    <3> QED
      BY ONLY <3>1, <3>2, ConcatFacts
  <2> QED
    BY <2>1, <1>1, <1>3, <1>4
<1>8. /\ ObjectsInOrder \in Seq(AnyObject) /\ Len(ObjectsInOrder) = 1 + 3 * L
      /\ \A i \in 1..(1 + 2 * L) : ObjectsInOrder[i] = (T \o I)[i]
      /\ \A i \in 1..L : ObjectsInOrder[1 + 2 * L + i] = A[i]
  <2> DEFINE TI == T \o I
  <2>1. TI \in Seq(AnyObject) /\ Len(TI) = 1 + 2 * L
    BY <1>7
  <2> HIDE DEF TI
  <2>2. /\ TI \o A \in Seq(AnyObject)
        /\ Len(TI \o A) = Len(TI) + Len(A)
        /\ \A i \in 1..Len(TI) : (TI \o A)[i] = TI[i]
        /\ \A i \in 1..Len(A) : (TI \o A)[Len(TI) + i] = A[i]
    <3>1. TI \in Seq(AnyObject)
      BY <2>1
    <3>2. A \in Seq(AnyObject)
      BY <1>5
    <3> QED
      BY ONLY <3>1, <3>2, ConcatFacts
  <2>3. ObjectsInOrder = TI \o A
    BY <1>6 DEF TI
  <2>4. /\ ObjectsInOrder \in Seq(AnyObject)
        /\ Len(ObjectsInOrder) = 1 + 3 * L
        /\ \A i \in 1..(1 + 2 * L) : ObjectsInOrder[i] = TI[i]
        /\ \A i \in 1..L : ObjectsInOrder[1 + 2 * L + i] = A[i]
    BY <2>1, <2>2, <2>3, <1>1, <1>5
  <2> QED
    BY <2>4 DEF TI
<1>9. ObjectsInOrder[1] = [kind |-> "template", name |-> Opendistro]
  <2>1. 1 \in 1..(1 + L) /\ 1 \in 1..(1 + 2 * L)
    BY <1>1
  <2>2. ObjectsInOrder[1] = (T \o I)[1] /\ (T \o I)[1] = T[1]
        /\ T[1] = [kind |-> "template", name |-> all[1]]
    BY <2>1, <1>3, <1>7, <1>8
  <2> QED
    BY <2>2, <1>2
<1>10. ASSUME NEW k \in 1..L
       PROVE  /\ ObjectsInOrder[1 + k] = [kind |-> "template", name |-> Names[k]]
              /\ ObjectsInOrder[1 + L + k] = [kind |-> "index", name |-> Names[k]]
              /\ ObjectsInOrder[1 + 2 * L + k] = [kind |-> "alias", name |-> Names[k]]
  <2>1. 1 + k \in 1..(1 + L) /\ 1 + k \in 1..(1 + 2 * L) /\ 1 + L + k \in 1..(1 + 2 * L)
    BY <1>1
  <2>2. ObjectsInOrder[1 + k] = T[1 + k] /\ T[1 + k] = [kind |-> "template", name |-> all[1 + k]]
    BY <2>1, <1>3, <1>7, <1>8
  <2>3. ObjectsInOrder[1 + L + k] = I[k]
    BY <2>1, <1>7, <1>8
  <2> QED
    BY <2>2, <2>3, <1>2, <1>4, <1>5, <1>8
<1>11. Len(ObjectsInOrder) = 3 * L + 1 /\ DOMAIN ObjectsInOrder = 1..(3 * L + 1)
  BY <1>1, <1>8
<1> QED
  BY <1>1, <1>8, <1>9, <1>10, <1>11

\* The position of an object tells its kind: an index has its template before it,
\* an alias its index.
LEMMA Positions ==
  ASSUME NEW i \in DOMAIN ObjectsInOrder
  PROVE  /\ ObjectsInOrder[i] \in AllObjects
         /\ ObjectsInOrder[i].kind = "index" =>
              /\ ObjectsInOrder[i].name \in AllNames
              /\ \E j \in DOMAIN ObjectsInOrder : j < i /\
                   ObjectsInOrder[j] = [kind |-> "template", name |-> ObjectsInOrder[i].name]
         /\ ObjectsInOrder[i].kind = "alias" =>
              \E j \in DOMAIN ObjectsInOrder : j < i /\
                   ObjectsInOrder[j] = [kind |-> "index", name |-> ObjectsInOrder[i].name]
<1> DEFINE L == Len(Names)
<1>1. L \in Nat /\ i \in 1..(3 * L + 1) /\ DOMAIN ObjectsInOrder = 1..(3 * L + 1)
      /\ DOMAIN Names = 1..L
  BY OrderFacts, BootstrapAssumption
<1>2. ObjectsInOrder[i] \in AllObjects
  BY DEF AllObjects
<1>3. CASE i = 1
  BY <1>2, <1>3, OrderFacts
<1>4. CASE i \in 2..(1 + L)
  <2>1. i - 1 \in 1..L /\ 1 + (i - 1) = i
    BY <1>1, <1>4
  <2>2. ObjectsInOrder[i] = [kind |-> "template", name |-> Names[i - 1]]
    BY <2>1, OrderFacts
  <2> QED
    BY <2>2, <1>2
<1>5. CASE i \in (2 + L)..(1 + 2 * L)
  <2> DEFINE k == i - (1 + L)
  <2>1. k \in 1..L /\ 1 + L + k = i /\ 1 + k \in 1..(3 * L + 1) /\ 1 + k < i
    BY <1>1, <1>5
  <2>2. ObjectsInOrder[i] = [kind |-> "index", name |-> Names[k]]
        /\ ObjectsInOrder[1 + k] = [kind |-> "template", name |-> Names[k]]
    BY <2>1, OrderFacts
  <2>3. Names[k] \in AllNames
    BY <2>1, <1>1 DEF AllNames
  <2> HIDE DEF k
  <2> QED
    BY <2>1, <2>2, <2>3, <1>1, <1>2
<1>6. CASE i \in (2 + 2 * L)..(1 + 3 * L)
  <2> DEFINE k == i - (1 + 2 * L)
  <2>1. k \in 1..L /\ 1 + 2 * L + k = i /\ 1 + L + k \in 1..(3 * L + 1) /\ 1 + L + k < i
    BY <1>1, <1>6
  <2>2. ObjectsInOrder[i] = [kind |-> "alias", name |-> Names[k]]
        /\ ObjectsInOrder[1 + L + k] = [kind |-> "index", name |-> Names[k]]
    BY <2>1, OrderFacts
  <2> HIDE DEF k
  <2> QED
    BY <2>1, <2>2, <1>1, <1>2
<1> QED
  BY <1>1, <1>3, <1>4, <1>5, <1>6

-----------------------------------------------------------------------------
(* Answers. *)

\* A failed request is never taken for a done one, nor for an object that is there.
LEMMA FailedAnswerFacts ==
  ASSUME NEW answer \in FailedAnswers
  PROVE  parseResponse(answer) # "ok" /\ ~exists(answer)
  BY DEF FailedAnswers, NoAnswer, Answer, parseResponse, elasticDefaultErrorResponseHandler,
         errIsAlreadyExists, isErrAliasAlreadyExists, exists

\* Done, and the two collisions, are taken for done; a 404 is not there.
LEMMA TrueAnswerFacts ==
  /\ parseResponse(Answer(200, "none")) = "ok"
  /\ parseResponse(Answer(400, "resource_already_exists_exception")) = "ok"
  /\ exists(Answer(200, "none"))
  /\ ~exists(Answer(404, "none"))
  BY DEF NoAnswer, Answer, parseResponse, elasticDefaultErrorResponseHandler,
         errIsAlreadyExists, isErrAliasAlreadyExists, exists

-----------------------------------------------------------------------------
(* The inductive invariant: a node has made sure of all objects before at[n]. *)

MadeSure ==
  \A n \in Nodes : status[n] # "off" =>
    \A i \in DOMAIN ObjectsInOrder :
      i < at[n] \/ status[n] = "running" => ObjectsInOrder[i] \in created

Inv == /\ TypeOK
       /\ MadeSure
       /\ IndexesHaveMappings
       /\ CollisionsAreHarmless
       /\ DocumentsHaveMappings

LEMMA CurrentObject ==
  ASSUME TypeOK, NEW n \in Nodes
  PROVE  at[n] \in DOMAIN ObjectsInOrder /\ Object(n) = ObjectsInOrder[at[n]]
         /\ Object(n) \in AllObjects
  BY Positions DEF TypeOK, Object

\* A creation, answered or not, adds an object at most, an index with its template.
LEMMA Creation ==
  ASSUME Inv, NEW n \in Nodes, status[n] = "starting",
         PerformCreate(Object(n)) \/ UNCHANGED database
  PROVE  /\ created \subseteq created' /\ created' \subseteq AllObjects
         /\ mapped \subseteq mapped' /\ mapped' \subseteq AllNames
         /\ implicit' = implicit /\ documents' = documents
         /\ IndexesHaveMappings'
<1> DEFINE o == Object(n)
<1>1. /\ o \in AllObjects
      /\ o.kind = "index" =>
           o.name \in AllNames /\ [kind |-> "template", name |-> o.name] \in created
  <2>1. at[n] \in DOMAIN ObjectsInOrder /\ o = ObjectsInOrder[at[n]] /\ o \in AllObjects
    BY CurrentObject DEF Inv
  <2>2. ASSUME o.kind = "index"
        PROVE  o.name \in AllNames /\ [kind |-> "template", name |-> o.name] \in created
    <3>1. o.name \in AllNames
          /\ \E j \in DOMAIN ObjectsInOrder : j < at[n] /\
               ObjectsInOrder[j] = [kind |-> "template", name |-> o.name]
      BY <2>1, <2>2, Positions
    <3> QED
      BY <3>1 DEF Inv, MadeSure
  <2> QED
    BY <2>1, <2>2
<1> HIDE DEF o
<1>2. CASE UNCHANGED database
  BY <1>2 DEF Inv, TypeOK, IndexesHaveMappings, database
<1>3. CASE PerformCreate(o) /\ CreateAnswer(o).code = 200
  <2>1. /\ created' = created \cup {o}
        /\ mapped' = IF o.kind = "index" /\ [kind |-> "template", name |-> o.name] \in created
                     THEN mapped \cup {o.name} ELSE mapped
        /\ implicit' = implicit /\ documents' = documents
    BY <1>3 DEF PerformCreate
  <2>2. ASSUME NEW name \in AllNames, [kind |-> "index", name |-> name] \in created'
        PROVE  name \in mapped'
    <3>1. CASE [kind |-> "index", name |-> name] \in created
      BY <2>1, <3>1 DEF Inv, IndexesHaveMappings
    <3>2. CASE o = [kind |-> "index", name |-> name]
      <4>1. o.kind = "index" /\ o.name = name
        BY <3>2
      <4> QED
        BY <4>1, <2>1, <1>1
    <3> QED
      BY <2>1, <2>2, <3>1, <3>2
  <2> QED
    BY <2>1, <2>2, <1>1 DEF Inv, TypeOK, IndexesHaveMappings
<1>4. CASE PerformCreate(o) /\ CreateAnswer(o).code # 200
  <2>1. UNCHANGED database
    BY <1>4 DEF PerformCreate
  <2> QED
    BY <2>1 DEF Inv, TypeOK, IndexesHaveMappings, database
<1> QED
  BY <1>2, <1>3, <1>4 DEF o

\* An answered creation leaves the object there, and is taken for done.
LEMMA CreationAnswered ==
  ASSUME Inv, NEW n \in Nodes, status[n] = "starting", PerformCreate(Object(n))
  PROVE  parseResponse(CreateAnswer(Object(n))) = "ok" /\ Object(n) \in created'
<1> DEFINE o == Object(n)
<1>1. at[n] \in DOMAIN ObjectsInOrder /\ o = ObjectsInOrder[at[n]]
  BY CurrentObject DEF Inv
<1>2. o.kind = "alias" => [kind |-> "index", name |-> o.name] \in created
  BY <1>1, Positions DEF Inv, MadeSure
<1>3. implicit = {}
  BY DEF Inv, DocumentsHaveMappings
<1> HIDE DEF o
<1>4. CASE o.kind = "index" /\ o \in created
  <2>1. CreateAnswer(o) = Answer(400, "resource_already_exists_exception")
    BY <1>4 DEF CreateAnswer
  <2>2. CreateAnswer(o).code # 200
    BY <2>1 DEF Answer
  <2> QED
    BY <1>4, <2>1, <2>2, TrueAnswerFacts DEF PerformCreate, database, o
<1>5. CASE ~(o.kind = "index" /\ o \in created)
  <2>1. CreateAnswer(o) = Answer(200, "none")
    BY <1>2, <1>3, <1>5 DEF CreateAnswer
  <2>2. CreateAnswer(o).code = 200
    BY <2>1 DEF Answer
  <2> QED
    BY <2>1, <2>2, TrueAnswerFacts DEF PerformCreate, o
<1> QED
  BY <1>4, <1>5

\* Going on with the next object, when this one is there.
LEMMA Advancing ==
  ASSUME Inv, NEW n \in Nodes, status[n] = "starting", Advance(n),
         created \subseteq created', Object(n) \in created'
  PROVE  /\ MadeSure'
         /\ status' \in [Nodes -> {"off", "starting", "running"}]
         /\ at' \in [Nodes -> DOMAIN ObjectsInOrder]
         /\ missing' \in [Nodes -> BOOLEAN]
         /\ \A m \in Nodes : missing'[m] => status'[m] = "starting"
         /\ failed' = failed /\ failed' \subseteq {m \in Nodes : status'[m] = "off"}
<1> DEFINE last == Len(ObjectsInOrder)
<1>1. last \in Nat /\ DOMAIN ObjectsInOrder = 1..last
  BY OrderFacts
<1>2. Object(n) = ObjectsInOrder[at[n]] /\ at[n] \in 1..last
  BY CurrentObject, <1>1 DEF Inv
<1> HIDE DEF last
<1>3. ASSUME NEW i \in 1..last, i <= at[n]
      PROVE  ObjectsInOrder[i] \in created'
  BY <1>1, <1>2, <1>3 DEF Inv, MadeSure
<1>4. CASE at[n] < last
  <2>1. at' = [at EXCEPT ![n] = at[n] + 1] /\ status' = status
        /\ missing' = [missing EXCEPT ![n] = FALSE] /\ failed' = failed
    BY <1>4 DEF Advance, last
  <2>2. at' \in [Nodes -> 1..last]
    BY <1>1, <1>2, <1>4, <2>1 DEF Inv, TypeOK
  <2>3. MadeSure'
    <3> SUFFICES ASSUME NEW m \in Nodes, status'[m] # "off", NEW i \in 1..last,
                        i < at'[m] \/ status'[m] = "running"
                 PROVE  ObjectsInOrder[i] \in created'
      BY <1>1 DEF MadeSure
    <3>1. CASE m = n
      BY <3>1, <1>2, <1>3, <2>1 DEF Inv, TypeOK
    <3>2. CASE m # n
      BY <3>2, <1>1, <2>1 DEF Inv, TypeOK, MadeSure
    <3> QED
      BY <3>1, <3>2
  <2> QED
    BY <1>1, <2>1, <2>2, <2>3 DEF Inv, TypeOK
<1>5. CASE ~(at[n] < last)
  <2>1. at' = at /\ status' = [status EXCEPT ![n] = "running"]
        /\ missing' = [missing EXCEPT ![n] = FALSE] /\ failed' = failed
    BY <1>5 DEF Advance, last
  <2>2. at[n] = last
    BY <1>1, <1>2, <1>5
  <2>3. MadeSure'
    <3> SUFFICES ASSUME NEW m \in Nodes, status'[m] # "off", NEW i \in 1..last,
                        i < at'[m] \/ status'[m] = "running"
                 PROVE  ObjectsInOrder[i] \in created'
      BY <1>1 DEF MadeSure
    <3>1. CASE m = n
      BY <3>1, <1>1, <1>3, <2>2
    <3>2. CASE m # n
      BY <3>2, <1>1, <2>1 DEF Inv, TypeOK, MadeSure
    <3> QED
      BY <3>1, <3>2
  <2> QED
    BY <2>1, <2>3 DEF Inv, TypeOK
<1> QED
  BY <1>4, <1>5

-----------------------------------------------------------------------------
LEMMA InitInv == Init => Inv
<1> SUFFICES ASSUME Init PROVE Inv
  OBVIOUS
<1>1. 1 \in DOMAIN ObjectsInOrder
  BY OrderFacts
<1>2. \A n \in Nodes : status[n] = "off" /\ ~missing[n]
  BY DEF Init
<1>3. TypeOK
  BY <1>1, <1>2 DEF Init, TypeOK
<1>4. MadeSure
  BY <1>2 DEF MadeSure
<1> QED
  BY <1>3, <1>4 DEF Init, Inv, IndexesHaveMappings, CollisionsAreHarmless, DocumentsHaveMappings

LEMMA NewIndexerInv ==
  ASSUME Inv, NEW n \in Nodes, NewIndexer(n)
  PROVE  Inv'
<1>1. 1 \in DOMAIN ObjectsInOrder /\ DOMAIN ObjectsInOrder = 1..Len(ObjectsInOrder)
  BY OrderFacts
<1>2. TypeOK'
  BY <1>1 DEF Inv, TypeOK, NewIndexer, database
<1>3. MadeSure'
  <2> SUFFICES ASSUME NEW m \in Nodes, status'[m] # "off", NEW i \in DOMAIN ObjectsInOrder,
                      i < at'[m] \/ status'[m] = "running"
               PROVE  ObjectsInOrder[i] \in created'
    BY DEF MadeSure
  <2>1. CASE m = n
    BY <2>1, OrderFacts DEF Inv, TypeOK, NewIndexer
  <2>2. CASE m # n
    BY <2>2 DEF Inv, TypeOK, MadeSure, NewIndexer, database
  <2> QED
    BY <2>1, <2>2
<1> QED
  BY <1>2, <1>3 DEF Inv, NewIndexer, database, IndexesHaveMappings, CollisionsAreHarmless,
                    DocumentsHaveMappings

LEMMA CheckExistsInv ==
  ASSUME Inv, NEW n \in Nodes, CheckExists(n)
  PROVE  Inv'
<1>1. PICK answer \in {Answer(IF Object(n) \in created THEN 200 ELSE 404, "none")}
                         \cup FailedAnswers :
        /\ IF exists(answer) THEN Advance(n)
           ELSE missing' = [missing EXCEPT ![n] = TRUE] /\ UNCHANGED <<status, at, failed>>
        /\ faults' = (faults \/ answer \in FailedAnswers)
  BY DEF CheckExists
<1>2. status[n] = "starting" /\ UNCHANGED database
  BY DEF CheckExists
<1>3. created' = created /\ mapped' = mapped /\ implicit' = implicit /\ documents' = documents
  BY <1>2 DEF database
<1>4. faults' \in BOOLEAN /\ (faults => faults')
  BY <1>1 DEF Inv, TypeOK
<1>5. CASE exists(answer)
  <2>1. Object(n) \in created
    <3>1. answer \notin FailedAnswers
      BY <1>5, FailedAnswerFacts
    <3>2. answer = Answer(IF Object(n) \in created THEN 200 ELSE 404, "none")
      BY <1>1, <3>1
    <3>3. CASE Object(n) \notin created
      <4>1. answer = Answer(404, "none")
        BY <3>2, <3>3
      <4> QED
        BY <4>1, <1>5, TrueAnswerFacts
    <3> QED
      BY <3>3
  <2>2. Advance(n)
    BY <1>1, <1>5
  <2>3. /\ MadeSure'
        /\ status' \in [Nodes -> {"off", "starting", "running"}]
        /\ at' \in [Nodes -> DOMAIN ObjectsInOrder]
        /\ missing' \in [Nodes -> BOOLEAN]
        /\ \A m \in Nodes : missing'[m] => status'[m] = "starting"
        /\ failed' = failed /\ failed' \subseteq {m \in Nodes : status'[m] = "off"}
    BY <1>2, <1>3, <2>1, <2>2, Advancing
  <2> QED
    BY <1>3, <1>4, <2>3 DEF Inv, TypeOK, IndexesHaveMappings, CollisionsAreHarmless,
                            DocumentsHaveMappings
<1>6. CASE ~exists(answer)
  <2>1. missing' = [missing EXCEPT ![n] = TRUE] /\ status' = status /\ at' = at
        /\ failed' = failed
    BY <1>1, <1>6
  <2> QED
    BY <1>2, <1>3, <1>4, <2>1 DEF Inv, TypeOK, MadeSure, IndexesHaveMappings,
                                  CollisionsAreHarmless, DocumentsHaveMappings
<1> QED
  BY <1>5, <1>6

LEMMA CreateInv ==
  ASSUME Inv, NEW n \in Nodes, Create(n)
  PROVE  Inv'
<1>1. status[n] = "starting"
  BY DEF Create
<1>2. PerformCreate(Object(n)) \/ UNCHANGED database
  BY DEF Create
<1>3. /\ created \subseteq created' /\ created' \subseteq AllObjects
      /\ mapped \subseteq mapped' /\ mapped' \subseteq AllNames
      /\ implicit' = implicit /\ documents' = documents
      /\ IndexesHaveMappings'
  BY <1>1, <1>2, Creation
<1>4. DocumentsHaveMappings'
  BY <1>3 DEF Inv, DocumentsHaveMappings
<1>5. CASE PerformCreate(Object(n)) /\ AfterAnswer(n, CreateAnswer(Object(n)))
             /\ faults' = faults
  <2>1. parseResponse(CreateAnswer(Object(n))) = "ok" /\ Object(n) \in created'
    BY <1>1, <1>5, CreationAnswered
  <2>2. Advance(n)
    BY <1>5, <2>1 DEF AfterAnswer
  <2>3. /\ MadeSure'
        /\ status' \in [Nodes -> {"off", "starting", "running"}]
        /\ at' \in [Nodes -> DOMAIN ObjectsInOrder]
        /\ missing' \in [Nodes -> BOOLEAN]
        /\ \A m \in Nodes : missing'[m] => status'[m] = "starting"
        /\ failed' = failed /\ failed' \subseteq {m \in Nodes : status'[m] = "off"}
    BY <1>1, <1>3, <2>1, <2>2, Advancing
  <2> QED
    BY <1>3, <1>4, <1>5, <2>3 DEF Inv, TypeOK, CollisionsAreHarmless
<1>6. CASE (\E answer \in FailedAnswers : AfterAnswer(n, answer)) /\ faults' = TRUE
  <2>1. Fail(n)
    BY <1>6, FailedAnswerFacts DEF AfterAnswer
  <2>2. status' = [status EXCEPT ![n] = "off"] /\ failed' = failed \cup {n}
        /\ missing' = [missing EXCEPT ![n] = FALSE] /\ at' = at
    BY <2>1 DEF Fail
  <2>3. TypeOK'
    BY <1>3, <1>6, <2>2 DEF Inv, TypeOK
  <2>4. MadeSure'
    BY <1>3, <2>2 DEF Inv, TypeOK, MadeSure
  <2> QED
    BY <1>3, <1>4, <1>6, <2>3, <2>4 DEF Inv, CollisionsAreHarmless
<1> QED
  BY <1>5, <1>6 DEF Create

LEMMA StopInv ==
  ASSUME Inv, NEW n \in Nodes, Stop(n)
  PROVE  Inv'
<1>1. TypeOK'
  BY DEF Inv, TypeOK, Stop, database
<1>2. MadeSure'
  BY DEF Inv, TypeOK, MadeSure, Stop, database
<1> QED
  BY <1>1, <1>2 DEF Inv, Stop, database, IndexesHaveMappings, CollisionsAreHarmless,
                    DocumentsHaveMappings

\* The alias is there, and so is the index before it, which has its mappings.
LEMMA WriteInv ==
  ASSUME Inv, NEW n \in Nodes, NEW name \in AllNames, Write(n, name)
  PROVE  Inv'
<1>1. PICK k \in 1..Len(Names) : name = Names[k]
  BY BootstrapAssumption DEF AllNames
<1>2. /\ [kind |-> "alias", name |-> name] \in created
      /\ [kind |-> "index", name |-> name] \in created
  <2>1. Len(Names) \in Nat
        /\ 1 + Len(Names) + k \in DOMAIN ObjectsInOrder
        /\ 1 + 2 * Len(Names) + k \in DOMAIN ObjectsInOrder
    BY OrderFacts
  <2>2. ObjectsInOrder[1 + Len(Names) + k] \in created
        /\ ObjectsInOrder[1 + 2 * Len(Names) + k] \in created
    BY <2>1 DEF Inv, MadeSure, Write
  <2> QED
    BY <1>1, <2>2, OrderFacts
<1>3. name \in mapped
  BY <1>2 DEF Inv, IndexesHaveMappings
<1>4. /\ implicit' = implicit /\ documents' = documents \cup {name}
      /\ UNCHANGED <<created, mapped, status, at, missing, failed, faults>>
  BY <1>2 DEF Write, node
<1>5. TypeOK'
  BY <1>4 DEF Inv, TypeOK
<1>6. MadeSure' /\ IndexesHaveMappings' /\ CollisionsAreHarmless' /\ DocumentsHaveMappings'
  BY <1>3, <1>4 DEF Inv, MadeSure, IndexesHaveMappings, CollisionsAreHarmless,
                    DocumentsHaveMappings
<1> QED
  BY <1>5, <1>6 DEF Inv

\* The invariant of the start: proved action by action.
THEOREM Invariance == Spec => []Inv
<1>1. Init => Inv
  BY InitInv
<1>2. Inv /\ [Next]_vars => Inv'
  <2> SUFFICES ASSUME Inv, [Next]_vars PROVE Inv'
    OBVIOUS
  <2>1. CASE Next
    <3>1. PICK n \in Nodes :
            \/ NewIndexer(n)
            \/ CheckExists(n)
            \/ Create(n)
            \/ Stop(n)
            \/ \E name \in AllNames : Write(n, name)
      BY <2>1 DEF Next
    <3> QED
      BY <3>1, NewIndexerInv, CheckExistsInv, CreateInv, StopInv, WriteInv
  <2>2. CASE UNCHANGED vars
    BY <2>2 DEF vars, database, node, Inv, TypeOK, MadeSure, IndexesHaveMappings,
                CollisionsAreHarmless, DocumentsHaveMappings
  <2> QED
    BY <2>1, <2>2
<1> QED
  BY <1>1, <1>2, PTL DEF Spec

\* The variables of the start keep their types.
THEOREM TypeCorrect == Spec => []TypeOK
<1>1. Inv => TypeOK
  BY DEF Inv
<1> QED
  BY <1>1, Invariance, PTL

\* A started indexer finds every template, index and alias, whatever failed before.
THEOREM NothingMissing == Spec => []StartedFindsEverything
<1>1. Inv => StartedFindsEverything
  BY DEF Inv, TypeOK, MadeSure, StartedFindsEverything, AllObjects
<1> QED
  BY <1>1, Invariance, PTL

\* No index is ever created before its template.
THEOREM TemplatesFirst == Spec => []IndexesHaveMappings
<1>1. Inv => IndexesHaveMappings
  BY DEF Inv
<1> QED
  BY <1>1, Invariance, PTL

\* Any number of nodes may start at once: only a failed request ends a start.
THEOREM StartsDoNotCollide == Spec => []CollisionsAreHarmless
<1>1. Inv => CollisionsAreHarmless
  BY DEF Inv
<1> QED
  BY <1>1, Invariance, PTL

\* Every document goes to an index with mappings.
THEOREM WritesFindMappings == Spec => []DocumentsHaveMappings
<1>1. Inv => DocumentsHaveMappings
  BY DEF Inv
<1> QED
  BY <1>1, Invariance, PTL
=============================================================================
