------------------------- MODULE LspDocumentsProofs -------------------------
(* Proofs about a connected LSP session, for any documents, texts, versions    *)
(* and budgets and for a chain of any length: a file reaches the disk before   *)
(* clangd hears of it, clangd ends with what the guard has, a violation stops  *)
(* everything, a rebuild sees every update of a header, the size of the open   *)
(* documents is counted exactly, and the state has its type.                   *)
EXTENDS LspDocuments, SequenceTheorems, FiniteSetTheorems, TLAPS

-----------------------------------------------------------------------------
(* Types.                                                                  *)

\* What the guard or clangd has of a document, open or closed.
Cell == [text : Nat, version : Int]

Tasks ==
    {t \in Task :
        /\ t.method \in {"didOpen", "didChange"} =>
               t.uri \in Uris /\ t.text # None /\ t.version # None
        /\ t.method \in {"didSave", "didClose"} => t.uri \in Uris
        /\ t.method \in {"forward", "didClose", "rebuild"} => t.text = None}

AdapterType ==
    /\ documents \in [Uris -> Cell] /\ clangd \in [Uris -> Cell] /\ files \in [Uris -> Texts]
    /\ queue \in Seq(Tasks)
    /\ writing \in {"no", "staging", "rename"}
    /\ writing # "no" => queue # <<>> /\ Head(queue).text # None
    /\ generation \in Nat /\ timer \in Nat \cup {None}

LEMMA SameCell ==
    ASSUME NEW c \in Cell, NEW d \in Cell, c.text = d.text, c.version = d.version
    PROVE  c = d
  BY DEF Cell

\* The numbers a task carries.
LEMMA TaskNumbers ==
    ASSUME NEW t \in Tasks
    PROVE  /\ t.text \in Int /\ t.version \in Int /\ t.generation \in Int
           /\ t.generation = None \/ t.generation \in Nat
           /\ t.text # None => t.text \in Texts /\ t.text \in Nat /\ t.uri \in Uris
           /\ t.text # None => t.method \in {"didOpen", "didChange", "didSave"}
<1>1. t.text \in Texts \cup {None} /\ t.version \in Versions \cup {None}
      /\ t.generation \in Nat \cup {None}
  BY DEF Tasks, Task
<1>2. t.text # None => t.method \in {"didOpen", "didChange", "didSave"} /\ t.uri \in Uris
  BY DEF Tasks, Task
<1>3. None \in Int  BY DEF None
<1>4. t.text = None \/ t.text \in Texts  BY <1>1
<1>5. t.text = None \/ t.text \in Nat  BY <1>4, LspTextsAssumption
<1>6. t.version = None \/ t.version \in Nat  BY <1>1, LspTextsAssumption
<1> QED BY <1>1, <1>2, <1>3, <1>4, <1>5, <1>6

\* The task AcceptMessage appends for a message.
taskOf(m, g) ==
    [method |-> IF m.uri = "none" THEN "forward" ELSE m.method,
     uri |-> m.uri, text |-> m.text, version |-> m.version, generation |-> g]

LEMMA MessageTask ==
    ASSUME NEW m \in Message, NEW g \in Nat \cup {None}
    PROVE  /\ taskOf(m, g) \in Tasks
           /\ taskOf(m, g).method # "rebuild"
  BY LspTextsAssumption, LspUrisAssumption DEF Message, Tasks, Task, taskOf, None

LEMMA RebuildTask ==
    ASSUME NEW g \in Nat \cup {None}
    PROVE  [method |-> "rebuild", uri |-> "none", text |-> None, version |-> None,
            generation |-> g] \in Tasks
  BY DEF Tasks, Task

-----------------------------------------------------------------------------
(* The first and the last of a chain.                                      *)

LEMMA HeadOfTasks ==
    ASSUME NEW q \in Seq(Tasks), q # <<>>
    PROVE  /\ Head(q) \in Tasks /\ Tail(q) \in Seq(Tasks)
           /\ Head(q) = q[1] /\ 1 \in DOMAIN q /\ Len(q) \in Nat
           /\ \A i \in DOMAIN Tail(q) : i + 1 \in DOMAIN q /\ Tail(q)[i] = q[i + 1]
           /\ \A i \in DOMAIN q : i > 1 => i - 1 \in DOMAIN Tail(q) /\ Tail(q)[i - 1] = q[i]
           /\ DOMAIN q = 1..Len(q)
  OBVIOUS

LEMMA AppendOfTasks ==
    ASSUME NEW q \in Seq(Tasks), NEW t \in Tasks
    PROVE  /\ Append(q, t) \in Seq(Tasks) /\ Len(q) \in Nat
           /\ DOMAIN q = 1..Len(q) /\ DOMAIN Append(q, t) = 1..(Len(q) + 1)
           /\ Append(q, t)[Len(q) + 1] = t
           /\ \A i \in DOMAIN q : Append(q, t)[i] = q[i]
           /\ Append(q, t) # <<>>
           /\ q # <<>> => Head(Append(q, t)) = Head(q)
<1>1. /\ Append(q, t) \in Seq(Tasks) /\ Len(q) \in Nat /\ Len(Append(q, t)) = Len(q) + 1
      /\ Append(q, t)[Len(q) + 1] = t
      /\ DOMAIN q = 1..Len(q)
      /\ \A i \in 1..Len(q) : Append(q, t)[i] = q[i]
  BY AppendProperties
<1>2. DOMAIN Append(q, t) = 1..(Len(q) + 1)  BY <1>1
<1>3. Append(q, t) # <<>>  BY <1>1
<1>4. q # <<>> => Head(Append(q, t)) = Head(q)
  <2> SUFFICES ASSUME q # <<>> PROVE Head(Append(q, t)) = Head(q)
    OBVIOUS
  <2>1. 1 \in 1..Len(q)  BY EmptySeq, <1>1
  <2> QED BY <1>1, <1>3, <2>1
<1> QED BY <1>1, <1>2, <1>3, <1>4

\* The last task of S in the chain is one of W; without one, a and b are the same.
Up(q, S, W, a, b) ==
    \/ a = b /\ \A i \in DOMAIN q : q[i] \notin S
    \/ \E i \in DOMAIN q : q[i] \in W /\ \A j \in DOMAIN q : j > i => q[j] \notin S

LEMMA UpAppended ==
    ASSUME NEW q \in Seq(Tasks), NEW t \in Tasks, NEW S, NEW W, NEW a, NEW b, t \in W
    PROVE  Up(Append(q, t), S, W, a, b)
<1>1. Len(q) + 1 \in DOMAIN Append(q, t) /\ Append(q, t)[Len(q) + 1] \in W
  BY AppendOfTasks
<1>2. \A j \in DOMAIN Append(q, t) : ~(j > Len(q) + 1)
  BY AppendOfTasks
<1> QED BY <1>1, <1>2 DEF Up

LEMMA UpPassedBy ==
    ASSUME NEW q \in Seq(Tasks), NEW t \in Tasks, NEW S, NEW W, NEW a, NEW b,
           t \notin S, Up(q, S, W, a, b)
    PROVE  Up(Append(q, t), S, W, a, b)
<1>1. \A i \in DOMAIN Append(q, t) : i \in DOMAIN q \/ Append(q, t)[i] = t
  BY AppendOfTasks
<1>2. \A i \in DOMAIN q : i \in DOMAIN Append(q, t) /\ Append(q, t)[i] = q[i]
  BY AppendOfTasks
<1> HIDE DEF Up
<1>3. CASE a = b /\ \A i \in DOMAIN q : q[i] \notin S
  BY <1>1, <1>2, <1>3 DEF Up
<1>4. ASSUME NEW i \in DOMAIN q, q[i] \in W, \A j \in DOMAIN q : j > i => q[j] \notin S
      PROVE  Up(Append(q, t), S, W, a, b)
  BY <1>1, <1>2, <1>4 DEF Up
<1> QED BY <1>3, <1>4 DEF Up

LEMMA UpTaken ==
    ASSUME NEW q \in Seq(Tasks), q # <<>>, NEW S, NEW W, NEW a, NEW b, NEW c,
           Up(q, S, W, a, b),
           Head(q) \notin S /\ a = b => c = b,
           Head(q) \in W => c = b
    PROVE  Up(Tail(q), S, W, c, b)
<1>1. CASE a = b /\ \A i \in DOMAIN q : q[i] \notin S
  BY <1>1, HeadOfTasks DEF Up
<1>2. ASSUME NEW i \in DOMAIN q, q[i] \in W, \A j \in DOMAIN q : j > i => q[j] \notin S
      PROVE  Up(Tail(q), S, W, c, b)
  <2>1. CASE i = 1
    <3>1. c = b  BY <1>2, <2>1, HeadOfTasks
    <3>2. \A j \in DOMAIN Tail(q) : j + 1 > i /\ j + 1 \in DOMAIN q /\ Tail(q)[j] = q[j + 1]
      BY <2>1, HeadOfTasks
    <3> QED BY <1>2, <3>1, <3>2 DEF Up
  <2>2. CASE i # 1
    <3>1. i > 1 /\ i \in Nat  BY <2>2, HeadOfTasks
    <3>2. i - 1 \in DOMAIN Tail(q) /\ Tail(q)[i - 1] \in W  BY <1>2, <3>1, HeadOfTasks
    <3>3. \A j \in DOMAIN Tail(q) : j > i - 1 => Tail(q)[j] \notin S
      BY <1>2, <3>1, HeadOfTasks
    <3> QED BY <3>2, <3>3 DEF Up
  <2> QED BY <2>1, <2>2
<1> QED BY <1>1, <1>2 DEF Up

\* The generations of a chain: none is ahead of g, and an update of a header that waits
\* behind a rebuild is newer than it.
Ordered(q, g) ==
    /\ \A i \in DOMAIN q : q[i].generation <= g
    /\ \A i, j \in DOMAIN q :
           /\ j < i /\ q[j].method = "rebuild"
           /\ q[i].method # "rebuild" /\ q[i].generation # None
           => q[j].generation < q[i].generation

LEMMA OrderedTail ==
    ASSUME NEW q \in Seq(Tasks), q # <<>>, NEW g \in Nat, NEW h \in Nat, h >= g, Ordered(q, g)
    PROVE  Ordered(Tail(q), h)
<1>1. \A i \in DOMAIN q : q[i].generation \in Int /\ i \in Nat
  BY TaskNumbers
<1>2. \A i \in DOMAIN Tail(q) : i \in Nat /\ i + 1 \in DOMAIN q /\ Tail(q)[i] = q[i + 1]
  BY HeadOfTasks
<1>3. \A i \in DOMAIN Tail(q) : Tail(q)[i].generation <= h
  BY <1>1, <1>2 DEF Ordered
<1>4. ASSUME NEW i \in DOMAIN Tail(q), NEW j \in DOMAIN Tail(q), j < i,
             Tail(q)[j].method = "rebuild", Tail(q)[i].method # "rebuild",
             Tail(q)[i].generation # None
      PROVE  Tail(q)[j].generation < Tail(q)[i].generation
  <2>1. j + 1 < i + 1  BY <1>2, <1>4
  <2> QED BY <1>2, <1>4, <2>1 DEF Ordered
<1> QED BY <1>3, <1>4 DEF Ordered

LEMMA OrderedAppend ==
    ASSUME NEW q \in Seq(Tasks), NEW t \in Tasks, NEW g \in Nat, NEW h \in Nat, h >= g,
           Ordered(q, g), t.generation <= h,
           t.method = "rebuild" \/ t.generation = None \/ t.generation > g
    PROVE  Ordered(Append(q, t), h)
<1> DEFINE a == Append(q, t)
<1>1. \A i \in DOMAIN q : q[i].generation \in Int  BY TaskNumbers
<1>2. t.generation \in Int  BY TaskNumbers
<1>3. /\ DOMAIN a = 1..(Len(q) + 1) /\ DOMAIN q = 1..Len(q) /\ Len(q) \in Nat
      /\ a[Len(q) + 1] = t /\ \A i \in DOMAIN q : a[i] = q[i]
  BY AppendOfTasks
<1> HIDE DEF a
<1>4. \A i \in DOMAIN a : a[i].generation <= h
  BY <1>1, <1>2, <1>3 DEF Ordered
<1>5. ASSUME NEW i \in DOMAIN a, NEW j \in DOMAIN a, j < i, a[j].method = "rebuild",
             a[i].method # "rebuild", a[i].generation # None
      PROVE  a[j].generation < a[i].generation
  <2>1. j \in DOMAIN q /\ a[j] = q[j]  BY <1>3, <1>5
  <2>2. CASE i \in DOMAIN q  BY <1>3, <1>5, <2>1, <2>2 DEF Ordered
  <2>3. CASE i \notin DOMAIN q
    <3>1. a[i] = t  BY <1>3, <2>3
    <3>2. t.generation > g /\ q[j].generation <= g  BY <1>5, <2>1, <3>1 DEF Ordered
    <3> QED BY <1>1, <1>2, <2>1, <3>1, <3>2
  <2> QED BY <2>2, <2>3
<1>6. Ordered(a, h)  BY <1>4, <1>5 DEF Ordered
<1> QED BY <1>6 DEF a

-----------------------------------------------------------------------------
(* What a task does to a document.                                         *)

SetsText(u) ==
    {t \in Tasks : /\ t.uri = u
                   /\ \/ t.method \in {"didOpen", "didChange", "didClose"}
                      \/ t.method = "didSave" /\ t.text # None}

SetsVersion(u) ==
    {t \in Tasks : t.uri = u /\ t.method \in {"didOpen", "didChange", "didClose"}}

textAfter(t) == IF t.method = "didClose" THEN 0 ELSE t.text
versionAfter(t) == IF t.method = "didClose" THEN None ELSE t.version

\* clangd is told of a document what the task carries.
LEMMA Told ==
    ASSUME AdapterType, NEW t \in Tasks
    PROVE  /\ told(t) \in [Uris -> Cell]
           /\ \A u \in Uris :
                  /\ told(t)[u].text = IF t \in SetsText(u) THEN textAfter(t) ELSE clangd[u].text
                  /\ told(t)[u].version =
                         IF t \in SetsVersion(u) THEN versionAfter(t) ELSE clangd[u].version
<1> USE DEF SetsText, SetsVersion, textAfter, versionAfter
<1>1. clangd \in [Uris -> Cell]  BY DEF AdapterType
<1>2. t.version \in Int /\ None \in Int  BY TaskNumbers DEF None
<1>3. CASE t.method \in {"didOpen", "didChange"}
  <2>1. t.uri \in Uris /\ t.text \in Nat  BY <1>3, TaskNumbers DEF Tasks, Task
  <2>2. told(t) = [clangd EXCEPT ![t.uri] = [text |-> t.text, version |-> t.version]]
    BY <1>3 DEF told
  <2> QED BY <1>1, <1>2, <1>3, <2>1, <2>2 DEF Cell
<1>4. CASE t.method = "didSave" /\ t.text # None
  <2>1. t.uri \in Uris /\ t.text \in Nat  BY <1>4, TaskNumbers
  <2>2. told(t) = [clangd EXCEPT ![t.uri] = [clangd[t.uri] EXCEPT !.text = t.text]]
    BY <1>1, <1>4 DEF told
  <2> QED BY <1>1, <1>4, <2>1, <2>2 DEF Cell
<1>5. CASE t.method = "didClose"
  <2>1. t.uri \in Uris  BY <1>5 DEF Tasks, Task
  <2>2. told(t) = [clangd EXCEPT ![t.uri] = [text |-> 0, version |-> None]]
    BY <1>5 DEF told, Closed
  <2> QED BY <1>1, <1>2, <1>5, <2>1, <2>2 DEF Cell
<1>6. CASE t.method \in {"forward", "rebuild"} \/ (t.method = "didSave" /\ t.text = None)
  <2>1. told(t) = clangd  BY <1>6 DEF told
  <2> QED BY <1>1, <1>6, <2>1
<1> QED BY <1>3, <1>4, <1>5, <1>6 DEF Tasks, Task

\* The guard makes of a document what the task will make of clangd's.
LEMMA Accepted ==
    ASSUME AdapterType, NEW m \in Message, NEW g \in Nat \cup {None}
    PROVE  LET t == taskOf(m, g)
           IN  /\ acceptedDocuments(m) \in [Uris -> Cell]
               /\ \A u \in Uris :
                      /\ acceptedDocuments(m)[u].text =
                             IF t \in SetsText(u) THEN textAfter(t) ELSE documents[u].text
                      /\ acceptedDocuments(m)[u].version =
                             IF t \in SetsVersion(u) THEN versionAfter(t) ELSE documents[u].version
<1> DEFINE t == taskOf(m, g)
<1>1. documents \in [Uris -> Cell]  BY DEF AdapterType
<1>2. t \in Tasks /\ t.uri = m.uri /\ t.text = m.text /\ t.version = m.version
  BY MessageTask DEF taskOf
<1>3. t.version \in Int /\ None \in Int  BY <1>2, TaskNumbers DEF None
<1>4. m.uri = "none" => m.method \notin {"didOpen", "didChange", "didSave", "didClose"}
  BY LspUrisAssumption DEF Message
<1>5. m.uri # "none" => m.method \in {"didOpen", "didChange", "didSave", "didClose"}
  BY DEF Message
<1>6. t.method = IF m.uri = "none" THEN "forward" ELSE m.method  BY DEF taskOf
<1> HIDE DEF t
<1> USE DEF SetsText, SetsVersion, textAfter, versionAfter
<1>7. CASE m.method \in {"didOpen", "didChange"}
  <2>1. t.uri \in Uris /\ t.text \in Nat  BY <1>2, <1>4, <1>6, <1>7, TaskNumbers DEF Tasks, Task
  <2>2. acceptedDocuments(m) =
            [documents EXCEPT ![t.uri] = [text |-> t.text, version |-> t.version]]
    BY <1>2, <1>7 DEF acceptedDocuments
  <2>3. t.method \in {"didOpen", "didChange"}  BY <1>4, <1>6, <1>7
  <2> QED BY <1>1, <1>2, <1>3, <2>1, <2>2, <2>3 DEF Cell, t
<1>8. CASE m.method = "didSave" /\ m.text # None
  <2>1. t.uri \in Uris /\ t.text \in Nat  BY <1>2, <1>8, TaskNumbers
  <2>2. acceptedDocuments(m) =
            [documents EXCEPT ![t.uri] = [documents[t.uri] EXCEPT !.text = t.text]]
    BY <1>1, <1>2, <1>8 DEF acceptedDocuments
  <2>3. t.method = "didSave" /\ t.text # None  BY <1>2, <1>4, <1>6, <1>8
  <2> QED BY <1>1, <1>2, <2>1, <2>2, <2>3 DEF Cell, t
<1>9. CASE m.method = "didClose"
  <2>1. t.method = "didClose"  BY <1>4, <1>6, <1>9
  <2>2. t.uri \in Uris  BY <1>2, <2>1 DEF Tasks, Task
  <2>3. acceptedDocuments(m) = [documents EXCEPT ![t.uri] = [text |-> 0, version |-> None]]
    BY <1>2, <1>9 DEF acceptedDocuments, Closed
  <2> QED BY <1>1, <1>2, <1>3, <2>1, <2>2, <2>3 DEF Cell, t
<1>10. CASE m.method = "didSave" /\ m.text = None
  <2>1. t.method = "didSave" /\ t.text = None  BY <1>2, <1>4, <1>6, <1>10
  <2>2. acceptedDocuments(m) = documents  BY <1>10 DEF acceptedDocuments
  <2> QED BY <1>1, <2>1, <2>2 DEF t
<1>11. CASE m.method \notin {"didOpen", "didChange", "didSave", "didClose"}
  <2>1. t.method = "forward"  BY <1>5, <1>6, <1>11
  <2>2. acceptedDocuments(m) = documents  BY <1>11 DEF acceptedDocuments
  <2> QED BY <1>1, <2>1, <2>2 DEF t
<1> QED BY <1>7, <1>8, <1>9, <1>10, <1>11

-----------------------------------------------------------------------------
(* The invariant.                                                          *)

\* With the tasks of the chain done, clangd has the text and the version the guard has.
TextWays(u, d) == {t \in SetsText(u) : textAfter(t) = d.text}
VersionWays(u, d) == {t \in SetsVersion(u) : versionAfter(t) = d.version}

InStep(u, q, c, d) ==
    /\ Up(q, SetsText(u), TextWays(u, d), c.text, d.text)
    /\ Up(q, SetsVersion(u), VersionWays(u, d), c.version, d.version)

lasting == ~violated /\ socket = "open"

SyncInv == lasting => \A u \in Uris : InStep(u, queue, clangd[u], documents[u])

GenerationsInv == Ordered(queue, generation) /\ timer <= generation

SessionInv == AdapterType /\ GenerationsInv /\ FileBeforeClangd /\ SyncInv

LEMMA SessionInit == Init => SessionInv
<1> SUFFICES ASSUME Init PROVE SessionInv
  OBVIOUS
<1> USE DEF Init
<1>1. Closed \in Cell /\ (CHOOSE t \in Texts : TRUE) \in Texts
  BY LspTextsAssumption DEF Closed, Cell, None
<1>2. AdapterType  BY <1>1 DEF AdapterType
<1>3. DOMAIN queue = {}  OBVIOUS
<1>4. GenerationsInv  BY <1>3 DEF GenerationsInv, Ordered, None
<1>5. FileBeforeClangd  BY DEF FileBeforeClangd
<1>6. SyncInv  BY <1>3 DEF SyncInv, InStep, Up
<1> QED BY <1>2, <1>4, <1>5, <1>6 DEF SessionInv

\* A task that joins the chain while the guard goes from d to e.
LEMMA InStepAppended ==
    ASSUME NEW q \in Seq(Tasks), NEW t \in Tasks, NEW u, NEW c, NEW d, NEW e,
           InStep(u, q, c, d),
           e.text = IF t \in SetsText(u) THEN textAfter(t) ELSE d.text,
           e.version = IF t \in SetsVersion(u) THEN versionAfter(t) ELSE d.version
    PROVE  InStep(u, Append(q, t), c, e)
<1>1. Up(Append(q, t), SetsText(u), TextWays(u, e), c.text, e.text)
  <2>1. CASE t \in SetsText(u)
    <3>1. t \in TextWays(u, e)  BY <2>1 DEF TextWays
    <3> QED BY <3>1, UpAppended
  <2>2. CASE t \notin SetsText(u)
    <3>1. TextWays(u, e) = TextWays(u, d) /\ e.text = d.text  BY <2>2 DEF TextWays
    <3> QED BY <2>2, <3>1, UpPassedBy DEF InStep
  <2> QED BY <2>1, <2>2
<1>2. Up(Append(q, t), SetsVersion(u), VersionWays(u, e), c.version, e.version)
  <2>1. CASE t \in SetsVersion(u)
    <3>1. t \in VersionWays(u, e)  BY <2>1 DEF VersionWays
    <3> QED BY <3>1, UpAppended
  <2>2. CASE t \notin SetsVersion(u)
    <3>1. VersionWays(u, e) = VersionWays(u, d) /\ e.version = d.version
      BY <2>2 DEF VersionWays
    <3> QED BY <2>2, <3>1, UpPassedBy DEF InStep
  <2> QED BY <2>1, <2>2
<1> QED BY <1>1, <1>2 DEF InStep

\* A task that leaves the chain while clangd goes from c to e.
LEMMA InStepTaken ==
    ASSUME NEW q \in Seq(Tasks), q # <<>>, NEW u, NEW c, NEW d, NEW e,
           InStep(u, q, c, d),
           IF Head(q) \in SetsText(u) THEN e.text = textAfter(Head(q))
                                      ELSE e.text \in {c.text, d.text},
           IF Head(q) \in SetsVersion(u) THEN e.version = versionAfter(Head(q))
                                         ELSE e.version \in {c.version, d.version}
    PROVE  InStep(u, Tail(q), e, d)
<1>1. Up(Tail(q), SetsText(u), TextWays(u, d), e.text, d.text)
  <2>1. Head(q) \in TextWays(u, d) => e.text = d.text  BY DEF TextWays
  <2>2. Head(q) \notin SetsText(u) /\ c.text = d.text => e.text = d.text  OBVIOUS
  <2> QED BY <2>1, <2>2, UpTaken DEF InStep
<1>2. Up(Tail(q), SetsVersion(u), VersionWays(u, d), e.version, d.version)
  <2>1. Head(q) \in VersionWays(u, d) => e.version = d.version  BY DEF VersionWays
  <2>2. Head(q) \notin SetsVersion(u) /\ c.version = d.version => e.version = d.version  OBVIOUS
  <2> QED BY <2>1, <2>2, UpTaken DEF InStep
<1> QED BY <1>1, <1>2 DEF InStep

-----------------------------------------------------------------------------
(* The steps.                                                              *)

\* A message the guard accepts.
LEMMA AcceptStep ==
    ASSUME SessionInv, NEW m \in Message, AcceptMessage(m)
    PROVE  SessionInv'
<1> DEFINE g == IF isHeaderUpdate(m) THEN generation + 1 ELSE None
           t == taskOf(m, g)
<1> USE DEF SessionInv
<1>1. /\ documents' = acceptedDocuments(m) /\ queue' = Append(queue, t)
      /\ generation' = IF isHeaderUpdate(m) THEN generation + 1 ELSE generation
      /\ timer' = IF isHeaderUpdate(m) THEN None ELSE timer
      /\ UNCHANGED <<writing, violated, socket, files, clangd>>
  BY DEF AcceptMessage, taskOf
<1>2. queue \in Seq(Tasks) /\ generation \in Nat /\ timer \in Nat \cup {None}
  BY DEF AdapterType
<1>3. g \in Nat \cup {None}  BY <1>2
<1>4. t \in Tasks /\ t.generation = g  BY <1>3, MessageTask DEF taskOf
<1>5. /\ documents' \in [Uris -> Cell]
      /\ \A u \in Uris :
             /\ documents'[u].text = IF t \in SetsText(u) THEN textAfter(t) ELSE documents[u].text
             /\ documents'[u].version =
                    IF t \in SetsVersion(u) THEN versionAfter(t) ELSE documents[u].version
  BY <1>1, <1>3, Accepted
<1>6. generation' \in Nat /\ generation' >= generation /\ g <= generation'
      /\ (g = None \/ g > generation)
  BY <1>1, <1>2 DEF None
<1>7. timer' \in Nat \cup {None} /\ timer' <= generation'
  BY <1>1, <1>2 DEF None, GenerationsInv
<1> HIDE DEF g, t
<1>8. AdapterType'
  <2>1. queue' \in Seq(Tasks) /\ (queue # <<>> => Head(queue') = Head(queue) /\ queue' # <<>>)
    BY <1>1, <1>2, <1>4, AppendOfTasks
  <2> QED BY <1>1, <1>5, <1>6, <1>7, <2>1 DEF AdapterType
<1>9. GenerationsInv'
  <2>1. Ordered(Append(queue, t), generation')
    BY <1>2, <1>4, <1>6, OrderedAppend DEF GenerationsInv
  <2> QED BY <1>1, <1>7, <2>1 DEF GenerationsInv
<1>10. FileBeforeClangd'  BY <1>1 DEF FileBeforeClangd
<1>11. SyncInv'
  <2> SUFFICES ASSUME lasting, NEW u \in Uris
               PROVE  InStep(u, Append(queue, t), clangd[u], documents'[u])
    BY <1>1 DEF SyncInv, lasting
  <2>1. InStep(u, queue, clangd[u], documents[u])  BY DEF SyncInv
  <2> QED BY <1>2, <1>4, <1>5, <2>1, InStepAppended
<1> QED BY <1>8, <1>9, <1>10, <1>11

\* The timer of a rebuild.
LEMMA RebuildTimerStep ==
    ASSUME SessionInv, RebuildTimer
    PROVE  SessionInv'
<1> DEFINE t == [method |-> "rebuild", uri |-> "none", text |-> None, version |-> None,
                 generation |-> timer]
<1> USE DEF SessionInv
<1>1. /\ queue' = Append(queue, t) /\ timer' = None
      /\ UNCHANGED <<documents, writing, generation, violated, socket, files, clangd>>
  BY DEF RebuildTimer, guard
<1>2. queue \in Seq(Tasks) /\ generation \in Nat /\ timer \in Nat \cup {None}
  BY DEF AdapterType
<1>3. t \in Tasks /\ t.generation = timer /\ t.method = "rebuild"  BY <1>2, RebuildTask
<1>4. \A u \in Uris : t \notin SetsText(u) /\ t \notin SetsVersion(u)
  BY <1>3 DEF SetsText, SetsVersion
<1> HIDE DEF t
<1>5. AdapterType'
  <2>1. queue' \in Seq(Tasks) /\ (queue # <<>> => Head(queue') = Head(queue) /\ queue' # <<>>)
    BY <1>1, <1>2, <1>3, AppendOfTasks
  <2> QED BY <1>1, <2>1 DEF AdapterType
<1>6. GenerationsInv'
  <2>1. Ordered(Append(queue, t), generation)
    BY <1>2, <1>3, OrderedAppend DEF GenerationsInv
  <2> QED BY <1>1, <1>2, <2>1 DEF GenerationsInv, None
<1>7. FileBeforeClangd'  BY <1>1 DEF FileBeforeClangd
<1>8. SyncInv'
  <2> SUFFICES ASSUME lasting, NEW u \in Uris
               PROVE  InStep(u, Append(queue, t), clangd[u], documents[u])
    BY <1>1 DEF SyncInv, lasting
  <2>1. InStep(u, queue, clangd[u], documents[u])  BY DEF SyncInv
  <2> QED BY <1>2, <1>3, <1>4, <2>1, InStepAppended
<1> QED BY <1>5, <1>6, <1>7, <1>8

\* The head of the chain is handed on, with its text on the disk if it has one.
LEMMA DeliverStep ==
    ASSUME SessionInv, queue # <<>>, deliver(Head(queue)), writing' = "no",
           files' \in [Uris -> Texts],
           lasting => \A u \in Uris :
               files'[u] = IF u = Head(queue).uri /\ Head(queue).text # None
                           THEN Head(queue).text ELSE files[u]
    PROVE  SessionInv'
<1> DEFINE t == Head(queue)
<1> USE DEF SessionInv
<1>1. /\ queue' = Tail(queue)
      /\ ~lasting => UNCHANGED <<clangd, timer>>
      /\ lasting => clangd' = told(t) /\ timer' \in {timer, generation}
      /\ UNCHANGED <<documents, generation, violated, socket>>
  BY DEF deliver, lasting, guard
<1>2. queue \in Seq(Tasks) /\ generation \in Nat /\ timer \in Nat \cup {None}
  BY DEF AdapterType
<1>3. t \in Tasks /\ Tail(queue) \in Seq(Tasks)  BY <1>2, HeadOfTasks
<1>4. /\ told(t) \in [Uris -> Cell]
      /\ \A u \in Uris :
             /\ told(t)[u].text = IF t \in SetsText(u) THEN textAfter(t) ELSE clangd[u].text
             /\ told(t)[u].version =
                    IF t \in SetsVersion(u) THEN versionAfter(t) ELSE clangd[u].version
  BY <1>3, Told
<1>5. lasting' = lasting  BY <1>1 DEF lasting
<1> HIDE DEF t
<1>6. AdapterType'
  BY <1>1, <1>2, <1>3, <1>4 DEF AdapterType
<1>7. GenerationsInv'
  <2>1. Ordered(Tail(queue), generation)
    BY <1>2, OrderedTail DEF GenerationsInv
  <2> QED BY <1>1, <1>2, <2>1 DEF GenerationsInv
<1>8. FileBeforeClangd'
  <2> SUFFICES ASSUME lasting, NEW u \in Uris, clangd'[u] # Closed
               PROVE  files'[u] = clangd'[u].text
    BY <1>5 DEF FileBeforeClangd, lasting
  <2>1. clangd' = told(t)  BY <1>1
  <2>2. CASE t \in SetsText(u) /\ t.method # "didClose"
    <3>1. t.text # None /\ t.uri = u  BY <2>2 DEF SetsText, Tasks, Task
    <3>2. files'[u] = t.text  BY <3>1 DEF t
    <3> QED BY <1>4, <2>1, <2>2, <3>2 DEF textAfter
  <2>3. CASE t \in SetsText(u) /\ t.method = "didClose"
    <3>1. t \in SetsVersion(u)  BY <2>3 DEF SetsText, SetsVersion
    <3>2. told(t)[u].text = 0 /\ told(t)[u].version = None
      BY <1>4, <2>3, <3>1 DEF textAfter, versionAfter
    <3>3. told(t)[u] \in Cell  BY <1>4
    <3>4. told(t)[u] = Closed  BY <3>2, <3>3 DEF Cell, Closed
    <3> QED BY <2>1, <3>4
  <2>4. CASE t \notin SetsText(u)
    <3>1. t \notin SetsVersion(u)  BY <2>4 DEF SetsText, SetsVersion
    <3>2. clangd[u] \in Cell /\ told(t)[u] \in Cell  BY <1>4 DEF AdapterType
    <3>3. told(t)[u] = clangd[u]  BY <1>4, <2>4, <3>1, <3>2 DEF Cell
    <3>4. ~(u = t.uri /\ t.text # None)
      BY <1>3, <2>4, TaskNumbers DEF SetsText
    <3>5. files'[u] = files[u]  BY <3>4 DEF t
    <3> QED BY <2>1, <3>3, <3>5 DEF FileBeforeClangd, lasting
  <2> QED BY <2>2, <2>3, <2>4
<1>9. SyncInv'
  <2> SUFFICES ASSUME lasting, NEW u \in Uris
               PROVE  InStep(u, Tail(queue), told(t)[u], documents[u])
    BY <1>1, <1>5 DEF SyncInv
  <2>1. InStep(u, queue, clangd[u], documents[u])  BY DEF SyncInv
  <2> QED BY <1>2, <1>4, <2>1, InStepTaken DEF t
<1> QED BY <1>6, <1>7, <1>8, <1>9

\* A task begins, and ends at once unless it has a file to write.
LEMMA RunStep ==
    ASSUME SessionInv, RunTask
    PROVE  SessionInv'
<1> USE DEF SessionInv
<1>1. queue # <<>> /\ writing = "no" /\ UNCHANGED files  BY DEF RunTask
<1>2. CASE Head(queue).text # None /\ ~violated
  <2>1. /\ writing' = "staging"
        /\ UNCHANGED <<documents, queue, generation, timer, violated, socket, clangd>>
    BY <1>2 DEF RunTask, guard, rebuild
  <2>2. AdapterType'  BY <1>1, <1>2, <2>1 DEF AdapterType
  <2> QED BY <1>1, <2>1, <2>2 DEF GenerationsInv, FileBeforeClangd, SyncInv, lasting
<1>3. CASE ~(Head(queue).text # None /\ ~violated)
  <2>1. deliver(Head(queue)) /\ writing' = "no"  BY <1>1, <1>3 DEF RunTask
  <2>2. files' \in [Uris -> Texts]  BY <1>1 DEF AdapterType
  <2>3. lasting => Head(queue).text = None  BY <1>3 DEF lasting
  <2> QED BY <1>1, <2>1, <2>2, <2>3, DeliverStep
<1> QED BY <1>2, <1>3

\* The file of an update is in its place.
LEMMA RenamedStep ==
    ASSUME SessionInv, FileRenamed
    PROVE  SessionInv'
<1> USE DEF SessionInv
<1>1. /\ queue # <<>> /\ Head(queue).text # None
      /\ files' = [files EXCEPT ![Head(queue).uri] = Head(queue).text]
      /\ deliver(Head(queue)) /\ writing' = "no"
  BY DEF FileRenamed, AdapterType
<1>2. Head(queue) \in Tasks  BY <1>1, HeadOfTasks DEF AdapterType
<1>3. Head(queue).uri \in Uris /\ Head(queue).text \in Texts  BY <1>1, <1>2, TaskNumbers
<1>4. files \in [Uris -> Texts]  BY DEF AdapterType
<1>5. /\ files' \in [Uris -> Texts]
      /\ \A u \in Uris : files'[u] = IF u = Head(queue).uri THEN Head(queue).text ELSE files[u]
  BY <1>1, <1>3, <1>4
<1> QED BY <1>1, <1>5, DeliverStep

\* A rebuild changes versions alone, to those of the guard.
LEMMA RebuildStep ==
    ASSUME SessionInv, Rebuild
    PROVE  SessionInv'
<1> USE DEF SessionInv
<1>1. /\ queue # <<>> /\ writing = "no" /\ Head(queue).method = "rebuild"
      /\ queue' = Tail(queue)
      /\ UNCHANGED <<documents, writing, generation, timer, violated, socket, files>>
  BY DEF Rebuild, rebuildNext, guard, rebuild
<1>2. queue \in Seq(Tasks) /\ generation \in Nat /\ Tail(queue) \in Seq(Tasks)
  BY <1>1, HeadOfTasks DEF AdapterType
<1>3. documents \in [Uris -> Cell] /\ clangd \in [Uris -> Cell]  BY DEF AdapterType
<1>4. /\ clangd' \in [Uris -> Cell]
      /\ \A u \in Uris :
             /\ clangd'[u].text = clangd[u].text
             /\ clangd'[u].version \in {clangd[u].version, documents[u].version}
             /\ clangd[u] = Closed => clangd'[u] = Closed
  <2>1. CASE UNCHANGED clangd  BY <1>3, <2>1
  <2>2. CASE clangd' = [u \in Uris |->
                  IF u \in TranslationUnits /\ isOpen(u) /\ clangd[u] # Closed
                  THEN [clangd[u] EXCEPT !.version = documents[u].version]
                  ELSE clangd[u]]
    BY <1>3, <2>2 DEF Cell
  <2> QED BY <2>1, <2>2 DEF Rebuild
<1>5. AdapterType'  BY <1>1, <1>2, <1>4 DEF AdapterType
<1>6. GenerationsInv'
  <2>1. Ordered(Tail(queue), generation)  BY <1>1, <1>2, OrderedTail DEF GenerationsInv
  <2> QED BY <1>1, <2>1 DEF GenerationsInv
<1>7. FileBeforeClangd'  BY <1>1, <1>4 DEF FileBeforeClangd
<1>8. SyncInv'
  <2> SUFFICES ASSUME lasting, NEW u \in Uris
               PROVE  InStep(u, Tail(queue), clangd'[u], documents[u])
    BY <1>1 DEF SyncInv, lasting
  <2>1. InStep(u, queue, clangd[u], documents[u])  BY DEF SyncInv
  <2>2. Head(queue) \notin SetsText(u) /\ Head(queue) \notin SetsVersion(u)
    BY <1>1 DEF SetsText, SetsVersion
  <2> QED BY <1>1, <1>2, <1>4, <2>1, <2>2, InStepTaken
<1> QED BY <1>5, <1>6, <1>7, <1>8

\* A step that ends the session: it may take the head of the chain with it.
LEMMA EndStep ==
    ASSUME SessionInv, ~lasting', UNCHANGED <<documents, files, clangd>>,
           \/ queue # <<>> /\ queue' = Tail(queue) /\ writing' = "no"
           \/ UNCHANGED <<queue, writing>>,
           \/ generation' = generation + 1 /\ timer' = None
           \/ UNCHANGED <<generation, timer>>
    PROVE  SessionInv'
<1> USE DEF SessionInv
<1>1. queue \in Seq(Tasks) /\ generation \in Nat /\ timer \in Nat \cup {None}
  BY DEF AdapterType
<1>2. generation' \in Nat /\ generation' >= generation /\ timer' \in Nat \cup {None}
      /\ timer' <= generation'
  BY <1>1 DEF None, GenerationsInv
<1>3. queue' \in Seq(Tasks) /\ Ordered(queue', generation')
  <2>1. CASE queue # <<>> /\ queue' = Tail(queue)
    BY <1>1, <1>2, <2>1, HeadOfTasks, OrderedTail DEF GenerationsInv
  <2>2. CASE UNCHANGED queue
    <3>1. \A i \in DOMAIN queue : queue[i].generation \in Int  BY <1>1, TaskNumbers
    <3> QED BY <1>1, <1>2, <2>2, <3>1 DEF GenerationsInv, Ordered
  <2> QED BY <2>1, <2>2
<1>4. AdapterType'  BY <1>2, <1>3 DEF AdapterType
<1>5. GenerationsInv' /\ FileBeforeClangd' /\ SyncInv'
  BY <1>2, <1>3 DEF GenerationsInv, FileBeforeClangd, SyncInv, lasting
<1> QED BY <1>4, <1>5

LEMMA SessionNext == SessionInv /\ [Next]_vars => SessionInv'
<1> SUFFICES ASSUME SessionInv, [Next]_vars PROVE SessionInv'
  OBVIOUS
<1>1. ASSUME NEW m \in Message, AcceptMessage(m) PROVE SessionInv'  BY <1>1, AcceptStep
<1>2. CASE RunTask  BY <1>2, RunStep
<1>3. CASE FileRenamed  BY <1>3, RenamedStep
<1>4. CASE RebuildTimer  BY <1>4, RebuildTimerStep
<1>5. CASE Rebuild  BY <1>5, RebuildStep
<1>6. CASE FileStaged \/ UNCHANGED vars
  <2>1. /\ writing' \in {writing, "rename"} /\ (writing = "no" => writing' = "no")
        /\ UNCHANGED <<documents, queue, generation, timer, violated, socket, files, clangd>>
    BY <1>6 DEF FileStaged, vars, guard, rebuild
  <2>2. AdapterType'  BY <2>1 DEF SessionInv, AdapterType
  <2> QED BY <2>1, <2>2 DEF SessionInv, GenerationsInv, FileBeforeClangd, SyncInv, lasting
<1>7. CASE RefuseMessage \/ RefuseServerMessage
  <2>1. reportViolation /\ UNCHANGED <<documents, queue, writing, files, clangd>>
    BY <1>7 DEF RefuseMessage, RefuseServerMessage, guard
  <2> QED BY <2>1, EndStep DEF reportViolation, rebuild, lasting
<1>8. CASE FileFails
  <2>1. queue # <<>> /\ queue' = Tail(queue) /\ writing' = "no" /\ reportViolation
        /\ UNCHANGED <<documents, files, clangd>>
    BY <1>8 DEF FileFails, guard, SessionInv, AdapterType
  <2> QED BY <2>1, EndStep DEF reportViolation, rebuild, lasting
<1>9. CASE Dispose \/ SocketCloses
  <2>1. /\ socket' # "open" /\ generation' = generation + 1 /\ timer' = None
        /\ UNCHANGED <<documents, queue, writing, files, clangd>>
    BY <1>9 DEF Dispose, SocketCloses, guard
  <2> QED BY <2>1, EndStep DEF lasting
<1> QED BY <1>1, <1>2, <1>3, <1>4, <1>5, <1>6, <1>7, <1>8, <1>9 DEF Next, Internal

-----------------------------------------------------------------------------
(* The sum of the texts, by induction over the sets of documents.          *)

\* A set of numbers has a least one.
LEMMA LeastNat ==
    ASSUME NEW T \in SUBSET Nat, T # {}
    PROVE  \E n \in T : \A m \in T : ~(m < n)
<1> DEFINE R == OpToRel(<, Nat)
<1>1. IsWellFoundedOn(R, Nat)  BY NatLessThanWellFounded
<1>2. \E n \in T : \A m \in T : ~(<<m, n>> \in R)
  <2> HIDE DEF R
  <2> QED BY <1>1, WFMin
<1>3. \A m, n \in Nat : m < n => <<m, n>> \in R  BY DEF OpToRel
<1> QED BY <1>2, <1>3

\* The sum over a set takes the elements out one by one.
pick(s) == CHOOSE x \in s : TRUE
rest(s) == s \ {pick(s)}
partial(d, g, s) == IF s = {} THEN 0 ELSE d[pick(s)].text + g[rest(s)]

\* A function that has the sum of the texts of d for every set of documents.
Sums(d, S, g) == g = [s \in SUBSET S |-> partial(d, g, s)]

LEMMA Picked ==
    ASSUME NEW S, IsFiniteSet(S), NEW s \in SUBSET S, s # {}
    PROVE  /\ pick(s) \in s /\ rest(s) \in SUBSET S
           /\ Cardinality(s) \in Nat /\ Cardinality(rest(s)) \in Nat
           /\ Cardinality(rest(s)) = Cardinality(s) - 1
<1>1. pick(s) \in s  BY Zenon DEF pick
<1>2. IsFiniteSet(s)  BY FS_Subset
<1>3. /\ IsFiniteSet(s \ {pick(s)})
      /\ Cardinality(s \ {pick(s)}) = IF pick(s) \in s THEN Cardinality(s) - 1 ELSE Cardinality(s)
  BY <1>2, FS_RemoveElement, Zenon
<1>4. Cardinality(s) \in Nat /\ Cardinality(s \ {pick(s)}) \in Nat
  BY <1>2, <1>3, FS_CardinalityType
<1> QED BY <1>1, <1>3, <1>4 DEF rest

\* Induction over the subsets of a finite set.
LEMMA SubsetInduction ==
    ASSUME NEW S, IsFiniteSet(S), NEW G, {} \in G,
           \A s \in SUBSET S : s # {} /\ rest(s) \in G => s \in G
    PROVE  \A s \in SUBSET S : s \in G
<1> DEFINE T == {Cardinality(s) : s \in {r \in SUBSET S : r \notin G}}
<1> SUFFICES ASSUME T # {} PROVE FALSE
  <2>1. \A s \in SUBSET S : s \notin G => Cardinality(s) \in T  OBVIOUS
  <2> QED BY <2>1
<1>1. T \in SUBSET Nat
  <2>1. \A s \in SUBSET S : Cardinality(s) \in Nat  BY FS_Subset, FS_CardinalityType
  <2> QED BY <2>1
<1>2. PICK n \in T : \A m \in T : ~(m < n)
  <2> HIDE DEF T
  <2> QED BY <1>1, LeastNat
<1>3. PICK s \in SUBSET S : s \notin G /\ Cardinality(s) = n  BY <1>2
<1>4. s # {} /\ rest(s) \notin G  BY <1>3
<1>5. rest(s) \in SUBSET S /\ Cardinality(rest(s)) < n  BY <1>3, <1>4, Picked
<1>6. Cardinality(rest(s)) \in T  BY <1>4, <1>5
<1> QED BY <1>2, <1>5, <1>6

\* There is one: its values for the sets of n elements give those of n + 1.
LEMMA SumsExist ==
    ASSUME NEW S, IsFiniteSet(S), NEW d, \A u \in S : d[u].text \in Int
    PROVE  \E g : Sums(d, S, g)
<1> DEFINE F == [SUBSET S -> Int]
           Upto(g, n) == \A s \in SUBSET S : Cardinality(s) <= n => g[s] = partial(d, g, s)
           T == {n \in Nat : ~\E g \in F : Upto(g, n)}
<1>0. \A s \in SUBSET S : /\ Cardinality(s) \in Nat
                          /\ Cardinality(s) = 0 <=> s = {}
                          /\ Cardinality(s) <= Cardinality(S)
  BY FS_Subset, FS_CardinalityType, FS_EmptySet
<1>1. \E g \in F : Upto(g, 0)
  <2> DEFINE g == [s \in SUBSET S |-> 0]
  <2>1. g \in F  OBVIOUS
  <2>2. Upto(g, 0)
    <3>1. ASSUME NEW s \in SUBSET S, Cardinality(s) <= 0 PROVE g[s] = partial(d, g, s)
      <4>1. s = {}  BY <1>0, <3>1
      <4> QED BY <4>1 DEF partial
    <3> QED BY <3>1
  <2> QED BY <2>1, <2>2
<1>2. ASSUME NEW n \in Nat, NEW g \in F, Upto(g, n)
      PROVE  \E h \in F : Upto(h, n + 1)
  <2> DEFINE h == [s \in SUBSET S |-> IF Cardinality(s) <= n THEN g[s] ELSE partial(d, g, s)]
  <2>1. h \in F
    <3>1. ASSUME NEW s \in SUBSET S PROVE partial(d, g, s) \in Int
      <4>1. CASE s = {}  BY <4>1 DEF partial
      <4>2. CASE s # {}
        <5>1. pick(s) \in S /\ rest(s) \in SUBSET S  BY <4>2, Picked
        <5>2. d[pick(s)].text \in Int /\ g[rest(s)] \in Int  BY <5>1
        <5> QED BY <4>2, <5>2 DEF partial
      <4> QED BY <4>1, <4>2
    <3> QED BY <3>1
  <2>2. ASSUME NEW s \in SUBSET S, Cardinality(s) <= n + 1 PROVE h[s] = partial(d, h, s)
    <3>1. h[s] = partial(d, g, s)  BY <1>2
    <3>2. CASE s = {}  BY <3>1, <3>2 DEF partial
    <3>3. CASE s # {}
      <4>1. rest(s) \in SUBSET S /\ Cardinality(rest(s)) <= n  BY <2>2, <3>3, Picked
      <4>2. h[rest(s)] = g[rest(s)]  BY <4>1
      <4> HIDE DEF h
      <4> QED BY <3>1, <3>3, <4>2 DEF partial
    <3> QED BY <3>2, <3>3
  <2> HIDE DEF h
  <2> QED BY <2>1, <2>2
<1> HIDE DEF Upto, F
<1>3. T = {}
  <2> SUFFICES ASSUME T # {} PROVE FALSE
    OBVIOUS
  <2>1. PICK n \in T : \A m \in T : ~(m < n)
    <3>1. T \in SUBSET Nat  OBVIOUS
    <3> HIDE DEF T
    <3> QED BY <3>1, LeastNat
  <2>2. n # 0 /\ n \in Nat  BY <1>1
  <2>3. n - 1 \in Nat /\ n - 1 < n /\ (n - 1) + 1 = n  BY <2>2
  <2>4. n - 1 \notin T  BY <2>1, <2>3
  <2>5. PICK g \in F : Upto(g, n - 1)  BY <2>3, <2>4
  <2>6. \E h \in F : Upto(h, n)  BY <1>2, <2>3, <2>5
  <2> QED BY <2>1, <2>6
<1>4. PICK g \in F : Upto(g, Cardinality(S))
  <2>1. Cardinality(S) \in Nat  BY FS_CardinalityType
  <2> QED BY <1>3, <2>1
<1>5. \A s \in SUBSET S : g[s] = partial(d, g, s)  BY <1>0, <1>4 DEF Upto
<1>6. g = [s \in SUBSET S |-> g[s]]  BY DEF F
<1>7. g = [s \in SUBSET S |-> partial(d, g, s)]  BY <1>5, <1>6
<1> QED BY <1>7 DEF Sums

TextSum(d, S) == MapThenSumSet(LAMBDA u : d[u].text, S)

\* The sum is the value of such a function.
LEMMA SumOfTexts ==
    ASSUME NEW S, IsFiniteSet(S), NEW d, \A u \in S : d[u].text \in Int
    PROVE  \E h : Sums(d, S, h) /\ TextSum(d, S) = h[S]
<1> DEFINE h == CHOOSE h : Sums(d, S, h)
<1>1. Sums(d, S, h)  BY SumsExist, Zenon
<1>2. TextSum(d, S) = h[S]
  BY Zenon DEF TextSum, MapThenSumSet, MapThenFoldSet, Sums, partial, pick, rest
<1> QED BY <1>1, <1>2, Zenon
LEMMA SumsAt ==
    ASSUME NEW S, IsFiniteSet(S), NEW d, NEW g, Sums(d, S, g)
    PROVE  /\ g[{}] = 0
           /\ \A s \in SUBSET S : s # {} => g[s] = d[pick(s)].text + g[rest(s)]
<1>1. g = [s \in SUBSET S |-> partial(d, g, s)]  BY DEF Sums
<1>2. \A s \in SUBSET S : g[s] = partial(d, g, s)
  <2> DEFINE h == [s \in SUBSET S |-> partial(d, g, s)]
  <2>1. \A s \in SUBSET S : h[s] = partial(d, g, s)  OBVIOUS
  <2>2. h = g  BY <1>1
  <2> HIDE DEF h
  <2> QED BY <2>1, <2>2
<1>3. {} \in SUBSET S  OBVIOUS
<1> QED BY <1>2, <1>3 DEF partial

\* No document is open.
LEMMA SumOfNone ==
    ASSUME NEW S, IsFiniteSet(S), NEW d, \A u \in S : d[u].text = 0
    PROVE  TextSum(d, S) = 0
<1>1. PICK h : Sums(d, S, h) /\ TextSum(d, S) = h[S]
  <2>1. \A u \in S : d[u].text \in Int  OBVIOUS
  <2> QED BY <2>1, SumOfTexts, Zenon
<1>2. h[{}] = 0 /\ \A s \in SUBSET S : s # {} => h[s] = d[pick(s)].text + h[rest(s)]
  BY <1>1, SumsAt
<1> DEFINE G == {s \in SUBSET S : h[s] = 0}
<1>3. {} \in G  BY <1>2
<1>4. ASSUME NEW s \in SUBSET S, s # {}, rest(s) \in G PROVE s \in G
  <2>1. d[pick(s)].text = 0  BY <1>4, Picked
  <2> QED BY <1>2, <1>4, <2>1
<1> HIDE DEF G
<1>5. S \in G  BY <1>3, <1>4, SubsetInduction
<1> QED BY <1>1, <1>5, Zenon DEF G

\* One text is replaced.
LEMMA SumReplaced ==
    ASSUME NEW S, IsFiniteSet(S), NEW d, NEW e, NEW u \in S,
           \A v \in S : d[v].text \in Nat /\ e[v].text \in Nat,
           \A v \in S : v # u => e[v].text = d[v].text
    PROVE  LET before == TextSum(d, S)
               after == TextSum(e, S)
           IN  /\ before \in Nat /\ after \in Nat
               /\ after = before - d[u].text + e[u].text /\ before >= d[u].text
<1>0. \A v \in S : d[v].text \in Int /\ e[v].text \in Int  OBVIOUS
<1>1. PICK h : Sums(d, S, h) /\ TextSum(d, S) = h[S]
  BY <1>0, SumOfTexts, Zenon
<1>2. PICK k : Sums(e, S, k) /\ TextSum(e, S) = k[S]
  BY <1>0, SumOfTexts, Zenon
<1>3. h[{}] = 0 /\ \A s \in SUBSET S : s # {} => h[s] = d[pick(s)].text + h[rest(s)]
  BY <1>1, SumsAt
<1>4. k[{}] = 0 /\ \A s \in SUBSET S : s # {} => k[s] = e[pick(s)].text + k[rest(s)]
  BY <1>2, SumsAt
<1> DEFINE G == {s \in SUBSET S : /\ h[s] \in Nat /\ k[s] \in Nat
                                  /\ u \notin s => k[s] = h[s]
                                  /\ u \in s => k[s] = h[s] - d[u].text + e[u].text
                                                /\ h[s] >= d[u].text}
<1>5. {} \in G  BY <1>3, <1>4
<1>6. ASSUME NEW s \in SUBSET S, s # {}, rest(s) \in G PROVE s \in G
  <2> DEFINE p == pick(s)  r == rest(s)
  <2>1. p \in s /\ r \in SUBSET S /\ r = s \ {p}  BY <1>6, Picked DEF rest
  <2>2. h[s] = d[p].text + h[r] /\ k[s] = e[p].text + k[r]  BY <1>3, <1>4, <1>6
  <2>3. /\ h[r] \in Nat /\ k[r] \in Nat
        /\ u \notin r => k[r] = h[r]
        /\ u \in r => k[r] = h[r] - d[u].text + e[u].text /\ h[r] >= d[u].text
    BY <1>6
  <2>4. p \in S /\ d[p].text \in Nat /\ e[p].text \in Nat /\ d[u].text \in Nat /\ e[u].text \in Nat
    BY <2>1
  <2> HIDE DEF p, r
  <2>5. CASE p = u
    <3>1. u \in s /\ u \notin r  BY <2>1, <2>5
    <3>2. k[s] = h[s] - d[u].text + e[u].text /\ h[s] >= d[u].text /\ h[s] \in Nat /\ k[s] \in Nat
      BY <2>2, <2>3, <2>4, <2>5, <3>1
    <3> QED BY <3>1, <3>2
  <2>6. CASE p # u
    <3>1. (u \in s <=> u \in r) /\ e[p].text = d[p].text  BY <2>1, <2>4, <2>6
    <3> QED BY <2>2, <2>3, <2>4, <3>1
  <2> QED BY <2>5, <2>6
<1>7. S \in G
  <2> HIDE DEF G
  <2> QED BY <1>5, <1>6, SubsetInduction
<1>8. h[S] \in Nat /\ k[S] \in Nat /\ k[S] = h[S] - d[u].text + e[u].text /\ h[S] >= d[u].text
  BY <1>7
<1> QED BY <1>1, <1>2, <1>8, Zenon

-----------------------------------------------------------------------------
(* The size of the open documents.                                         *)

BytesInv ==
    /\ documentBytes = TextSum(documents, Uris)
    /\ documentBytes \in 0..MaxDocumentBytes

\* The guard makes of its documents d and counts their size.
LEMMA BytesReplaced ==
    ASSUME BytesInv, documents \in [Uris -> Cell], documents' \in [Uris -> Cell],
           NEW u \in Uris, NEW t \in Nat, documents'[u].text = t,
           \A v \in Uris : v # u => documents'[v].text = documents[v].text,
           documentBytes' = documentBytes - documents[u].text + t,
           documentBytes' <= MaxDocumentBytes \/ t = 0
    PROVE  BytesInv'
<1>1. \A v \in Uris : documents[v].text \in Nat /\ documents'[v].text \in Nat
  BY DEF Cell
<1>2. /\ TextSum(documents, Uris) \in Nat /\ TextSum(documents', Uris) \in Nat
      /\ TextSum(documents', Uris) = TextSum(documents, Uris) - documents[u].text + t
  BY <1>1, SumReplaced, LspUrisAssumption
<1>3. documentBytes' = TextSum(documents', Uris) /\ documentBytes' \in Nat
  BY <1>2 DEF BytesInv
<1>4. MaxDocumentBytes \in Nat /\ documents[u].text \in Nat  BY <1>1, LspBudgetsAssumption
<1>5. documentBytes' <= MaxDocumentBytes  BY <1>3, <1>4 DEF BytesInv
<1>6. documentBytes' \in 0..MaxDocumentBytes  BY <1>3, <1>4, <1>5
<1> QED BY <1>3, <1>6 DEF BytesInv

LEMMA BytesAccepted ==
    ASSUME SessionInv, BytesInv, NEW m \in Message, AcceptMessage(m)
    PROVE  BytesInv'
<1>1. /\ documents' = acceptedDocuments(m) /\ documentBytes' = acceptedBytes(m)
      /\ validateClientMethod(m)
  BY DEF AcceptMessage
<1>2. documents \in [Uris -> Cell] /\ documents' \in [Uris -> Cell]
  BY AcceptStep DEF SessionInv, AdapterType
<1>3. m.method \in {"didOpen", "didChange"} => m.uri \in Uris /\ m.text \in Nat /\ m.text # None
  <2>1. m.method \in {"didOpen", "didChange"} => m.uri \in Uris /\ m.text \in Texts
    BY DEF Message
  <2>2. \A t \in Texts : t \in Nat /\ t # None  BY LspTextsAssumption DEF None
  <2> QED BY <2>1, <2>2
<1>4. m.method = "didSave" => m.uri \in Uris /\ (m.text # None => m.text \in Nat)
  BY LspTextsAssumption DEF Message
<1>5. m.method = "didClose" => m.uri \in Uris  BY DEF Message
<1>6. documentBytes \in Int /\ \A v \in Uris : documents[v].text \in Nat
  BY <1>2, LspBudgetsAssumption DEF BytesInv, Cell
<1>7. CASE m.method = "didOpen"
  <2>1. /\ documents' = [documents EXCEPT ![m.uri] = [text |-> m.text, version |-> m.version]]
        /\ documentBytes' = documentBytes + m.text
    BY <1>1, <1>7 DEF acceptedDocuments, acceptedBytes
  <2>2. documents[m.uri] = Closed /\ documentBytes + m.text <= MaxDocumentBytes
    BY <1>1, <1>7 DEF validateClientMethod, validateDidOpen, isOpen
  <2>3. documents[m.uri].text = 0
    <3>1. Closed.text = 0  BY DEF Closed
    <3> QED BY <2>2, <3>1, Zenon
  <2>4. /\ documents'[m.uri].text = m.text
        /\ \A v \in Uris : v # m.uri => documents'[v].text = documents[v].text
    BY <1>2, <1>3, <1>7, <2>1
  <2>5. /\ documentBytes' = documentBytes - documents[m.uri].text + m.text
        /\ documentBytes' <= MaxDocumentBytes
    BY <1>3, <1>6, <1>7, <2>1, <2>2, <2>3
  <2> QED BY <1>2, <1>3, <1>7, <2>4, <2>5, BytesReplaced
<1>8. CASE m.method = "didChange"
  <2>1. /\ documents' = [documents EXCEPT ![m.uri] = [text |-> m.text, version |-> m.version]]
        /\ documentBytes' = documentBytes - documents[m.uri].text + m.text
    BY <1>1, <1>3, <1>8 DEF acceptedDocuments, acceptedBytes, bytesWith
  <2>2. documentBytes' <= MaxDocumentBytes
    BY <1>1, <1>8, <2>1 DEF validateClientMethod, validateDidChange, bytesWith
  <2>3. /\ documents'[m.uri].text = m.text
        /\ \A v \in Uris : v # m.uri => documents'[v].text = documents[v].text
    BY <1>2, <1>3, <1>8, <2>1
  <2> QED BY <1>2, <1>3, <1>8, <2>1, <2>2, <2>3, BytesReplaced
<1>9. CASE m.method = "didSave" /\ m.text # None
  <2>1. /\ documents' = [documents EXCEPT ![m.uri].text = m.text]
        /\ documentBytes' = documentBytes - documents[m.uri].text + m.text
    BY <1>1, <1>9 DEF acceptedDocuments, acceptedBytes, bytesWith
  <2>2. documentBytes' <= MaxDocumentBytes
    BY <1>1, <1>9, <2>1 DEF validateClientMethod, validateDidSave, bytesWith
  <2>3. /\ documents'[m.uri].text = m.text
        /\ \A v \in Uris : v # m.uri => documents'[v].text = documents[v].text
    BY <1>2, <1>4, <1>9, <2>1 DEF Cell
  <2> QED BY <1>2, <1>4, <1>9, <2>1, <2>2, <2>3, BytesReplaced
<1>10. CASE m.method = "didClose"
  <2>1. /\ documents' = [documents EXCEPT ![m.uri] = Closed]
        /\ documentBytes' = documentBytes - documents[m.uri].text
    BY <1>1, <1>10 DEF acceptedDocuments, acceptedBytes
  <2>2. /\ documents'[m.uri].text = 0
        /\ \A v \in Uris : v # m.uri => documents'[v].text = documents[v].text
    BY <1>2, <1>5, <1>10, <2>1 DEF Closed
  <2>3. documentBytes' = documentBytes - documents[m.uri].text + 0
    BY <1>5, <1>6, <1>10, <2>1
  <2> QED BY <1>2, <1>5, <1>10, <2>2, <2>3, BytesReplaced
<1>11. CASE \/ m.method \notin {"didOpen", "didChange", "didSave", "didClose"}
            \/ m.method = "didSave" /\ m.text = None
  <2>1. UNCHANGED <<documents, documentBytes>>
    BY <1>1, <1>11 DEF acceptedDocuments, acceptedBytes
  <2> QED BY <2>1 DEF BytesInv
<1> QED BY <1>7, <1>8, <1>9, <1>10, <1>11

LEMMA BytesNext == SessionInv /\ BytesInv /\ [Next]_vars => BytesInv'
<1> SUFFICES ASSUME SessionInv, BytesInv, [Next]_vars PROVE BytesInv'
  OBVIOUS
<1>1. ASSUME NEW m \in Message, AcceptMessage(m) PROVE BytesInv'  BY <1>1, BytesAccepted
<1>2. CASE UNCHANGED <<documents, documentBytes>>  BY <1>2 DEF BytesInv
<1> QED
  BY <1>1, <1>2 DEF Next, Internal, vars, guard, RefuseMessage, RunTask, deliver, FileStaged,
                    FileRenamed, FileFails, RebuildTimer, Rebuild, RefuseServerMessage, Dispose,
                    SocketCloses

LEMMA BytesInit == Init => BytesInv
<1> SUFFICES ASSUME Init PROVE BytesInv
  OBVIOUS
<1>1. \A u \in Uris : documents[u].text = 0  BY DEF Init, Closed
<1>2. TextSum(documents, Uris) = 0  BY <1>1, SumOfNone, LspUrisAssumption
<1> QED BY <1>2, LspBudgetsAssumption DEF Init, BytesInv

-----------------------------------------------------------------------------
(* The type of the state. A text that is saved is that of a document clangd *)
(* has open by then: the tasks before it in the chain leave it open.        *)

Opens(u) == {t \in SetsVersion(u) : t.method # "didClose"}

\* With the tasks before the i-th done, u is open, for a clangd that has it at version v.
OpenAt(u, q, v, i) ==
    \/ v # None /\ \A j \in DOMAIN q : j < i => q[j] \notin SetsVersion(u)
    \/ \E k \in DOMAIN q : /\ k < i /\ q[k] \in Opens(u)
                           /\ \A j \in DOMAIN q : k < j /\ j < i => q[j] \notin SetsVersion(u)

isSave(t, u) == t.method = "didSave" /\ t.uri = u

SavesOpen(u, q, v) == \A i \in DOMAIN q : isSave(q[i], u) => OpenAt(u, q, v, i)

SavesInv == lasting => \A u \in Uris : SavesOpen(u, queue, clangd[u].version)

StateType ==
    /\ stage \in {"start", "initialize", "active", "shutdown"}
    /\ documents \in [Uris -> Document] /\ clangd \in [Uris -> Document]
    /\ clientBytes \in 0..ClientMaxSessionBytes
    /\ rebuilt \in Nat /\ violated \in BOOLEAN
    /\ socket \in {"open", "closing", "closed"}

LEMMA OpenAtAppended ==
    ASSUME NEW q \in Seq(Tasks), NEW t \in Tasks, NEW u, NEW v, NEW i \in 1..(Len(q) + 1),
           OpenAt(u, q, v, i)
    PROVE  OpenAt(u, Append(q, t), v, i)
<1> DEFINE r == Append(q, t)
<1>1. /\ Len(q) \in Nat /\ DOMAIN q = 1..Len(q) /\ DOMAIN r = 1..(Len(q) + 1)
      /\ \A j \in DOMAIN q : r[j] = q[j]
  BY AppendOfTasks
<1> HIDE DEF r
<1>2. \A j \in DOMAIN r : j < i => j \in DOMAIN q /\ r[j] = q[j]  BY <1>1
<1>3. \A j \in DOMAIN q : j \in DOMAIN r /\ r[j] = q[j]  BY <1>1
<1>4. CASE v # None /\ \A j \in DOMAIN q : j < i => q[j] \notin SetsVersion(u)
  BY <1>2, <1>4 DEF OpenAt, r
<1>5. ASSUME NEW k \in DOMAIN q, k < i, q[k] \in Opens(u),
             \A j \in DOMAIN q : k < j /\ j < i => q[j] \notin SetsVersion(u)
      PROVE  OpenAt(u, r, v, i)
  <2>1. k \in DOMAIN r /\ r[k] \in Opens(u)  BY <1>3, <1>5
  <2>2. \A j \in DOMAIN r : k < j /\ j < i => r[j] \notin SetsVersion(u)  BY <1>2, <1>5
  <2> QED BY <1>5, <2>1, <2>2 DEF OpenAt
<1> QED BY <1>4, <1>5 DEF OpenAt, r

\* A task joins the chain: a save, of a document that is open by then.
LEMMA SavesAppended ==
    ASSUME NEW q \in Seq(Tasks), NEW t \in Tasks, NEW u, NEW v, SavesOpen(u, q, v),
           isSave(t, u) => OpenAt(u, q, v, Len(q) + 1)
    PROVE  SavesOpen(u, Append(q, t), v)
<1>1. /\ Len(q) \in Nat /\ DOMAIN q = 1..Len(q) /\ DOMAIN Append(q, t) = 1..(Len(q) + 1)
      /\ \A j \in DOMAIN q : Append(q, t)[j] = q[j]
      /\ Append(q, t)[Len(q) + 1] = t
  BY AppendOfTasks
<1>2. ASSUME NEW i \in DOMAIN Append(q, t), isSave(Append(q, t)[i], u)
      PROVE  OpenAt(u, Append(q, t), v, i)
  <2>1. i \in 1..(Len(q) + 1)  BY <1>1
  <2>2. OpenAt(u, q, v, i)
    <3>1. CASE i \in DOMAIN q  BY <1>1, <1>2, <3>1 DEF SavesOpen
    <3>2. CASE i = Len(q) + 1  BY <1>1, <1>2, <3>2
    <3> QED BY <1>1, <3>1, <3>2
  <2> QED BY <2>1, <2>2, OpenAtAppended
<1> QED BY <1>2 DEF SavesOpen

\* The head leaves the chain, with clangd at version w afterwards.
LEMMA SavesTaken ==
    ASSUME NEW q \in Seq(Tasks), q # <<>>, NEW u, NEW v, NEW w, SavesOpen(u, q, v),
           Head(q) \in Opens(u) => w # None,
           Head(q) \notin SetsVersion(u) /\ v # None => w # None
    PROVE  SavesOpen(u, Tail(q), w)
<1> DEFINE r == Tail(q)
<1>1. /\ Head(q) = q[1] /\ 1 \in DOMAIN q /\ Len(q) \in Nat /\ DOMAIN q = 1..Len(q)
      /\ \A i \in DOMAIN r : i + 1 \in DOMAIN q /\ r[i] = q[i + 1]
      /\ \A i \in DOMAIN q : i > 1 => i - 1 \in DOMAIN r /\ r[i - 1] = q[i]
      /\ r \in Seq(Tasks)
  BY HeadOfTasks
<1>2. \A i \in DOMAIN r : i \in Nat /\ i > 0
  <2>1. DOMAIN r = 1..Len(r) /\ Len(r) \in Nat  BY <1>1
  <2> QED BY <2>1
<1> HIDE DEF r
<1>3. ASSUME NEW i \in DOMAIN r, isSave(r[i], u) PROVE OpenAt(u, r, w, i)
  <2>1. OpenAt(u, q, v, i + 1)  BY <1>1, <1>3 DEF SavesOpen
  <2>2. CASE v # None /\ \A j \in DOMAIN q : j < i + 1 => q[j] \notin SetsVersion(u)
    <3>1. 1 < i + 1  BY <1>2
    <3>2. w # None  BY <1>1, <2>2, <3>1
    <3>3. \A j \in DOMAIN r : j < i => r[j] \notin SetsVersion(u)
      BY <1>1, <1>2, <2>2
    <3> QED BY <3>2, <3>3 DEF OpenAt
  <2>3. ASSUME NEW k \in DOMAIN q, k < i + 1, q[k] \in Opens(u),
               \A j \in DOMAIN q : k < j /\ j < i + 1 => q[j] \notin SetsVersion(u)
        PROVE  OpenAt(u, r, w, i)
    <3>1. CASE k = 1
      <4>1. w # None  BY <1>1, <2>3, <3>1
      <4>2. \A j \in DOMAIN r : j < i => r[j] \notin SetsVersion(u)
        BY <1>1, <1>2, <2>3, <3>1
      <4> QED BY <4>1, <4>2 DEF OpenAt
    <3>2. CASE k # 1
      <4>1. k > 1 /\ k \in Nat  BY <1>1, <3>2
      <4>2. k - 1 \in DOMAIN r /\ r[k - 1] \in Opens(u) /\ k - 1 < i
        BY <1>1, <1>2, <2>3, <4>1
      <4>3. ASSUME NEW j \in DOMAIN r, k - 1 < j, j < i PROVE r[j] \notin SetsVersion(u)
        <5>1. j + 1 \in DOMAIN q /\ k < j + 1 /\ j + 1 < i + 1 /\ r[j] = q[j + 1]
          BY <1>1, <1>2, <4>1, <4>3
        <5> QED BY <2>3, <5>1
      <4> QED BY <4>2, <4>3 DEF OpenAt
    <3> QED BY <3>1, <3>2
  <2> QED BY <2>1, <2>2, <2>3 DEF OpenAt
<1> QED BY <1>3 DEF SavesOpen, r

\* A document the guard has open is open for clangd at the end of the chain.
LEMMA OpenAtEnd ==
    ASSUME NEW q \in Seq(Tasks), NEW u, NEW c, NEW d, InStep(u, q, c, d), d.version # None
    PROVE  OpenAt(u, q, c.version, Len(q) + 1)
<1>1. Len(q) \in Nat /\ DOMAIN q = 1..Len(q)  OBVIOUS
<1>2. \A j \in DOMAIN q : j < Len(q) + 1  BY <1>1
<1>3. Up(q, SetsVersion(u), VersionWays(u, d), c.version, d.version)  BY DEF InStep
<1>4. CASE c.version = d.version /\ \A i \in DOMAIN q : q[i] \notin SetsVersion(u)
  BY <1>4 DEF OpenAt
<1>5. ASSUME NEW k \in DOMAIN q, q[k] \in VersionWays(u, d),
             \A j \in DOMAIN q : j > k => q[j] \notin SetsVersion(u)
      PROVE  OpenAt(u, q, c.version, Len(q) + 1)
  <2>1. q[k] \in Opens(u)  BY <1>5 DEF VersionWays, versionAfter, Opens
  <2>2. \A j \in DOMAIN q : k < j => j > k  BY <1>1
  <2> QED BY <1>2, <1>5, <2>1, <2>2 DEF OpenAt
<1> QED BY <1>3, <1>4, <1>5 DEF Up

LEMMA OpenDocument ==
    ASSUME NEW d \in Document
    PROVE  /\ d # Closed => d \in [text : Texts, version : Versions]
           /\ d # Closed <=> d.version # None
<1>1. \A v \in Versions : v # None  BY LspTextsAssumption DEF None
<1>2. CASE d = Closed  BY <1>2 DEF Closed
<1>3. CASE d \in [text : Texts, version : Versions]
  <2>1. d.version # None  BY <1>1, <1>3
  <2> QED BY <1>3, <2>1 DEF Closed
<1> QED BY <1>2, <1>3 DEF Document

\* clangd is told a saved text of a document it has open alone.
LEMMA ToldDocument ==
    ASSUME clangd \in [Uris -> Document], NEW t \in Tasks,
           t.method = "didSave" => clangd[t.uri].version # None
    PROVE  told(t) \in [Uris -> Document]
<1>1. t.text # None => t.text \in Texts /\ t.uri \in Uris  BY TaskNumbers
<1>2. CASE t.method \in {"didOpen", "didChange"}
  <2>1. t.uri \in Uris /\ t.text \in Texts /\ t.version \in Versions
    BY <1>1, <1>2 DEF Tasks, Task
  <2>2. [text |-> t.text, version |-> t.version] \in Document  BY <2>1 DEF Document
  <2>3. told(t) = [clangd EXCEPT ![t.uri] = [text |-> t.text, version |-> t.version]]
    BY <1>2 DEF told
  <2> QED BY <2>1, <2>2, <2>3
<1>3. CASE t.method = "didSave" /\ t.text # None
  <2>1. clangd[t.uri] \in [text : Texts, version : Versions]
    BY <1>1, <1>3, OpenDocument
  <2>2. [clangd[t.uri] EXCEPT !.text = t.text] \in Document
    BY <1>1, <1>3, <2>1 DEF Document
  <2>3. told(t) = [clangd EXCEPT ![t.uri] = [clangd[t.uri] EXCEPT !.text = t.text]]
    BY <1>1, <1>3 DEF told
  <2> QED BY <1>1, <1>3, <2>2, <2>3
<1>4. CASE t.method = "didClose"
  <2>1. told(t) = [clangd EXCEPT ![t.uri] = Closed]  BY <1>4 DEF told
  <2>2. Closed \in Document  BY DEF Document
  <2> QED BY <2>1, <2>2
<1>5. CASE t.method \in {"forward", "rebuild"} \/ (t.method = "didSave" /\ t.text = None)
  BY <1>5 DEF told
<1> QED BY <1>2, <1>3, <1>4, <1>5 DEF Tasks, Task

LEMMA AcceptedDocument ==
    ASSUME documents \in [Uris -> Document], NEW m \in Message,
           m.method = "didSave" => isOpen(m.uri)
    PROVE  acceptedDocuments(m) \in [Uris -> Document]
<1>1. CASE m.method \in {"didOpen", "didChange"}
  <2>1. m.uri \in Uris /\ m.text \in Texts /\ m.version \in Versions
    BY <1>1 DEF Message
  <2>2. [text |-> m.text, version |-> m.version] \in Document  BY <2>1 DEF Document
  <2>3. acceptedDocuments(m) =
            [documents EXCEPT ![m.uri] = [text |-> m.text, version |-> m.version]]
    BY <1>1 DEF acceptedDocuments
  <2> QED BY <2>1, <2>2, <2>3
<1>2. CASE m.method = "didSave" /\ m.text # None
  <2>1. m.uri \in Uris /\ m.text \in Texts  BY <1>2 DEF Message
  <2>2. documents[m.uri] \in [text : Texts, version : Versions]
    BY <1>2, <2>1, OpenDocument DEF isOpen
  <2>3. [documents[m.uri] EXCEPT !.text = m.text] \in Document
    BY <2>1, <2>2 DEF Document
  <2>4. acceptedDocuments(m) =
            [documents EXCEPT ![m.uri] = [documents[m.uri] EXCEPT !.text = m.text]]
    BY <1>2, <2>1 DEF acceptedDocuments
  <2> QED BY <2>1, <2>3, <2>4
<1>3. CASE m.method = "didClose"
  <2>1. acceptedDocuments(m) = [documents EXCEPT ![m.uri] = Closed]
    BY <1>3 DEF acceptedDocuments
  <2>2. Closed \in Document  BY DEF Document
  <2> QED BY <2>1, <2>2
<1>4. CASE /\ m.method \notin {"didOpen", "didChange", "didClose"}
           /\ ~(m.method = "didSave" /\ m.text # None)
  <2>1. acceptedDocuments(m) = documents  BY <1>4 DEF acceptedDocuments
  <2> QED BY <2>1
<1> QED BY <1>1, <1>2, <1>3, <1>4

TypeInv == StateType /\ SavesInv

LEMMA TypeAccept ==
    ASSUME SessionInv, TypeInv, NEW m \in Message, AcceptMessage(m)
    PROVE  TypeInv'
<1> DEFINE g == IF isHeaderUpdate(m) THEN generation + 1 ELSE None
           t == taskOf(m, g)
<1> USE DEF TypeInv
<1>1. /\ stage' = acceptedStage(m) /\ documents' = acceptedDocuments(m)
      /\ clientBytes' = clientBytes + 1 /\ clientBytes + 1 <= ClientMaxSessionBytes
      /\ queue' = Append(queue, t) /\ validateClientMethod(m)
      /\ UNCHANGED <<violated, socket, clangd, rebuilt>>
  BY DEF AcceptMessage, taskOf, withinClientBudget
<1>2. queue \in Seq(Tasks) /\ generation \in Nat  BY DEF SessionInv, AdapterType
<1>3. g \in Nat \cup {None}  BY <1>2
<1>4. t \in Tasks /\ t.uri = m.uri /\ (t.method = "didSave" => m.method = "didSave")
  BY <1>3, MessageTask DEF taskOf
<1>5. m.method = "didSave" => isOpen(m.uri)
  BY <1>1 DEF validateClientMethod, validateDidSave
<1> HIDE DEF g, t
<1>6. documents' \in [Uris -> Document]  BY <1>1, <1>5, AcceptedDocument DEF StateType
<1>7. clientBytes' \in 0..ClientMaxSessionBytes
  BY <1>1, LspBudgetsAssumption DEF StateType
<1>8. stage' \in {"start", "initialize", "active", "shutdown"}
  BY <1>1 DEF acceptedStage, StateType
<1>9. StateType'  BY <1>1, <1>6, <1>7, <1>8 DEF StateType
<1>10. SavesInv'
  <2> SUFFICES ASSUME lasting, NEW u \in Uris
               PROVE  SavesOpen(u, Append(queue, t), clangd[u].version)
    BY <1>1 DEF SavesInv, lasting
  <2>1. SavesOpen(u, queue, clangd[u].version)  BY DEF SavesInv
  <2>2. ASSUME isSave(t, u)
        PROVE  OpenAt(u, queue, clangd[u].version, Len(queue) + 1)
    <3>1. documents[u] # Closed  BY <1>4, <1>5, <2>2 DEF isSave, isOpen
    <3>2. documents[u].version # None  BY <3>1, OpenDocument DEF StateType
    <3>3. InStep(u, queue, clangd[u], documents[u])  BY DEF SessionInv, SyncInv
    <3> QED BY <1>2, <3>2, <3>3, OpenAtEnd
  <2> QED BY <1>2, <1>4, <2>1, <2>2, SavesAppended
<1> QED BY <1>9, <1>10

\* The head of the chain is handed on: a save finds its document open.
LEMMA TypeDeliver ==
    ASSUME SessionInv, TypeInv, queue # <<>>, deliver(Head(queue))
    PROVE  TypeInv'
<1> DEFINE t == Head(queue)
<1> USE DEF TypeInv
<1>1. /\ queue' = Tail(queue)
      /\ ~lasting => UNCHANGED clangd
      /\ lasting => clangd' = told(t)
      /\ UNCHANGED <<stage, documents, clientBytes, violated, socket, rebuilt>>
  BY DEF deliver, lasting, guard
<1>2. queue \in Seq(Tasks)  BY DEF SessionInv, AdapterType
<1>3. t \in Tasks /\ t = queue[1] /\ 1 \in DOMAIN queue /\ DOMAIN queue = 1..Len(queue)
  BY <1>2, HeadOfTasks
<1>4. lasting' = lasting  BY <1>1 DEF lasting
<1> HIDE DEF t
<1>5. ASSUME lasting, t.method = "didSave" PROVE clangd[t.uri].version # None
  <2>1. t.uri \in Uris  BY <1>3, <1>5 DEF Tasks, Task
  <2>2. OpenAt(t.uri, queue, clangd[t.uri].version, 1)
    BY <1>3, <1>5, <2>1 DEF SavesInv, SavesOpen, isSave
  <2>3. \A k \in DOMAIN queue : ~(k < 1)  BY <1>3
  <2> QED BY <2>2, <2>3 DEF OpenAt
<1>6. lasting => told(t) \in [Uris -> Document]
  BY <1>3, <1>5, ToldDocument DEF StateType
<1>7. StateType'  BY <1>1, <1>6 DEF StateType
<1>8. SavesInv'
  <2> SUFFICES ASSUME lasting, NEW u \in Uris
               PROVE  SavesOpen(u, Tail(queue), told(t)[u].version)
    BY <1>1, <1>4 DEF SavesInv
  <2>1. SavesOpen(u, queue, clangd[u].version)  BY DEF SavesInv
  <2>2. told(t)[u].version = IF t \in SetsVersion(u) THEN versionAfter(t) ELSE clangd[u].version
    BY <1>3, Told DEF SessionInv
  <2>3. t \in Opens(u) => told(t)[u].version # None
    BY <2>2 DEF Opens, SetsVersion, versionAfter, Tasks, Task
  <2>4. t \notin SetsVersion(u) /\ clangd[u].version # None => told(t)[u].version # None
    BY <2>2
  <2> QED BY <1>2, <2>1, <2>3, <2>4, SavesTaken DEF t
<1> QED BY <1>7, <1>8

LEMMA TypeRebuild ==
    ASSUME SessionInv, TypeInv, Rebuild
    PROVE  TypeInv'
<1> USE DEF TypeInv
<1>1. /\ queue # <<>> /\ Head(queue).method = "rebuild" /\ queue' = Tail(queue)
      /\ UNCHANGED <<stage, documents, clientBytes, violated, socket>>
  BY DEF Rebuild, rebuildNext, guard
<1>2. queue \in Seq(Tasks) /\ generation \in Nat  BY DEF SessionInv, AdapterType
<1>3. rebuilt' \in Nat  BY <1>2 DEF Rebuild, StateType
<1>4. /\ clangd' \in [Uris -> Document]
      /\ \A u \in Uris : clangd[u].version # None => clangd'[u].version # None
  <2> DEFINE c(u) == IF u \in TranslationUnits /\ isOpen(u) /\ clangd[u] # Closed
                     THEN [clangd[u] EXCEPT !.version = documents[u].version]
                     ELSE clangd[u]
  <2>1. CASE UNCHANGED clangd  BY <2>1 DEF StateType
  <2>2. CASE clangd' = [u \in Uris |-> c(u)]
    <3>1. ASSUME NEW u \in Uris
          PROVE  c(u) \in Document /\ (clangd[u].version # None => c(u).version # None)
      <4>1. clangd[u] \in Document /\ documents[u] \in Document  BY DEF StateType
      <4>2. CASE u \in TranslationUnits /\ isOpen(u) /\ clangd[u] # Closed
        <5>1. /\ clangd[u] \in [text : Texts, version : Versions]
              /\ documents[u] \in [text : Texts, version : Versions]
              /\ documents[u].version # None
          BY <4>1, <4>2, OpenDocument DEF isOpen
        <5>2. c(u) = [clangd[u] EXCEPT !.version = documents[u].version]  BY <4>2
        <5>3. c(u) \in [text : Texts, version : Versions] /\ c(u).version = documents[u].version
          BY <5>1, <5>2
        <5> QED BY <5>1, <5>3 DEF Document
      <4>3. CASE ~(u \in TranslationUnits /\ isOpen(u) /\ clangd[u] # Closed)
        <5>1. c(u) = clangd[u]  BY <4>3
        <5> QED BY <4>1, <5>1
      <4> QED BY <4>2, <4>3
    <3> HIDE DEF c
    <3> QED BY <2>2, <3>1
  <2> QED BY <2>1, <2>2 DEF Rebuild
<1>5. StateType'  BY <1>1, <1>3, <1>4 DEF StateType
<1>6. SavesInv'
  <2> SUFFICES ASSUME lasting, NEW u \in Uris
               PROVE  SavesOpen(u, Tail(queue), clangd'[u].version)
    BY <1>1 DEF SavesInv, lasting
  <2>1. SavesOpen(u, queue, clangd[u].version)  BY DEF SavesInv
  <2>2. Head(queue) \notin SetsVersion(u)  BY <1>1 DEF SetsVersion
  <2>3. Head(queue) \notin Opens(u)  BY <2>2 DEF Opens
  <2> QED BY <1>1, <1>2, <1>4, <2>1, <2>2, <2>3, SavesTaken
<1> QED BY <1>5, <1>6

\* The rebuild joins the chain: it is no save.
LEMMA TypeTimer ==
    ASSUME SessionInv, TypeInv, RebuildTimer
    PROVE  TypeInv'
<1> DEFINE t == [method |-> "rebuild", uri |-> "none", text |-> None, version |-> None,
                 generation |-> timer]
<1> USE DEF TypeInv
<1>1. /\ queue' = Append(queue, t)
      /\ UNCHANGED <<stage, documents, clientBytes, violated, socket, clangd, rebuilt>>
  BY DEF RebuildTimer, guard
<1>2. queue \in Seq(Tasks) /\ timer \in Nat \cup {None}  BY DEF SessionInv, AdapterType
<1>3. t \in Tasks /\ t.method = "rebuild"  BY <1>2, RebuildTask
<1> HIDE DEF t
<1>4. StateType'  BY <1>1 DEF StateType
<1>5. SavesInv'
  <2> SUFFICES ASSUME lasting, NEW u \in Uris
               PROVE  SavesOpen(u, Append(queue, t), clangd[u].version)
    BY <1>1 DEF SavesInv, lasting
  <2>1. SavesOpen(u, queue, clangd[u].version)  BY DEF SavesInv
  <2>2. ~isSave(t, u)  BY <1>3 DEF isSave
  <2> QED BY <1>2, <1>3, <2>1, <2>2, SavesAppended
<1> QED BY <1>4, <1>5

\* The session ends, or refuses a message: nothing is handed on any more.
LEMMA TypeEnd ==
    ASSUME TypeInv, ~lasting', UNCHANGED <<stage, documents, clangd, rebuilt>>,
           clientBytes' \in 0..ClientMaxSessionBytes, violated' \in BOOLEAN,
           socket' \in {"open", "closing", "closed"}
    PROVE  TypeInv'
  BY DEF TypeInv, StateType, SavesInv

LEMMA TypeNext == SessionInv /\ TypeInv /\ [Next]_vars => TypeInv'
<1> SUFFICES ASSUME SessionInv, TypeInv, [Next]_vars PROVE TypeInv'
  OBVIOUS
<1>1. CASE RefuseMessage
  <2>1. /\ violated' = TRUE /\ socket' \in {"open", "closing", "closed"}
        /\ UNCHANGED <<stage, documents, clangd, rebuilt>>
    BY <1>1 DEF RefuseMessage, reportViolation, TypeInv, StateType
  <2>2. clientBytes' = clientBytes
        \/ (clientBytes' = clientBytes + 1 /\ clientBytes + 1 <= ClientMaxSessionBytes)
    BY <1>1 DEF RefuseMessage, withinClientBudget
  <2>3. clientBytes' \in 0..ClientMaxSessionBytes
    BY <2>2, LspBudgetsAssumption DEF TypeInv, StateType
  <2>4. ~lasting'  BY <2>1 DEF lasting
  <2> QED BY <2>1, <2>3, <2>4, TypeEnd
<1>2. CASE \E m \in Message : AcceptMessage(m)  BY <1>2, TypeAccept
<1>3. CASE RunTask
  <2>1. CASE Head(queue).text # None /\ ~violated
    <3>1. UNCHANGED <<stage, documents, clientBytes, queue, violated, socket, clangd, rebuilt>>
      BY <1>3, <2>1 DEF RunTask, guard
    <3> QED BY <3>1 DEF TypeInv, StateType, SavesInv, lasting
  <2>2. CASE ~(Head(queue).text # None /\ ~violated)
    <3>1. queue # <<>> /\ deliver(Head(queue))  BY <1>3, <2>2 DEF RunTask
    <3> QED BY <3>1, TypeDeliver
  <2> QED BY <2>1, <2>2
<1>4. CASE FileStaged
  <2>1. UNCHANGED <<stage, documents, clientBytes, queue, violated, socket, clangd, rebuilt>>
    BY <1>4 DEF FileStaged, guard
  <2> QED BY <2>1 DEF TypeInv, StateType, SavesInv, lasting
<1>5. CASE FileRenamed
  <2>1. queue # <<>> /\ deliver(Head(queue))
    BY <1>5 DEF FileRenamed, SessionInv, AdapterType
  <2> QED BY <2>1, TypeDeliver
<1>6. CASE FileFails \/ RefuseServerMessage
  <2>1. /\ violated' = TRUE /\ socket' \in {"open", "closing", "closed"}
        /\ UNCHANGED <<stage, documents, clientBytes, clangd, rebuilt>>
    BY <1>6 DEF FileFails, RefuseServerMessage, reportViolation, guard, TypeInv, StateType
  <2>2. ~lasting' /\ clientBytes' \in 0..ClientMaxSessionBytes
    BY <2>1 DEF lasting, TypeInv, StateType
  <2> QED BY <2>1, <2>2, TypeEnd
<1>7. CASE RebuildTimer  BY <1>7, TypeTimer
<1>8. CASE Rebuild  BY <1>8, TypeRebuild
<1>9. CASE Dispose \/ SocketCloses
  <2>1. /\ socket' \in {"closing", "closed"}
        /\ UNCHANGED <<stage, documents, clientBytes, violated, clangd, rebuilt>>
    BY <1>9 DEF Dispose, SocketCloses, guard
  <2>2. /\ ~lasting' /\ clientBytes' \in 0..ClientMaxSessionBytes /\ violated' \in BOOLEAN
    BY <2>1 DEF lasting, TypeInv, StateType
  <2> QED BY <2>1, <2>2, TypeEnd
<1>10. CASE UNCHANGED vars
  <2>1. UNCHANGED <<stage, documents, clientBytes, queue, violated, socket, clangd, rebuilt>>
    BY <1>10 DEF vars, guard
  <2> QED BY <2>1 DEF TypeInv, StateType, SavesInv, lasting
<1> QED BY <1>1, <1>2, <1>3, <1>4, <1>5, <1>6, <1>7, <1>8, <1>9, <1>10 DEF Next, Internal

LEMMA TypeInit == Init => TypeInv
<1> SUFFICES ASSUME Init PROVE TypeInv
  OBVIOUS
<1>1. Closed \in Document  BY DEF Document
<1>2. 0 \in 0..ClientMaxSessionBytes  BY LspBudgetsAssumption
<1>3. StateType  BY <1>1, <1>2 DEF Init, StateType
<1>4. DOMAIN queue = {}  BY DEF Init
<1>5. SavesInv  BY <1>4 DEF SavesInv, SavesOpen
<1> QED BY <1>3, <1>5 DEF TypeInv

-----------------------------------------------------------------------------
(* The theorems.                                                           *)

\* The inductive invariant of a connected session.
THEOREM SessionInductive == Spec => []SessionInv
  BY SessionInit, SessionNext, PTL DEF Spec

\* A change is on the disk before clangd hears of it, for any length of the chain.
THEOREM FilesFirst == Spec => []FileBeforeClangd
<1>1. SessionInv => FileBeforeClangd  BY DEF SessionInv
<1> QED BY <1>1, SessionInductive, PTL

\* With the chain drained, clangd has open what the guard has open.
THEOREM ClangdInSync == Spec => []InSync
<1>1. SessionInv => InSync
  <2> SUFFICES ASSUME SessionInv, lasting, queue = <<>> PROVE clangd = documents
    BY DEF InSync, lasting
  <2>1. DOMAIN queue = {}  OBVIOUS
  <2>2. ASSUME NEW u \in Uris PROVE clangd[u] = documents[u]
    <3>1. InStep(u, queue, clangd[u], documents[u])  BY DEF SessionInv, SyncInv
    <3>2. clangd[u].text = documents[u].text /\ clangd[u].version = documents[u].version
      BY <2>1, <3>1 DEF InStep, Up
    <3>3. clangd[u] \in Cell /\ documents[u] \in Cell  BY DEF SessionInv, AdapterType
    <3> QED BY <3>2, <3>3, SameCell
  <2> QED BY <2>2 DEF SessionInv, AdapterType
<1> QED BY <1>1, SessionInductive, PTL

\* Nothing reaches clangd after a violation.
THEOREM ViolationStops == Spec => NothingAfterViolation
<1>1. [Next]_vars => [violated => UNCHANGED <<clangd, rebuilt>>]_vars
  <2> SUFFICES ASSUME [Next]_vars, violated PROVE UNCHANGED <<clangd, rebuilt>>
    OBVIOUS
  <2>1. ASSUME NEW m \in Message, AcceptMessage(m) PROVE UNCHANGED <<clangd, rebuilt>>
    BY <2>1 DEF AcceptMessage
  <2>2. CASE RunTask \/ FileRenamed \/ Rebuild
    BY <2>2 DEF RunTask, FileRenamed, Rebuild, deliver
  <2> QED
    BY <2>1, <2>2 DEF Next, Internal, vars, RefuseMessage, FileStaged, FileFails, RebuildTimer,
                      RefuseServerMessage, Dispose, SocketCloses
<1> QED BY <1>1, PTL DEF Spec, NothingAfterViolation

\* A rebuild is told to clangd only with every accepted update of a header behind it.
THEOREM RebuildsSeeHeaders == Spec => RebuildSeesHeaders
<1>1. SessionInv /\ [Next]_vars =>
          [rebuilt' # rebuilt =>
              \A i \in DOMAIN queue' :
                  queue'[i].generation # None => queue'[i].method = "rebuild"]_vars
  <2> SUFFICES ASSUME SessionInv, [Next]_vars, rebuilt' # rebuilt, NEW i \in DOMAIN queue',
                      queue'[i].generation # None, queue'[i].method # "rebuild"
               PROVE  FALSE
    OBVIOUS
  <2>1. Rebuild
    BY DEF Next, Internal, vars, AcceptMessage, RefuseMessage, RunTask, deliver, FileStaged,
           FileRenamed, FileFails, RebuildTimer, RefuseServerMessage, Dispose, SocketCloses
  <2>2. /\ queue # <<>> /\ queue' = Tail(queue) /\ Head(queue).method = "rebuild"
        /\ Head(queue).generation = generation
    BY <2>1 DEF Rebuild, rebuildNext
  <2>3. queue \in Seq(Tasks) /\ generation \in Nat /\ Ordered(queue, generation)
    BY DEF SessionInv, AdapterType, GenerationsInv
  <2>4. /\ 1 \in DOMAIN queue /\ queue[1] = Head(queue)
        /\ i + 1 \in DOMAIN queue /\ queue[i + 1] = queue'[i] /\ 1 < i + 1
    BY <2>2, <2>3, HeadOfTasks
  <2>5. queue[i + 1].generation \in Int  BY <2>3, <2>4, TaskNumbers
  <2>6. /\ queue[1].generation < queue[i + 1].generation
        /\ queue[i + 1].generation <= generation
    BY <2>2, <2>3, <2>4 DEF Ordered
  <2> QED BY <2>2, <2>3, <2>4, <2>5, <2>6
<1> QED BY <1>1, SessionInductive, PTL DEF Spec, RebuildSeesHeaders

\* #documentBytes is the size of the open documents together and never exceeds its
\* limit: for any number of documents, through any sequence of messages.
THEOREM BytesAlwaysExact == Spec => []DocumentBytesExact
<1>1. BytesInv => DocumentBytesExact
  <2> SUFFICES ASSUME BytesInv PROVE DocumentBytesExact
    OBVIOUS
  <2>1. documentBytes <= MaxDocumentBytes  BY LspBudgetsAssumption DEF BytesInv
  <2> QED BY <2>1, Zenon DEF BytesInv, TextSum, DocumentBytesExact
<1>2. Init => SessionInv /\ BytesInv  BY SessionInit, BytesInit
<1>3. (SessionInv /\ BytesInv) /\ [Next]_vars => (SessionInv /\ BytesInv)'
  BY SessionNext, BytesNext
<1> QED BY <1>1, <1>2, <1>3, PTL DEF Spec

\* The state has its type in any session: a document is open with a text and a version
\* or closed, for the guard as for clangd, which is never told to save a closed one.
THEOREM TypeCorrect == Spec => []TypeOK
<1>1. SessionInv /\ BytesInv /\ TypeInv => TypeOK
  <2> SUFFICES ASSUME SessionInv, BytesInv, TypeInv PROVE TypeOK
    OBVIOUS
  <2>1. \A i \in DOMAIN queue : queue[i] \in Task
    <3>1. \A i \in DOMAIN queue : queue[i] \in Tasks  BY DEF SessionInv, AdapterType
    <3>2. Tasks \subseteq Task  BY DEF Tasks
    <3> QED BY <3>1, <3>2
  <2>2. documentBytes \in Nat  BY DEF BytesInv
  <2> QED BY <2>1, <2>2 DEF SessionInv, AdapterType, TypeInv, StateType, TypeOK
<1>2. Init => SessionInv /\ BytesInv /\ TypeInv  BY SessionInit, BytesInit, TypeInit
<1>3. (SessionInv /\ BytesInv /\ TypeInv) /\ [Next]_vars => (SessionInv /\ BytesInv /\ TypeInv)'
  BY SessionNext, BytesNext, TypeNext
<1> QED BY <1>1, <1>2, <1>3, PTL DEF Spec

=============================================================================
