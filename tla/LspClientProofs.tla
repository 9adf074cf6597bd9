-------------------------- MODULE LspClientProofs --------------------------
(* Proofs about the language-server side of the playground, for any list of   *)
(* files, any number of sessions and any number of attempts: the server       *)
(* accepts the names of the files, a session made from an earlier list is     *)
(* replaced, a restart has something to wait for, and the requests between    *)
(* two changes of the files are bounded.                                      *)
EXTENDS LspClient, TLAPS

-----------------------------------------------------------------------------
(* The list of files.                                                      *)

LEMMA SubSeqOf ==
    ASSUME NEW S, NEW q \in Seq(S), NEW m \in 1..Len(q) + 1, NEW n \in m - 1..Len(q)
    PROVE  /\ SubSeq(q, m, n) \in Seq(S) /\ Len(SubSeq(q, m, n)) = n - m + 1
           /\ \A i \in 1..n - m + 1 : SubSeq(q, m, n)[i] = q[m + i - 1]
  OBVIOUS

LEMMA ConcatOf ==
    ASSUME NEW S, NEW p \in Seq(S), NEW q \in Seq(S)
    PROVE  /\ p \o q \in Seq(S) /\ Len(p \o q) = Len(p) + Len(q)
           /\ \A i \in 1..Len(p) + Len(q) :
                 (p \o q)[i] = IF i <= Len(p) THEN p[i] ELSE q[i - Len(p)]
  OBVIOUS

\* Without takes the entry at one index out, or nothing.
LEMMA WithoutProperties ==
    ASSUME NEW S, NEW q \in Seq(S), NEW e
    PROVE  /\ Without(q, e) \in Seq(S)
           /\ \/ Without(q, e) = q /\ \A i \in 1..Len(q) : q[i] # e
              \/ \E k \in 1..Len(q) :
                    /\ q[k] = e
                    /\ Len(Without(q, e)) = Len(q) - 1
                    /\ \A i \in 1..Len(q) - 1 :
                          Without(q, e)[i] = IF i < k THEN q[i] ELSE q[i + 1]
<1>0. e \in Range(q) <=> \E i \in 1..Len(q) : q[i] = e
  BY DEF Range
<1>1. CASE \A i \in 1..Len(q) : q[i] # e
  BY <1>0, <1>1 DEF Without
<1>2. CASE \E i \in 1..Len(q) : q[i] = e
  <2> DEFINE k == CHOOSE i \in 1..Len(q) : q[i] = e
             a == SubSeq(q, 1, k - 1)
             b == SubSeq(q, k + 1, Len(q))
  <2>2. k \in 1..Len(q) /\ q[k] = e
    BY <1>2
  <2>3. Without(q, e) = a \o b
    BY <1>0, <1>2, Zenon DEF Without
  <2> HIDE DEF k
  <2>4. k \in 1..Len(q) /\ q[k] = e /\ Len(q) \in Nat /\ \A i \in 1..Len(q) : q[i] \in S
    BY <2>2
  <2>5. /\ a \in Seq(S) /\ Len(a) = k - 1
        /\ \A i \in 1..k - 1 : a[i] = q[i]
    BY <2>4, SubSeqOf
  <2>6. /\ b \in Seq(S) /\ Len(b) = Len(q) - k
        /\ \A i \in 1..Len(q) - k : b[i] = q[k + i]
    BY <2>4, SubSeqOf
  <2> HIDE DEF a, b
  <2>7. /\ a \o b \in Seq(S) /\ Len(a \o b) = Len(q) - 1
        /\ \A i \in 1..Len(q) - 1 : (a \o b)[i] = IF i < k THEN q[i] ELSE q[i + 1]
    <3>1. a \o b \in Seq(S) /\ Len(a \o b) = Len(q) - 1
      <4>1. a \o b \in Seq(S) /\ Len(a \o b) = Len(a) + Len(b)
        BY <2>5, <2>6, ConcatOf, Zenon
      <4> QED BY <4>1, <2>4, <2>5, <2>6
    <3>2. ASSUME NEW i \in 1..Len(q) - 1
          PROVE  (a \o b)[i] = IF i < k THEN q[i] ELSE q[i + 1]
      <4>1. (a \o b)[i] = IF i <= k - 1 THEN a[i] ELSE b[i - (k - 1)]
        BY <2>4, <2>5, <2>6, ConcatOf
      <4>2. CASE i <= k - 1
        BY <4>1, <4>2, <2>4, <2>5
      <4>3. CASE ~(i <= k - 1)
        <5>1. i - (k - 1) \in 1..Len(q) - k /\ k + (i - (k - 1)) = i + 1
          BY <4>3, <2>4
        <5> QED BY <4>1, <4>3, <5>1, <2>4, <2>6
      <4> QED BY <4>2, <4>3, Zenon
    <3> QED BY <3>1, <3>2
  <2> QED BY <2>3, <2>4, <2>7, Zenon
<1> QED BY <1>1, <1>2

\* A project that the server accepts, with the tab that is shown.
Accepted(p) ==
    /\ p \in [files : Seq(Names), activeFileName : Names]
    /\ validateFiles(p.files)
    /\ Contains(p.files, Main) /\ Contains(p.files, p.activeFileName)

\* The parts of Accepted that a change of the list has to keep: main.c is in it under its
\* own name, so the server finds it too.
LEMMA AcceptedFromParts ==
    ASSUME NEW p \in [files : Seq(Names), activeFileName : Names],
           Len(p.files) \in 1..SourceFileMaxCount, distinct(p.files),
           Contains(p.files, Main), Contains(p.files, p.activeFileName)
    PROVE  Accepted(p)
<1>1. PICK i \in 1..Len(p.files) : p.files[i] = Main  BY DEF Contains
<1>2. DOMAIN p.files = 1..Len(p.files)  OBVIOUS
<1>3. Main \in {Lower[p.files[j]] : j \in DOMAIN p.files}
  BY <1>1, <1>2, NamesAssumption
<1> QED BY <1>3 DEF Accepted, validateFiles

\* loadProject makes a project of anything that localStorage may hold.
LEMMA LoadedProject ==
    ASSUME NEW stored \in Stored
    PROVE  Accepted(loadProject(stored))
<1> DEFINE p == loadProject(stored)
<1>1. CASE isPersistedProjectFiles(stored.files)
  <2>1. /\ stored \in [files : SeqOf(Names, SourceFileMaxCount + 1), activeFileName : Names]
        /\ Contains(stored.files, Main)
    BY <1>1 DEF Stored
  <2>2. PICK m \in 0..SourceFileMaxCount + 1 : stored.files \in [1..m -> Names]
    BY <2>1 DEF SeqOf
  <2>3. stored.files \in Seq(Names)
    <3>1. m \in Nat  BY NamesAssumption
    <3> QED BY <2>2, <3>1
  <2>4. p = [stored EXCEPT !.activeFileName =
               IF Contains(stored.files, @) THEN @ ELSE Main]
    BY <1>1 DEF loadProject
  <2>5. p.files = stored.files /\ p \in [files : Seq(Names), activeFileName : Names]
    BY <2>1, <2>3, <2>4, NamesAssumption
  <2>6. Contains(p.files, p.activeFileName)
    BY <2>1, <2>4, <2>5
  <2>7. Len(p.files) \in 1..SourceFileMaxCount /\ distinct(p.files)
    BY <1>1, <2>5 DEF isPersistedProjectFiles
  <2>8. Contains(p.files, Main)  BY <2>1, <2>5
  <2>9. Accepted(p)
    <3> HIDE DEF p
    <3> QED BY <2>5, <2>6, <2>7, <2>8, AcceptedFromParts
  <2> QED BY <2>9
<1>2. CASE ~isPersistedProjectFiles(stored.files)
  <2>1. p = [files |-> <<Main>>, activeFileName |-> Main]
    BY <1>2 DEF loadProject, DefaultProject
  <2>2. /\ p \in [files : Seq(Names), activeFileName : Names] /\ Len(p.files) = 1
        /\ p.files[1] = Main /\ p.activeFileName = Main /\ DOMAIN p.files = 1..1
    BY <2>1, NamesAssumption
  <2>3. Accepted(p)
    <3> HIDE DEF p
    <3>1. Contains(p.files, Main) /\ Contains(p.files, p.activeFileName)
      BY <2>2 DEF Contains
    <3>2. distinct(p.files) /\ Len(p.files) \in 1..SourceFileMaxCount
      BY <2>2, NamesAssumption DEF distinct
    <3> QED BY <2>2, <3>1, <3>2, AcceptedFromParts, Zenon
  <2> QED BY <2>3
<1> QED BY <1>1, <1>2

\* createFile: the new name is taken by no file in either case, and there is room.
LEMMA CreateFileAccepted ==
    ASSUME Accepted(project), NEW name \in Names, createFile(name)
    PROVE  Accepted(project')
<1> DEFINE f == project.files
           g == Append(f, name)
<1>1. f \in Seq(Names) /\ Len(f) \in Nat /\ DOMAIN f = 1..Len(f)
  BY DEF Accepted
<1>2. /\ Len(f) < SourceFileMaxCount /\ ~getFileNameError(f, name, NoName)
      /\ project' = [files |-> g, activeFileName |-> name]
  BY DEF createFile
<1>3. distinct(f) /\ Contains(f, Main) /\ Len(f) >= 1
  BY <1>1 DEF Accepted, validateFiles
<1>4. /\ g \in Seq(Names) /\ Len(g) = Len(f) + 1 /\ DOMAIN g = 1..Len(f) + 1
      /\ g[Len(f) + 1] = name /\ \A i \in 1..Len(f) : g[i] = f[i]
  BY <1>1
<1>5. \A i \in 1..Len(f) : Lower[f[i]] # Lower[name]
  <2>1. \A i \in 1..Len(f) : f[i] # NoName  BY <1>1, NamesAssumption
  <2> QED BY <1>1, <1>2, <2>1 DEF getFileNameError
<1>6. project'.files = g /\ project'.activeFileName = name  BY <1>2
<1> HIDE DEF f, g
<1>7. distinct(g)
  <2> SUFFICES ASSUME NEW i \in 1..Len(f) + 1, NEW j \in 1..Len(f) + 1,
                      Lower[g[i]] = Lower[g[j]]
               PROVE  i = j
    BY <1>4 DEF distinct
  <2>1. CASE i \in 1..Len(f) /\ j \in 1..Len(f)
    BY <1>1, <1>3, <1>4, <2>1 DEF distinct
  <2>2. CASE i \in 1..Len(f) /\ j = Len(f) + 1  BY <1>4, <1>5, <2>2
  <2>3. CASE i = Len(f) + 1 /\ j \in 1..Len(f)  BY <1>4, <1>5, <2>3
  <2> QED BY <1>1, <2>1, <2>2, <2>3
<1>8. Contains(g, Main) /\ Contains(g, name)
  <2>1. PICK i \in 1..Len(f) : f[i] = Main  BY <1>3 DEF Contains
  <2>2. i \in 1..Len(g) /\ g[i] = Main /\ Len(f) + 1 \in 1..Len(g)  BY <1>1, <1>4, <2>1
  <2> QED BY <1>4, <2>2 DEF Contains
<1>9. Len(g) \in 1..SourceFileMaxCount
  BY <1>1, <1>2, <1>4, NamesAssumption
<1> QED BY <1>2, <1>4, <1>6, <1>7, <1>8, <1>9, AcceptedFromParts

\* renameFile: no other file has the name in either case; main.c keeps its own.
LEMMA RenameFileAccepted ==
    ASSUME Accepted(project), NEW fileName \in Names, NEW name \in Names,
           fileName \in ToSet(project.files), renameFile(fileName, name)
    PROVE  Accepted(project')
<1> DEFINE f == project.files
           g == ReplaceAll(f, fileName, name)
<1>1. f \in Seq(Names) /\ Len(f) \in Nat /\ DOMAIN f = 1..Len(f)
  BY DEF Accepted
<1>2. /\ fileName # Main /\ ~getFileNameError(f, name, fileName)
      /\ project' = [files |-> g, activeFileName |-> name]
  BY DEF renameFile
<1>3. distinct(f) /\ Contains(f, Main) /\ Len(f) \in 1..SourceFileMaxCount
  BY DEF Accepted, validateFiles
<1>4. PICK k \in 1..Len(f) : f[k] = fileName  BY <1>1 DEF ToSet
<1>5. g \in [1..Len(f) -> Names] /\ \A i \in 1..Len(f) :
          g[i] = IF f[i] = fileName THEN name ELSE f[i]
  BY <1>1 DEF ReplaceAll
<1>6. g \in Seq(Names) /\ Len(g) = Len(f) /\ DOMAIN g = 1..Len(f)
  BY <1>1, <1>5
<1>7. \A i \in 1..Len(f) : f[i] # fileName => Lower[f[i]] # Lower[name]
  BY <1>1, <1>2 DEF getFileNameError
<1>8. project'.files = g /\ project'.activeFileName = name  BY <1>2
<1> HIDE DEF f, g
<1>9. distinct(g)
  <2> SUFFICES ASSUME NEW i \in 1..Len(f), NEW j \in 1..Len(f), Lower[g[i]] = Lower[g[j]]
               PROVE  i = j
    BY <1>6 DEF distinct
  <2>1. CASE f[i] = fileName /\ f[j] = fileName  BY <1>1, <1>3, <2>1 DEF distinct
  <2>2. CASE f[i] # fileName /\ f[j] # fileName  BY <1>1, <1>3, <1>5, <2>2 DEF distinct
  <2>3. CASE f[i] = fileName /\ f[j] # fileName  BY <1>5, <1>7, <2>3
  <2>4. CASE f[i] # fileName /\ f[j] = fileName  BY <1>5, <1>7, <2>4
  <2> QED BY <2>1, <2>2, <2>3, <2>4
<1>10. Contains(g, Main) /\ Contains(g, name)
  <2>1. PICK i \in 1..Len(f) : f[i] = Main  BY <1>3 DEF Contains
  <2>2. g[i] = Main /\ g[k] = name  BY <1>2, <1>4, <1>5, <2>1
  <2> QED BY <1>6, <2>1, <2>2 DEF Contains
<1> QED BY <1>2, <1>3, <1>6, <1>8, <1>9, <1>10, AcceptedFromParts

\* A list without one of its names other than main.c.
LEMMA WithoutName ==
    ASSUME NEW f \in Seq(Names), NEW e, e # Main, distinct(f), Contains(f, Main),
           Len(f) <= SourceFileMaxCount
    PROVE  /\ Without(f, e) \in Seq(Names) /\ distinct(Without(f, e))
           /\ Contains(Without(f, e), Main)
           /\ Len(Without(f, e)) \in 1..SourceFileMaxCount
<1> DEFINE g == Without(f, e)
<1>1. Len(f) \in Nat /\ DOMAIN f = 1..Len(f)  OBVIOUS
<1>2. g \in Seq(Names)  BY WithoutProperties
<1>3. DOMAIN g = 1..Len(g) /\ Len(g) \in Nat  BY <1>2
<1>4. SourceFileMaxCount \in Nat  BY NamesAssumption
<1>5. CASE g = f
  BY <1>1, <1>4, <1>5 DEF Contains
<1>6. ASSUME NEW k \in 1..Len(f), f[k] = e, Len(g) = Len(f) - 1,
             \A i \in 1..Len(f) - 1 : g[i] = IF i < k THEN f[i] ELSE f[i + 1]
      PROVE  distinct(g) /\ Contains(g, Main) /\ Len(g) \in 1..SourceFileMaxCount
  <2> HIDE DEF g
  <2> DEFINE old(i) == IF i < k THEN i ELSE i + 1
  <2>1. \A i \in 1..Len(g) : old(i) \in 1..Len(f) /\ g[i] = f[old(i)]
    BY <1>1, <1>6
  <2>2. \A i, j \in 1..Len(g) : old(i) = old(j) => i = j  BY <1>3
  <2>3. Contains(g, Main)
    <3>1. PICK m \in 1..Len(f) : f[m] = Main  BY DEF Contains
    <3>2. m # k  BY <1>6, <3>1
    <3>3. CASE m < k
      <4>1. m \in 1..Len(g) /\ g[m] = Main  BY <1>1, <1>6, <3>1, <3>3
      <4> QED BY <4>1 DEF Contains
    <3>4. CASE m > k
      <4>1. m - 1 \in 1..Len(g) /\ g[m - 1] = Main  BY <1>1, <1>6, <3>1, <3>4
      <4> QED BY <4>1 DEF Contains
    <3> QED BY <3>2, <3>3, <3>4
  <2> HIDE DEF old
  <2>4. distinct(g)  BY <1>1, <1>3, <2>1, <2>2 DEF distinct
  <2>5. Len(g) \in 1..SourceFileMaxCount  BY <1>1, <1>3, <1>4, <1>6, <2>3 DEF Contains
  <2> QED BY <2>3, <2>4, <2>5
<1> QED BY <1>2, <1>5, <1>6, WithoutProperties

\* deleteFile: main.c stays, and with it at least one file.
LEMMA DeleteFileAccepted ==
    ASSUME Accepted(project), NEW fileName \in Names, deleteFile(fileName)
    PROVE  Accepted(project')
<1>1. fileName # Main /\ project' = [files |-> Without(project.files, fileName),
                                    activeFileName |-> Main]
  BY DEF deleteFile
<1>2. /\ project.files \in Seq(Names) /\ distinct(project.files) /\ Contains(project.files, Main)
      /\ Len(project.files) <= SourceFileMaxCount
  BY NamesAssumption DEF Accepted, validateFiles
<1>3. /\ project'.files \in Seq(Names) /\ distinct(project'.files)
      /\ Contains(project'.files, Main) /\ Len(project'.files) \in 1..SourceFileMaxCount
  BY <1>1, <1>2, WithoutName
<1>4. /\ project' \in [files : Seq(Names), activeFileName : Names]
      /\ project'.activeFileName = Main
  BY <1>1, <1>3, NamesAssumption
<1> QED BY <1>3, <1>4, AcceptedFromParts

LEMMA ChangedProject ==
    ASSUME Accepted(project), ChangeFiles
    PROVE  Accepted(project')
<1>1. ToSet(project.files) \subseteq Names  BY DEF Accepted, ToSet
<1> QED BY <1>1, CreateFileAccepted, RenameFileAccepted, DeleteFileAccepted DEF ChangeFiles

-----------------------------------------------------------------------------
(* Types.                                                                  *)

Places == Sessions \cup {None}

Stages == {"none", "mounted", "released", "disposed"}

\* The state without the list of files. A retry is still to come only while attempts are left.
PageType ==
    /\ lspSession \in Places /\ shown \in Places
    /\ lspCycle \in {"set", "run"}
    /\ reconnectCount \in 0..MaxReconnectAttempts
    /\ reconnectTimer \in BOOLEAN /\ pendingRestart \in BOOLEAN /\ mounted \in BOOLEAN
    /\ loaded \in BOOLEAN /\ stranded \in BOOLEAN /\ (stranded => pendingRestart)
    /\ connecting \in [state : {"idle", "request", "retry"},
                       attempt : 0..MaxConnectAttempts - 1, outdated : BOOLEAN]
    /\ connecting.state = "retry" => connecting.attempt + 1 < MaxConnectAttempts
    /\ editor \in [Sessions -> Stages]
    /\ open \in [Sessions -> {"none", "opening", "initializing", "settled"}]
    /\ socket \in [Sessions -> {"none", "connecting", "open", "closing", "closed"}]
    /\ unavailable \subseteq Sessions /\ outdated \subseteq Sessions

\* What the reports of a connection do to the page.
LEMMA StatusType ==
    ASSUME PageType, NEW s \in Sessions,
           notifyUnavailable(s) \/ (statusConnected /\ UNCHANGED unavailable)
    PROVE  /\ lspSession' \in Places /\ reconnectCount' \in 0..MaxReconnectAttempts
           /\ reconnectTimer' \in BOOLEAN /\ unavailable' \subseteq Sessions
<1>1. CASE UNCHANGED <<unavailable, lspSession, reconnectCount, reconnectTimer>>
  BY <1>1 DEF PageType
<1>2. CASE unavailable' = unavailable \cup {s} /\ statusUnavailable
  BY <1>2, AttemptsAssumption DEF PageType, statusUnavailable, Places
<1>3. CASE statusConnected /\ UNCHANGED unavailable
  BY <1>3, Zenon DEF PageType, statusConnected
<1> QED BY <1>1, <1>2, <1>3 DEF notifyUnavailable

\* What the effect of an editor does, which makes its connection or reports that it cannot.
LEMMA ConnectKeeps ==
    ASSUME PageType, NEW s \in Sessions, NEW others \in [Sessions -> Stages], connect(s, others)
    PROVE  /\ lspSession' \in {lspSession, None} /\ lspSession' \in Places
           /\ reconnectCount' \in 0..MaxReconnectAttempts /\ reconnectTimer' \in BOOLEAN
           /\ statusUnavailable \/ UNCHANGED <<reconnectCount, reconnectTimer>>
           /\ editor' \in [Sessions -> Stages]
           /\ open' \in [Sessions -> {"none", "opening", "initializing", "settled"}]
           /\ socket' \in [Sessions -> {"none", "connecting", "open", "closing", "closed"}]
           /\ \A t \in Sessions \ {s} : editor'[t] = others[t] /\ socket'[t] = socket[t]
           /\ \/ editor'[s] = "mounted" /\ socket'[s] = "connecting"
              \/ editor'[s] = others[s] /\ socket'[s] = socket[s]
<1>1. CASE /\ editor' = [others EXCEPT ![s] = "mounted"]
           /\ socket' = [socket EXCEPT ![s] = "connecting"]
           /\ open' = [open EXCEPT ![s] = "opening"]
           /\ UNCHANGED <<lspSession, reconnectCount, reconnectTimer>>
  BY <1>1 DEF PageType, Stages
<1>2. CASE editor' = others /\ statusUnavailable /\ UNCHANGED <<open, socket>>
  BY <1>2, AttemptsAssumption DEF PageType, statusUnavailable, Places
<1> QED BY <1>1, <1>2 DEF connect

\* The editors after a render, but for the one that it mounts.
Replaced ==
    [s \in Sessions |-> IF s = shown /\ s # lspSession THEN release(editor[s]) ELSE editor[s]]

LEMMA ReplacedType == PageType => Replaced \in [Sessions -> Stages]
  BY DEF PageType, Replaced, release, Stages

LEMMA RenderEditors ==
    ASSUME PageType, Render
    PROVE  /\ lspSession' \in {lspSession, None} /\ lspSession' \in Places
           /\ reconnectCount' \in 0..MaxReconnectAttempts /\ reconnectTimer' \in BOOLEAN
           /\ statusUnavailable \/ UNCHANGED <<reconnectCount, reconnectTimer>>
           /\ editor' \in [Sessions -> Stages]
           /\ open' \in [Sessions -> {"none", "opening", "initializing", "settled"}]
           /\ socket' \in [Sessions -> {"none", "connecting", "open", "closing", "closed"}]
           /\ \A t \in Sessions : t # lspSession \/ t = shown =>
                  editor'[t] = Replaced[t] /\ socket'[t] = socket[t]
           /\ lspSession \notin {shown, None} =>
                  \/ editor'[lspSession] = "mounted" /\ socket'[lspSession] = "connecting"
                  \/ /\ editor'[lspSession] = Replaced[lspSession]
                     /\ socket'[lspSession] = socket[lspSession]
<1>1. Replaced \in [Sessions -> Stages]  BY ReplacedType
<1>2. CASE loaded /\ lspSession \notin {shown, None}
  <2>1. connect(lspSession, Replaced)  BY <1>2 DEF Render, Replaced
  <2>2. lspSession \in Sessions  BY <1>2 DEF PageType, Places
  <2>3. PICK s \in Sessions : s = lspSession  BY <2>2
  <2>4. connect(s, Replaced)  BY <2>1, <2>3
  <2> HIDE DEF Replaced
  <2> QED BY <1>1, <1>2, <2>3, <2>4, ConnectKeeps
<1>3. CASE ~(loaded /\ lspSession \notin {shown, None})
  <2>1. /\ editor' = Replaced
        /\ UNCHANGED <<open, socket, lspSession, reconnectCount, reconnectTimer>>
    BY <1>3 DEF Render, Replaced
  <2> HIDE DEF Replaced
  <2> QED BY <1>1, <2>1 DEF PageType
<1> QED BY <1>2, <1>3

LEMMA LoadsEditors ==
    ASSUME PageType, CodeEditorLoads
    PROVE  /\ lspSession' \in {lspSession, None} /\ lspSession' \in Places
           /\ reconnectCount' \in 0..MaxReconnectAttempts /\ reconnectTimer' \in BOOLEAN
           /\ statusUnavailable \/ UNCHANGED <<reconnectCount, reconnectTimer>>
           /\ editor' \in [Sessions -> Stages]
           /\ open' \in [Sessions -> {"none", "opening", "initializing", "settled"}]
           /\ socket' \in [Sessions -> {"none", "connecting", "open", "closing", "closed"}]
           /\ \A t \in Sessions : t # shown => editor'[t] = editor[t] /\ socket'[t] = socket[t]
           /\ shown # None =>
                  \/ editor'[shown] = "mounted" /\ socket'[shown] = "connecting"
                  \/ editor'[shown] = editor[shown] /\ socket'[shown] = socket[shown]
<1>1. CASE shown # None
  <2>1. PICK s \in Sessions : s = shown  BY <1>1 DEF PageType, Places
  <2>2. connect(s, editor) /\ editor \in [Sessions -> Stages]
    BY <1>1, <2>1 DEF CodeEditorLoads, PageType
  <2> QED BY <2>1, <2>2, ConnectKeeps
<1>2. CASE shown = None
  BY <1>2 DEF CodeEditorLoads, PageType
<1> QED BY <1>1, <1>2

\* A request is one of the attempts.
LEMMA ConnectType ==
    ASSUME NEW a \in 0..MaxConnectAttempts - 1, connectLsp(a)
    PROVE  /\ connecting' \in [state : {"idle", "request", "retry"},
                               attempt : 0..MaxConnectAttempts - 1, outdated : BOOLEAN]
           /\ connecting'.state = "request"
  BY DEF connectLsp

LEMMA PageTypeInit == Init => PageType
<1> SUFFICES ASSUME Init PROVE PageType
  OBVIOUS
<1>1. connecting \in [state : {"idle", "request", "retry"},
                      attempt : 0..MaxConnectAttempts - 1, outdated : BOOLEAN]
      /\ connecting.state = "request"
  BY AttemptsAssumption DEF Init
<1>2. reconnectCount \in 0..MaxReconnectAttempts  BY AttemptsAssumption DEF Init
<1>3. editor \in [Sessions -> Stages]  BY DEF Init, Stages
<1> QED BY <1>1, <1>2, <1>3, Zenon DEF Init, PageType, Places

LEMMA PageTypeStep == PageType /\ [Next]_vars => PageType'
<1> SUFFICES ASSUME PageType, [Next]_vars PROVE PageType'
  OBVIOUS
<1> USE DEF PageType
<1>0. /\ Idle \in [state : {"idle", "request", "retry"},
                   attempt : 0..MaxConnectAttempts - 1, outdated : BOOLEAN]
      /\ Idle.state = "idle"
  BY AttemptsAssumption DEF Idle
<1>1. ASSUME NEW s \in Sessions, SessionCreated(s) PROVE PageType'
  BY <1>0, <1>1 DEF SessionCreated, Places, Stages
<1>2. CASE CreateFails
  <2>1. CASE connecting.attempt + 1 < MaxConnectAttempts
    BY <1>2, <2>1 DEF CreateFails, editors
  <2>2. CASE ~(connecting.attempt + 1 < MaxConnectAttempts)
    BY <1>0, <1>2, <2>2 DEF CreateFails, editors, Places
  <2> QED BY <2>1, <2>2
<1>3. CASE RetryTimer
  <2>1. connecting.attempt + 1 \in 0..MaxConnectAttempts - 1
    BY <1>3, AttemptsAssumption DEF RetryTimer
  <2> QED BY <1>3, <2>1, ConnectType DEF RetryTimer, editors
<1>4. CASE ReconnectTimer  BY <1>4, Zenon DEF ReconnectTimer, editors
<1>5. CASE UpdateProjectStructure
  <2>1. 0 \in 0..MaxReconnectAttempts  BY AttemptsAssumption
  <2> QED BY <1>5, <2>1, Zenon DEF UpdateProjectStructure, editors, Places
<1>6. CASE Render
  <2>1. 0 \in 0..MaxConnectAttempts - 1  BY AttemptsAssumption
  <2>2. /\ connecting' \in [state : {"idle", "request", "retry"},
                            attempt : 0..MaxConnectAttempts - 1, outdated : BOOLEAN]
        /\ connecting'.state = "retry" => connecting'.attempt + 1 < MaxConnectAttempts
    BY <1>6, <2>1, ConnectType DEF Render
  <2>3. UNCHANGED <<pendingRestart, stranded, mounted, loaded, unavailable, outdated>>
        /\ shown' = lspSession /\ lspCycle' = "run"
    BY <1>6 DEF Render
  <2> QED BY <1>6, <2>2, <2>3, RenderEditors
<1>7. CASE Unmount
  <2>1. editor' \in [Sessions -> Stages]  BY <1>7 DEF Unmount, release, Stages
  <2> QED BY <1>0, <1>7, <2>1, Zenon DEF Unmount
<1>8. ASSUME NEW s \in Sessions, SocketOpens(s) PROVE PageType'
  BY <1>8 DEF SocketOpens, playground
<1>9. ASSUME NEW s \in Sessions, OpenTimeout(s) PROVE PageType'
  BY <1>9, StatusType DEF OpenTimeout
<1>10. ASSUME NEW s \in Sessions, Initialized(s) PROVE PageType'
  BY <1>10, StatusType DEF Initialized
<1>11. ASSUME NEW s \in Sessions, InitializeFails(s) PROVE PageType'
  BY <1>11, StatusType DEF InitializeFails
<1>12. ASSUME NEW s \in Sessions, SocketCloses(s) PROVE PageType'
  BY <1>12, StatusType, Zenon DEF SocketCloses, handleLspDisposed
<1>13. ASSUME NEW s \in Sessions, Dispose(s) PROVE PageType'
  BY <1>13, Zenon DEF Dispose, disposeTransport, handleLspDisposed, Stages
<1>14. CASE CodeEditorLoads
  <2>1. /\ UNCHANGED <<shown, lspCycle, pendingRestart, stranded, connecting, mounted>>
        /\ UNCHANGED <<unavailable, outdated>> /\ loaded' = TRUE
    BY <1>14 DEF CodeEditorLoads
  <2> QED BY <1>14, <2>1, LoadsEditors
<1>15. CASE UNCHANGED vars  BY <1>15 DEF vars, playground, editors
<1> QED BY <1>1, <1>2, <1>3, <1>4, <1>5, <1>6, <1>7, <1>8, <1>9, <1>10, <1>11, <1>12, <1>13,
           <1>14, <1>15
        DEF Next, Answer, Opening, Initializing

-----------------------------------------------------------------------------
(* The list of files stays acceptable.                                     *)

LEMMA AcceptedInvariant == Spec => []Accepted(project)
<1>1. Init => Accepted(project)  BY LoadedProject DEF Init
<1>2. Accepted(project) /\ [Next]_vars => Accepted(project)'
  <2> SUFFICES ASSUME Accepted(project), [Next]_vars PROVE Accepted(project)'
    OBVIOUS
  <2>1. CASE UpdateProjectStructure
    BY <2>1, ChangedProject DEF UpdateProjectStructure
  <2>2. CASE UNCHANGED project  BY <2>2
  <2> QED BY <2>1, <2>2
          DEF Next, Answer, SessionCreated, CreateFails, RetryTimer, ReconnectTimer, Render,
              CodeEditorLoads, Unmount,
              Opening, Initializing, SocketOpens, OpenTimeout, Initialized, InitializeFails,
              SocketCloses, Dispose, vars
<1> QED BY <1>1, <1>2, PTL DEF Spec

\* Whatever localStorage held, and however many files of whatever names are created, renamed
\* and deleted, validateFiles of the server accepts the project, main.c is there in this
\* spelling, and the tab that is shown exists.
THEOREM ProjectAlwaysAccepted == Spec => []ProjectAccepted
<1>1. Accepted(project) => ProjectAccepted  BY DEF Accepted, ProjectAccepted
<1> QED BY <1>1, AcceptedInvariant, PTL

-----------------------------------------------------------------------------
(* Sessions made from an earlier list of files.                            *)

\* A report of a connection sets no session, and a disposed editor turns the restart that
\* waited for it into a new cycle.
LEMMA ReportKeeps ==
    ASSUME NEW s \in Sessions, notifyUnavailable(s) \/ statusConnected
    PROVE  lspSession' \in {lspSession, None}
  BY DEF notifyUnavailable, statusConnected, statusUnavailable

LEMMA RestartKept ==
    ASSUME PageType, handleLspDisposed \/ UNCHANGED <<pendingRestart, stranded, lspCycle>>,
           stranded \/ restartComing, ~stranded'
    PROVE  restartComing'
  BY DEF PageType, handleLspDisposed, restartComing

LEMMA SessionHasFilesStep == PageType /\ SessionHasFiles /\ [Next]_vars => SessionHasFiles'
<1> SUFFICES ASSUME PageType, SessionHasFiles, [Next]_vars PROVE SessionHasFiles'
  OBVIOUS
<1> USE DEF SessionHasFiles
<1>0. None \notin outdated  BY NoneAssumption DEF PageType
<1>1. ASSUME NEW s \in Sessions, SessionCreated(s) PROVE SessionHasFiles'
  BY <1>1 DEF SessionCreated, Idle, restartComing
<1>2. CASE CreateFails
  <2>1. CASE connecting.attempt + 1 < MaxConnectAttempts
    BY <1>2, <2>1 DEF CreateFails, restartComing, PageType
  <2>2. CASE ~(connecting.attempt + 1 < MaxConnectAttempts)
    BY <1>0, <1>2, <2>2 DEF CreateFails, Idle
  <2> QED BY <2>1, <2>2
<1>3. CASE RetryTimer  BY <1>3 DEF RetryTimer, connectLsp
<1>4. CASE ReconnectTimer  BY <1>4 DEF ReconnectTimer, restartComing
<1>5. CASE UpdateProjectStructure
  BY <1>5 DEF UpdateProjectStructure, restartComing
<1>6. CASE Render
  <2>1. CASE lspCycle = "set"  BY <1>6, <2>1 DEF Render, connectLsp
  <2>2. CASE lspCycle # "set"
    <3>1. lspSession' \in {lspSession, None}  BY <1>6, RenderEditors
    <3> QED BY <1>0, <1>6, <2>2, <3>1 DEF Render, restartComing
  <2> QED BY <2>1, <2>2
<1>7. CASE Unmount  BY <1>7 DEF Unmount
<1>8. ASSUME lspSession' \in {lspSession, None}, UNCHANGED <<outdated, connecting, mounted>>,
             handleLspDisposed \/ UNCHANGED <<pendingRestart, stranded, lspCycle>>
      PROVE  SessionHasFiles'
  BY <1>0, <1>8, RestartKept
<1>9. ASSUME NEW s \in Sessions, Opening(s) \/ Initializing(s) \/ SocketCloses(s) \/ Dispose(s)
      PROVE  SessionHasFiles'
  <2>1. CASE SocketOpens(s)  BY <1>8, <2>1 DEF SocketOpens, playground
  <2>2. CASE OpenTimeout(s)  BY <1>8, <2>2, ReportKeeps DEF OpenTimeout
  <2>3. CASE Initialized(s)  BY <1>8, <2>3, ReportKeeps DEF Initialized
  <2>4. CASE InitializeFails(s)  BY <1>8, <2>4, ReportKeeps DEF InitializeFails
  <2>5. CASE SocketCloses(s)  BY <1>8, <2>5, ReportKeeps DEF SocketCloses
  <2>6. CASE Dispose(s)  BY <1>8, <2>6 DEF Dispose
  <2> QED BY <1>9, <2>1, <2>2, <2>3, <2>4, <2>5, <2>6 DEF Opening, Initializing
<1>10. CASE CodeEditorLoads  BY <1>8, <1>10, LoadsEditors DEF CodeEditorLoads
<1>11. CASE UNCHANGED vars  BY <1>8, <1>11 DEF vars, playground
<1> QED BY <1>1, <1>2, <1>3, <1>4, <1>5, <1>6, <1>7, <1>9, <1>10, <1>11 DEF Next, Answer

LEMMA PageTypeInvariant == Spec => []PageType
  BY PageTypeInit, PageTypeStep, PTL DEF Spec

\* However changes of the files, answers, retries, reconnects and renders interleave, the page
\* is never left with a session, or with a request for one, made from an earlier list of files:
\* a restart is coming, or a request with the list as it is. Left out is a restart that waits
\* for a connection that was never made.
THEOREM SessionAlwaysHasFiles == Spec => []SessionHasFiles
<1>1. Init => SessionHasFiles  BY NoneAssumption DEF Init, SessionHasFiles
<1> QED BY <1>1, SessionHasFilesStep, PageTypeInvariant, PTL DEF Spec

-----------------------------------------------------------------------------
(* What a restart waits for.                                               *)

\* An editor that was ever mounted has a socket; the editor of the session that is shown is
\* mounted, unless its connection was not made, and one that is not shown yet has none.
EditorsInv ==
    /\ \A s \in Sessions : editor[s] \in {"mounted", "released"} => socket[s] # "none"
    /\ mounted /\ shown # None => editor[shown] \in {"none", "mounted"}
    /\ mounted /\ lspSession \notin {None, shown} => editor[lspSession] = "none"

cause(s) ==
    \/ s = shown /\ lspSession # s /\ editor[s] = "mounted"
    \/ editor[s] = "released"
    \/ editor[s] = "disposed" /\ socket[s] = "closing"

RestartInv == EditorsInv /\ RestartHasCause

\* The steps that leave the editors and what is shown alone, and only give the session up.
LEMMA EditorsKept ==
    ASSUME PageType, RestartInv, lspSession' \in {lspSession, None},
           UNCHANGED <<shown, editor, mounted>>,
           \A s \in Sessions : socket[s] # "none" => socket'[s] # "none"
    PROVE  EditorsInv'
  BY DEF RestartInv, EditorsInv, PageType, Places

LEMMA CauseKept ==
    ASSUME PageType, RestartInv, lspSession' \in {lspSession, None},
           UNCHANGED <<shown, editor>>, mounted' => mounted,
           pendingRestart' /\ mounted' /\ ~stranded' => pendingRestart /\ ~stranded /\
               \A s \in Sessions : editor[s] = "disposed" /\ socket[s] = "closing" =>
                   socket'[s] = "closing"
    PROVE  RestartHasCause'
<1> SUFFICES ASSUME pendingRestart', mounted', ~stranded' PROVE \E s \in Sessions : cause(s)'
  BY DEF RestartHasCause, cause
<1>1. PICK s \in Sessions : cause(s)  BY DEF RestartInv, RestartHasCause, cause
<1>2. s # None  BY NoneAssumption
<1>3. cause(s)'  BY <1>1, <1>2 DEF cause
<1> QED BY <1>3

LEMMA SessionCreatedRestart ==
    ASSUME PageType, RestartInv, NEW s \in Sessions, SessionCreated(s)
    PROVE  RestartInv'
<1>1. /\ s \notin {lspSession, shown} /\ lspSession' = s
      /\ editor[s] \in {"none", "disposed"} /\ socket[s] \in {"none", "closed"}
      /\ UNCHANGED <<shown, mounted, pendingRestart, stranded>>
  BY DEF SessionCreated, free
<1>2. \A t \in Sessions : /\ editor'[t] = IF t = s THEN "none" ELSE editor[t]
                          /\ socket'[t] = IF t = s THEN "none" ELSE socket[t]
  BY DEF SessionCreated, PageType
<1>3. EditorsInv'  BY <1>1, <1>2 DEF RestartInv, EditorsInv, PageType, Places
<1>4. RestartHasCause'
  <2> SUFFICES ASSUME pendingRestart', mounted', ~stranded' PROVE \E t \in Sessions : cause(t)'
    BY DEF RestartHasCause, cause
  <2>1. PICK t \in Sessions : cause(t)  BY <1>1 DEF RestartInv, RestartHasCause, cause
  <2>2. t # s  BY <1>1, <2>1 DEF cause
  <2>3. cause(t)'  BY <1>1, <1>2, <2>1, <2>2 DEF cause
  <2> QED BY <2>3
<1> QED BY <1>3, <1>4 DEF RestartInv

LEMMA UpdateProjectStructureRestart ==
    ASSUME PageType, RestartInv, UpdateProjectStructure
    PROVE  RestartInv'
<1>1. /\ lspSession' \in {lspSession, None} /\ mounted
      /\ UNCHANGED <<shown, mounted, editor, socket>>
      /\ \/ UNCHANGED <<pendingRestart, stranded>>
         \/ /\ lspSession' = None /\ shown # None
            /\ stranded' = (editor[shown] # "mounted")
  BY DEF UpdateProjectStructure, editors
<1>2. EditorsInv'  BY <1>1, EditorsKept
<1>3. CASE UNCHANGED <<pendingRestart, stranded>>  BY <1>1, <1>2, <1>3, CauseKept DEF RestartInv
<1>4. CASE lspSession' = None /\ shown # None /\ stranded' = (editor[shown] # "mounted")
  <2>1. shown \in Sessions  BY <1>4 DEF PageType, Places
  <2>2. ~stranded' => cause(shown)'  BY <1>1, <1>4 DEF cause
  <2> QED BY <1>1, <1>2, <2>1, <2>2 DEF RestartInv, RestartHasCause, cause
<1> QED BY <1>1, <1>3, <1>4

\* The editor that was shown is released, and the one that is shown now was never used.
LEMMA RenderRestart ==
    ASSUME PageType, RestartInv, Render
    PROVE  RestartInv'
<1>1. /\ mounted /\ shown' = lspSession
      /\ UNCHANGED <<pendingRestart, stranded, mounted>>
  BY DEF Render
<1>2. /\ lspSession' \in {lspSession, None}
      /\ \A t \in Sessions : t # lspSession \/ t = shown =>
             editor'[t] = Replaced[t] /\ socket'[t] = socket[t]
      /\ lspSession \notin {shown, None} =>
             \/ editor'[lspSession] = "mounted" /\ socket'[lspSession] = "connecting"
             \/ /\ editor'[lspSession] = Replaced[lspSession]
                /\ socket'[lspSession] = socket[lspSession]
  BY RenderEditors
<1>3. \A s \in Sessions : Replaced[s] = IF s = shown /\ s # lspSession THEN release(editor[s])
                                        ELSE editor[s]
  BY DEF Replaced
<1>4. \A s \in Sessions : release(editor[s]) = IF editor[s] = "mounted" THEN "released"
                                               ELSE editor[s]
  BY DEF release
<1>5. EditorsInv'
  <2>1. ASSUME NEW s \in Sessions, editor'[s] \in {"mounted", "released"}
        PROVE  socket'[s] # "none"
    <3>1. \/ socket'[s] = "connecting"
          \/ editor'[s] = Replaced[s] /\ socket'[s] = socket[s]
      BY <1>2, NoneAssumption
    <3> QED BY <1>3, <1>4, <2>1, <3>1 DEF RestartInv, EditorsInv
  <2>2. ASSUME shown' # None PROVE editor'[shown'] \in {"none", "mounted"}
    <3>1. lspSession \in Sessions /\ lspSession # None /\ shown' = lspSession
      BY <1>1, <2>2 DEF PageType, Places
    <3>2. editor[lspSession] \in {"none", "mounted"} /\ Replaced[lspSession] = editor[lspSession]
      BY <1>1, <1>3, <3>1 DEF RestartInv, EditorsInv
    <3>3. editor'[lspSession] \in {"mounted", Replaced[lspSession]}  BY <1>2, <3>1
    <3> QED BY <3>1, <3>2, <3>3
  <2>3. lspSession' \in {None, shown'}  BY <1>1, <1>2
  <2> QED BY <1>1, <2>1, <2>2, <2>3 DEF EditorsInv
<1>6. RestartHasCause'
  <2> SUFFICES ASSUME pendingRestart', ~stranded' PROVE \E s \in Sessions : cause(s)'
    BY DEF RestartHasCause, cause
  <2>1. PICK s \in Sessions : cause(s)  BY <1>1 DEF RestartInv, RestartHasCause, cause
  <2>2. CASE s = shown /\ lspSession # s /\ editor[s] = "mounted"
    <3>1. editor'[s] = "released"  BY <1>2, <1>3, <1>4, <2>2
    <3> QED BY <3>1 DEF cause
  <2>3. CASE ~(s = shown /\ lspSession # s /\ editor[s] = "mounted")
    <3>1. editor[s] = "released" \/ (editor[s] = "disposed" /\ socket[s] = "closing")
      BY <2>1, <2>3 DEF cause
    <3>2. s # shown /\ s # lspSession
      BY <1>1, <3>1, NoneAssumption DEF RestartInv, EditorsInv
    <3>3. editor'[s] = editor[s] /\ socket'[s] = socket[s]  BY <1>2, <1>3, <3>2
    <3> QED BY <3>1, <3>3 DEF cause
  <2> QED BY <2>2, <2>3
<1> QED BY <1>5, <1>6 DEF RestartInv

\* The editor that is mounted late had no connection.
LEMMA LoadsRestart ==
    ASSUME PageType, RestartInv, CodeEditorLoads
    PROVE  RestartInv'
<1>1. /\ mounted /\ UNCHANGED <<shown, pendingRestart, stranded, mounted>>
  BY DEF CodeEditorLoads
<1>2. /\ lspSession' \in {lspSession, None}
      /\ \A t \in Sessions : t # shown => editor'[t] = editor[t] /\ socket'[t] = socket[t]
      /\ shown # None => \/ editor'[shown] = "mounted" /\ socket'[shown] = "connecting"
                         \/ editor'[shown] = editor[shown] /\ socket'[shown] = socket[shown]
  BY LoadsEditors
<1>3. shown # None => editor[shown] \in {"none", "mounted"}
  BY <1>1 DEF RestartInv, EditorsInv
<1>4. EditorsInv'
  <2>1. ASSUME NEW s \in Sessions, editor'[s] \in {"mounted", "released"}
        PROVE  socket'[s] # "none"
    <3>1. \/ socket'[s] = "connecting"
          \/ editor'[s] = editor[s] /\ socket'[s] = socket[s]
      BY <1>2, NoneAssumption
    <3> QED BY <2>1, <3>1 DEF RestartInv, EditorsInv
  <2>2. shown' # None => editor'[shown'] \in {"none", "mounted"}  BY <1>1, <1>2, <1>3
  <2>3. lspSession' \notin {None, shown'} => editor'[lspSession'] = "none"
    BY <1>1, <1>2 DEF RestartInv, EditorsInv, PageType, Places
  <2> QED BY <2>1, <2>2, <2>3 DEF EditorsInv
<1>5. RestartHasCause'
  <2> SUFFICES ASSUME pendingRestart', ~stranded' PROVE \E s \in Sessions : cause(s)'
    BY DEF RestartHasCause, cause
  <2>1. PICK s \in Sessions : cause(s)  BY <1>1 DEF RestartInv, RestartHasCause, cause
  <2>2. s # None  BY NoneAssumption
  <2>3. CASE s = shown
    <3>1. lspSession # s /\ editor[s] = "mounted"  BY <1>3, <2>1, <2>2, <2>3 DEF cause
    <3>2. lspSession' # s /\ editor'[s] = "mounted"  BY <1>2, <2>2, <2>3, <3>1
    <3> QED BY <1>1, <2>3, <3>2 DEF cause
  <2>4. CASE s # shown
    <3>1. editor'[s] = editor[s] /\ socket'[s] = socket[s]  BY <1>2, <2>4
    <3> QED BY <2>1, <2>4, <3>1 DEF cause
  <2> QED BY <2>3, <2>4
<1> QED BY <1>4, <1>5 DEF RestartInv

LEMMA SocketClosesRestart ==
    ASSUME PageType, RestartInv, NEW s \in Sessions, SocketCloses(s)
    PROVE  RestartInv'
<1>1. lspSession' \in {lspSession, None} /\ UNCHANGED <<shown, editor, mounted>>
  BY ReportKeeps DEF SocketCloses
<1>2. \A t \in Sessions : socket'[t] = IF t = s THEN "closed" ELSE socket[t]
  BY DEF SocketCloses, PageType
<1>3. EditorsInv'  BY <1>1, <1>2, EditorsKept
<1>4. CASE editor[s] = "disposed"
  BY <1>3, <1>4 DEF SocketCloses, handleLspDisposed, RestartInv, RestartHasCause
<1>5. CASE editor[s] # "disposed"
  <2>1. UNCHANGED <<pendingRestart, stranded>>  BY <1>5 DEF SocketCloses
  <2> QED BY <1>1, <1>2, <1>3, <1>5, <2>1, CauseKept DEF RestartInv
<1> QED BY <1>4, <1>5

\* The disposed editor is what the restart waits for, until its socket has closed.
LEMMA DisposeRestart ==
    ASSUME PageType, RestartInv, NEW s \in Sessions, Dispose(s)
    PROVE  RestartInv'
<1>1. editor[s] = "released" /\ socket[s] # "none"
  BY DEF Dispose, RestartInv, EditorsInv
<1>2. UNCHANGED <<lspSession, shown, mounted>>  BY DEF Dispose
<1>3. \A t \in Sessions : editor'[t] = IF t = s THEN "disposed" ELSE editor[t]
  BY DEF Dispose, PageType
<1>4. \A t \in Sessions : socket'[t] = IF t = s /\ socket[s] \in {"connecting", "open"}
                                       THEN "closing" ELSE socket[t]
  BY DEF Dispose, disposeTransport, PageType
<1>5. EditorsInv'
  <2>1. mounted => s # shown /\ (s # lspSession \/ lspSession = None)
    BY <1>1, NoneAssumption DEF RestartInv, EditorsInv
  <2>2. \A t \in Sessions : editor'[t] \in {"mounted", "released"} => socket'[t] # "none"
    BY <1>3, <1>4 DEF RestartInv, EditorsInv
  <2> QED BY <1>2, <1>3, <2>1, <2>2 DEF RestartInv, EditorsInv, PageType, Places
<1>6. CASE socket[s] = "closed"
  BY <1>5, <1>6 DEF Dispose, handleLspDisposed, RestartInv, RestartHasCause
<1>7. CASE socket[s] # "closed"
  <2>1. socket'[s] = "closing"  BY <1>1, <1>4, <1>7 DEF PageType
  <2>2. cause(s)'  BY <1>3, <2>1 DEF cause
  <2> QED BY <1>5, <2>2 DEF RestartInv, RestartHasCause, cause
<1> QED BY <1>6, <1>7

LEMMA RestartStep == PageType /\ RestartInv /\ [Next]_vars => RestartInv'
<1> SUFFICES ASSUME PageType, RestartInv, [Next]_vars PROVE RestartInv'
  OBVIOUS
<1>1. ASSUME lspSession' \in {lspSession, None},
             UNCHANGED <<shown, editor, mounted, pendingRestart, stranded>>,
             \A s \in Sessions : socket[s] \notin {"none", "closing"} =>
                 socket'[s] \notin {"none", "closing"},
             \A s \in Sessions : socket[s] = "closing" => socket'[s] = "closing"
      PROVE  RestartInv'
  <2>1. EditorsInv'  BY <1>1, EditorsKept
  <2>2. RestartHasCause'  BY <1>1, CauseKept
  <2> QED BY <2>1, <2>2 DEF RestartInv
<1>2. CASE CreateFails  BY <1>1, <1>2 DEF CreateFails, editors
<1>3. CASE RetryTimer  BY <1>1, <1>3 DEF RetryTimer, editors
<1>4. CASE ReconnectTimer  BY <1>1, <1>4 DEF ReconnectTimer, editors
<1>5. CASE Unmount
  <2>1. ~mounted'  BY <1>5 DEF Unmount
  <2>2. \A s \in Sessions : editor'[s] \in {"mounted", "released"} => socket'[s] # "none"
    BY <1>5 DEF Unmount, release, RestartInv, EditorsInv
  <2> QED BY <2>1, <2>2 DEF RestartInv, EditorsInv, RestartHasCause
<1>6. ASSUME NEW s \in Sessions, Opening(s) \/ Initializing(s) PROVE RestartInv'
  <2>1. CASE SocketOpens(s)
    <3>1. \A t \in Sessions : socket'[t] = IF t = s THEN "open" ELSE socket[t]
      BY <2>1 DEF SocketOpens, PageType
    <3>2. socket[s] = "connecting"  BY <2>1 DEF SocketOpens
    <3> QED BY <1>1, <2>1, <3>1, <3>2 DEF SocketOpens, playground
  <2>2. CASE OpenTimeout(s)  BY <1>1, <2>2, ReportKeeps DEF OpenTimeout
  <2>3. CASE Initialized(s)  BY <1>1, <2>3, ReportKeeps DEF Initialized
  <2>4. CASE InitializeFails(s)  BY <1>1, <2>4, ReportKeeps DEF InitializeFails
  <2> QED BY <1>6, <2>1, <2>2, <2>3, <2>4 DEF Opening, Initializing
<1>7. CASE UNCHANGED vars  BY <1>1, <1>7 DEF vars, playground, editors
<1> QED BY <1>2, <1>3, <1>4, <1>5, <1>6, <1>7, SessionCreatedRestart, UpdateProjectStructureRestart,
           RenderRestart, LoadsRestart, SocketClosesRestart, DisposeRestart DEF Next, Answer

\* A restart that waits for the old connection to end always has one to wait for: an editor
\* that is about to be replaced, one that its timer will dispose of, or a socket that closes;
\* unless the files changed while a session was shown whose connection was never made, because
\* the chunk of CodeEditor was not loaded or making the connection threw.
THEOREM RestartAlwaysHasCause == Spec => []RestartHasCause
<1>1. Init => RestartInv
  BY DEF Init, RestartInv, EditorsInv, RestartHasCause
<1>2. RestartInv => RestartHasCause  BY DEF RestartInv
<1> QED BY <1>1, <1>2, RestartStep, PageTypeInvariant, PTL DEF Spec

-----------------------------------------------------------------------------
(* How many requests are made.                                             *)

\* The runs of the effect that may still come before the files change again: one that is
\* set, one that waits for the old connection, one that the timer will set, and those that
\* lost connections may still plan.
cycleSet == IF lspCycle = "set" THEN 1 ELSE 0
restartWaits == IF pendingRestart THEN 1 ELSE 0
timerRuns == IF reconnectTimer THEN 1 ELSE 0
reconnectsLeft == MaxReconnectAttempts - reconnectCount

cyclesLeft == cycleSet + restartWaits + timerRuns + reconnectsLeft

\* The requests they may make, and those that the last run may still make.
cycleRequests == MaxConnectAttempts * cyclesLeft

attemptsLeft ==
    IF connecting.state = "idle" THEN 0 ELSE MaxConnectAttempts - 1 - connecting.attempt

\* What was asked and what may still be asked stays within the bound.
RequestsInv ==
    /\ asked \in Nat
    /\ asked + attemptsLeft + cycleRequests <= AskedBound

CyclesType ==
    /\ cycleSet \in {0, 1} /\ restartWaits \in {0, 1} /\ timerRuns \in {0, 1}
    /\ reconnectsLeft \in Nat /\ cyclesLeft \in Nat /\ cycleRequests \in Nat
    /\ attemptsLeft \in 0..MaxConnectAttempts - 1

LEMMA CyclesTypes == PageType => CyclesType
<1> SUFFICES ASSUME PageType PROVE CyclesType
  OBVIOUS
<1>1. reconnectsLeft \in Nat  BY AttemptsAssumption DEF PageType, reconnectsLeft
<1>2. cycleSet \in {0, 1} /\ restartWaits \in {0, 1} /\ timerRuns \in {0, 1}
  BY DEF cycleSet, restartWaits, timerRuns
<1>3. cyclesLeft \in Nat  BY <1>1, <1>2 DEF cyclesLeft
<1>4. cycleRequests \in Nat  BY <1>3, AttemptsAssumption DEF cycleRequests
<1>5. attemptsLeft \in 0..MaxConnectAttempts - 1
  BY AttemptsAssumption DEF attemptsLeft, PageType
<1> QED BY <1>1, <1>2, <1>3, <1>4, <1>5 DEF CyclesType

LEMMA NextCyclesTypes == PageType' => CyclesType'
  BY CyclesTypes, PTL

\* The types of both states of a step, without the constants' own.
LEMMA StepTypes ==
    ASSUME PageType, PageType'
    PROVE  /\ CyclesType /\ CyclesType' /\ AskedBound \in Nat /\ AskedBound' = AskedBound
           /\ MaxConnectAttempts \in Nat \ {0} /\ MaxReconnectAttempts \in Nat
<1>1. AskedBound \in Nat /\ AskedBound' = AskedBound  BY AttemptsAssumption DEF AskedBound
<1> QED BY <1>1, CyclesTypes, NextCyclesTypes, AttemptsAssumption

LEMMA SumWithin ==
    ASSUME NEW a \in Int, NEW b \in Int, NEW c \in Int, NEW x \in Int, NEW y \in Int,
           NEW z \in Int, NEW n \in Int,
           a <= x, b <= y, c <= z, x + y + z <= n
    PROVE  a + b + c <= n
  OBVIOUS

LEMMA PairsWithin ==
    ASSUME NEW a \in Int, NEW b \in Int, NEW c \in Int, NEW d \in Int,
           NEW x \in Int, NEW y \in Int, NEW z \in Int, NEW u \in Int,
           a + b <= x + y, c + d <= z + u
    PROVE  a + b + c + d <= x + y + z + u
  OBVIOUS

LEMMA WaitingWithin ==
    ASSUME NEW a \in {0, 1}, NEW b \in {0, 1}, NEW c, c = 0, NEW n \in Nat
    PROVE  a + b + c + n <= n + 2
  OBVIOUS

LEMMA RunWithin ==
    ASSUME NEW a \in Nat, NEW r \in Nat, NEW q \in Nat, NEW m \in Nat \ {0}, NEW l \in Nat,
           NEW n \in Nat, a + l + r <= n, q + m <= r
    PROVE  (a + 1) + (m - 1) + q <= n
  OBVIOUS

LEMMA RunTaken ==
    ASSUME NEW x, NEW y, NEW w \in Int, NEW a \in Int, NEW b \in Int, NEW c \in Int, NEW d \in Int,
           y = 1 + w + a + b, x = 0 + w + c + d, c + d <= a + b
    PROVE  x + 1 <= y
  OBVIOUS

\* Each cycle has as many requests.
LEMMA CycleRequests ==
    ASSUME NEW m \in Nat, NEW n \in Nat, m <= n, NEW a \in Nat
    PROVE  a * m <= a * n /\ a * (n + 1) = a * n + a /\ a * m \in Nat /\ a * n \in Nat
<1>1. a * n = a * m + a * (n - m)  OBVIOUS
<1>2. a * m \in Nat /\ a * n \in Nat /\ a * (n - m) \in Nat  OBVIOUS
<1>3. a * (n + 1) = a * n + a  OBVIOUS
<1> QED BY <1>1, <1>2, <1>3

LEMMA RunRequests ==
    ASSUME NEW m \in Nat, NEW n \in Nat, m + 1 <= n, NEW a \in Nat
    PROVE  a * m + a <= a * n
<1>1. m + 1 \in Nat /\ m <= m  OBVIOUS
<1>2. a * (m + 1) <= a * n  BY <1>1, CycleRequests, Zenon
<1>3. a * (m + 1) = a * m + a  BY <1>1, CycleRequests, Zenon
<1> QED BY <1>2, <1>3

\* A step that asks nothing and plans nothing.
LEMMA NothingAsked ==
    ASSUME PageType, PageType', RequestsInv, UNCHANGED asked, attemptsLeft' <= attemptsLeft,
           cyclesLeft' <= cyclesLeft
    PROVE  RequestsInv'
<1>1. CyclesType /\ CyclesType' /\ AskedBound \in Nat /\ AskedBound' = AskedBound
  BY StepTypes
<1>2. cycleRequests' <= cycleRequests
  BY <1>1, AttemptsAssumption, CycleRequests, Zenon DEF CyclesType, cycleRequests
<1>3. /\ attemptsLeft \in Int /\ attemptsLeft' \in Int
      /\ cycleRequests \in Int /\ cycleRequests' \in Int
  BY <1>1, AttemptsAssumption DEF CyclesType
<1>4. asked' + attemptsLeft' + cycleRequests' <= AskedBound'
  <2>1. /\ asked \in Int /\ asked' \in Int /\ AskedBound \in Int /\ asked' <= asked
        /\ asked + attemptsLeft + cycleRequests <= AskedBound
    BY <1>1 DEF RequestsInv
  <2>2. asked' + attemptsLeft' + cycleRequests' <= AskedBound
    BY <1>2, <1>3, <2>1, SumWithin, Zenon
  <2> QED BY <1>1, <2>2
<1> QED BY <1>4 DEF RequestsInv

\* A lost connection plans one more cycle for one attempt to reconnect, and the end of a
\* disposed one sets the cycle that waited for it.
LEMMA ReportPlans ==
    ASSUME PageType, PageType',
           \/ statusUnavailable \/ statusConnected
           \/ UNCHANGED <<reconnectCount, reconnectTimer>>
    PROVE  timerRuns' + reconnectsLeft' <= timerRuns + reconnectsLeft
<1>1. CyclesType /\ CyclesType' /\ MaxReconnectAttempts \in Nat  BY StepTypes
<1>2. CASE UNCHANGED <<reconnectCount, reconnectTimer>>
  BY <1>1, <1>2 DEF timerRuns, reconnectsLeft, CyclesType
<1>3. CASE statusConnected
  BY <1>1, <1>3 DEF PageType, statusConnected, timerRuns, reconnectsLeft
<1>4. CASE statusUnavailable
  BY <1>1, <1>4 DEF PageType, statusUnavailable, timerRuns, reconnectsLeft
<1> QED BY <1>2, <1>3, <1>4

LEMMA ReportCycles ==
    ASSUME PageType, PageType',
           \/ statusUnavailable \/ statusConnected
           \/ UNCHANGED <<reconnectCount, reconnectTimer>>,
           handleLspDisposed \/ UNCHANGED <<pendingRestart, lspCycle>>
    PROVE  cyclesLeft' <= cyclesLeft
<1>1. CyclesType /\ CyclesType' /\ MaxReconnectAttempts \in Nat  BY StepTypes
<1>2. cycleSet' + restartWaits' <= cycleSet + restartWaits
  BY DEF handleLspDisposed, cycleSet, restartWaits, PageType
<1>3. timerRuns' + reconnectsLeft' <= timerRuns + reconnectsLeft  BY ReportPlans
<1>4. /\ cycleSet \in Int /\ restartWaits \in Int /\ timerRuns \in Int /\ reconnectsLeft \in Int
      /\ cycleSet' \in Int /\ restartWaits' \in Int /\ timerRuns' \in Int
      /\ reconnectsLeft' \in Int
  BY <1>1 DEF CyclesType
<1> QED BY <1>2, <1>3, <1>4, PairsWithin, Zenon DEF cyclesLeft

LEMMA SameCycles ==
    ASSUME UNCHANGED <<lspCycle, pendingRestart, reconnectTimer, reconnectCount>>
    PROVE  /\ restartWaits' = restartWaits /\ timerRuns' = timerRuns
           /\ reconnectsLeft' = reconnectsLeft /\ cyclesLeft' = cyclesLeft
  BY DEF cyclesLeft, cycleSet, restartWaits, timerRuns, reconnectsLeft

\* The last run of the effect makes its next request.
LEMMA RetryRequests ==
    ASSUME PageType, PageType', RequestsInv, RetryTimer
    PROVE  RequestsInv'
<1>0. CyclesType /\ CyclesType' /\ AskedBound \in Nat /\ AskedBound' = AskedBound
      /\ MaxConnectAttempts \in Nat
  BY StepTypes
<1>1. /\ asked \in Nat /\ asked + attemptsLeft + cycleRequests <= AskedBound
      /\ attemptsLeft \in Nat /\ cycleRequests \in Nat
  BY <1>0 DEF RequestsInv, CyclesType
<1>2. cyclesLeft' = cyclesLeft  BY SameCycles DEF RetryTimer
<1>3. cycleRequests' = cycleRequests  BY <1>2 DEF cycleRequests
<1>4. /\ connecting.state = "retry" /\ connecting.attempt \in Int
      /\ connecting'.state = "request" /\ connecting'.attempt = connecting.attempt + 1
  BY DEF RetryTimer, connectLsp, PageType
<1>5. attemptsLeft' = attemptsLeft - 1  BY <1>0, <1>4 DEF attemptsLeft
<1>6. asked' = asked + 1  BY <1>0, <1>1 DEF RetryTimer, connectLsp
<1>7. asked' + attemptsLeft' + cycleRequests' <= AskedBound'
  BY <1>0, <1>1, <1>3, <1>5, <1>6
<1> QED BY <1>1, <1>6, <1>7 DEF RequestsInv

\* The effect of a new cycle replaces what is left of the last run by its own requests.
LEMMA RenderRequests ==
    ASSUME PageType, PageType', RequestsInv, Render
    PROVE  RequestsInv'
<1>0. CyclesType /\ CyclesType' /\ AskedBound \in Nat /\ AskedBound' = AskedBound
      /\ MaxConnectAttempts \in Nat \ {0}
  BY StepTypes
<1>1. /\ asked \in Nat /\ asked + attemptsLeft + cycleRequests <= AskedBound
      /\ attemptsLeft \in Nat /\ cycleRequests \in Nat /\ cycleRequests' \in Nat
  BY <1>0 DEF RequestsInv, CyclesType
<1>2. CASE lspCycle = "set"
  <2>1. cycleSet = 1 /\ cycleSet' = 0  BY <1>2 DEF Render, cycleSet
  <2>2. restartWaits' = restartWaits  BY DEF Render, restartWaits
  <2>3. cyclesLeft' + 1 <= cyclesLeft
    <3>1. timerRuns' + reconnectsLeft' <= timerRuns + reconnectsLeft
      BY RenderEditors, ReportPlans
    <3>2. /\ restartWaits \in Int /\ timerRuns \in Int /\ reconnectsLeft \in Int
          /\ timerRuns' \in Int /\ reconnectsLeft' \in Int
      BY <1>0 DEF CyclesType
    <3>3. /\ cyclesLeft = 1 + restartWaits + timerRuns + reconnectsLeft
          /\ cyclesLeft' = 0 + restartWaits + timerRuns' + reconnectsLeft'
      BY <2>1, <2>2 DEF cyclesLeft
    <3> QED BY <3>1, <3>2, <3>3, RunTaken, Zenon
  <2>4. cycleRequests' + MaxConnectAttempts <= cycleRequests
    <3>1. cyclesLeft \in Nat /\ cyclesLeft' \in Nat  BY <1>0, Zenon DEF CyclesType
    <3>2. MaxConnectAttempts \in Nat  BY <1>0
    <3>3. MaxConnectAttempts * cyclesLeft' + MaxConnectAttempts <= MaxConnectAttempts * cyclesLeft
      BY <2>3, <3>1, <3>2, RunRequests, Zenon
    <3> QED BY <3>3 DEF cycleRequests
  <2>5. /\ connecting'.state = "request" /\ connecting'.attempt = 0
        /\ asked' = asked + 1
    BY <1>0, <1>1, <1>2 DEF Render, connectLsp
  <2>6. attemptsLeft' = MaxConnectAttempts - 1  BY <1>0, <2>5 DEF attemptsLeft
  <2>7. asked' + attemptsLeft' + cycleRequests' <= AskedBound'
    <3>1. (asked + 1) + (MaxConnectAttempts - 1) + cycleRequests' <= AskedBound
      BY <1>0, <1>1, <2>4, RunWithin, Zenon
    <3> QED BY <1>0, <2>5, <2>6, <3>1
  <2> QED BY <1>1, <2>5, <2>7 DEF RequestsInv
<1>3. CASE lspCycle # "set"
  <2>1. lspCycle = "run"  BY <1>3 DEF PageType
  <2>2. UNCHANGED <<lspCycle, connecting, asked, pendingRestart>>  BY <1>3, <2>1 DEF Render
  <2>3. cyclesLeft' <= cyclesLeft  BY <2>2, RenderEditors, ReportCycles
  <2>4. attemptsLeft' = attemptsLeft  BY <2>2 DEF attemptsLeft
  <2> QED BY <1>0, <1>1, <2>2, <2>3, <2>4, NothingAsked DEF CyclesType
<1> QED BY <1>2, <1>3

\* A change of the files starts the count again; it leaves what waits, and gives the attempts
\* to reconnect back.
LEMMA UpdateRequests ==
    ASSUME PageType, PageType', UpdateProjectStructure
    PROVE  RequestsInv'
<1>0. CyclesType' /\ AskedBound' = AskedBound
      /\ MaxConnectAttempts \in Nat \ {0} /\ MaxReconnectAttempts \in Nat
  BY StepTypes
<1>1. reconnectTimer' = FALSE /\ reconnectCount' = 0 /\ asked' = 0
  BY DEF UpdateProjectStructure
<1>2. timerRuns' = 0 /\ reconnectsLeft' = MaxReconnectAttempts
  BY <1>0, <1>1 DEF timerRuns, reconnectsLeft
<1>3. cyclesLeft' <= MaxReconnectAttempts + 2 /\ cyclesLeft' \in Nat
  <2>1. cycleSet' \in {0, 1} /\ restartWaits' \in {0, 1} /\ cyclesLeft' \in Nat
    BY <1>0 DEF CyclesType
  <2>2. cyclesLeft' = cycleSet' + restartWaits' + timerRuns' + MaxReconnectAttempts
    BY <1>2 DEF cyclesLeft
  <2> QED BY <1>0, <1>2, <2>1, <2>2, WaitingWithin, Zenon
<1> DEFINE n == MaxReconnectAttempts + 2
<1>4. n \in Nat /\ n + 1 = MaxReconnectAttempts + 3 /\ cyclesLeft' <= n  BY <1>0, <1>3
<1> HIDE DEF n
<1>5. /\ MaxConnectAttempts * cyclesLeft' <= MaxConnectAttempts * n
      /\ MaxConnectAttempts * (n + 1) = MaxConnectAttempts * n + MaxConnectAttempts
      /\ MaxConnectAttempts * n \in Nat
  BY <1>0, <1>3, <1>4, CycleRequests, Zenon
<1>6. cycleRequests' <= MaxConnectAttempts * n  BY <1>5 DEF cycleRequests
<1>7. AskedBound = MaxConnectAttempts * n + MaxConnectAttempts  BY <1>4, <1>5 DEF AskedBound
<1>8. /\ attemptsLeft' \in Nat /\ attemptsLeft' <= MaxConnectAttempts - 1
      /\ cycleRequests' \in Nat
  BY <1>0 DEF CyclesType
<1>9. asked' + attemptsLeft' + cycleRequests' <= AskedBound'
  BY <1>0, <1>1, <1>5, <1>6, <1>7, <1>8
<1> QED BY <1>1, <1>9 DEF RequestsInv

LEMMA RequestsStep == PageType /\ PageType' /\ RequestsInv /\ [Next]_vars => RequestsInv'
<1> SUFFICES ASSUME PageType, PageType', RequestsInv, [Next]_vars PROVE RequestsInv'
  OBVIOUS
<1>0. CyclesType /\ CyclesType' /\ MaxConnectAttempts \in Nat \ {0} /\ MaxReconnectAttempts \in Nat
  BY StepTypes
<1>1. attemptsLeft \in Nat /\ cyclesLeft \in Nat  BY <1>0 DEF CyclesType
<1>2. ASSUME NEW s \in Sessions, SessionCreated(s) PROVE RequestsInv'
  <2>1. attemptsLeft' = 0  BY <1>2 DEF SessionCreated, attemptsLeft, Idle
  <2>2. cyclesLeft' = cyclesLeft /\ UNCHANGED asked  BY <1>2, SameCycles DEF SessionCreated
  <2> QED BY <1>1, <2>1, <2>2, NothingAsked
<1>3. CASE CreateFails
  <2>1. attemptsLeft' <= attemptsLeft
    <3>1. CASE connecting.attempt + 1 < MaxConnectAttempts
      <4>1. /\ connecting.state # "idle" /\ connecting'.state # "idle"
            /\ connecting'.attempt = connecting.attempt
        BY <1>3, <3>1 DEF CreateFails, PageType
      <4>2. attemptsLeft' = attemptsLeft  BY <4>1 DEF attemptsLeft
      <4> QED BY <1>1, <4>2
    <3>2. CASE ~(connecting.attempt + 1 < MaxConnectAttempts)
      <4>1. attemptsLeft' = 0  BY <1>3, <3>2 DEF CreateFails, attemptsLeft, Idle
      <4> QED BY <1>1, <4>1
    <3> QED BY <3>1, <3>2
  <2>2. cyclesLeft' = cyclesLeft /\ UNCHANGED asked  BY <1>3, SameCycles DEF CreateFails
  <2> QED BY <1>1, <2>1, <2>2, NothingAsked
<1>4. CASE ReconnectTimer
  <2>1. attemptsLeft' = attemptsLeft /\ UNCHANGED asked  BY <1>4 DEF ReconnectTimer, attemptsLeft
  <2>2. cycleSet' = 1 /\ timerRuns' = 0 /\ timerRuns = 1
    BY <1>4 DEF ReconnectTimer, cycleSet, timerRuns
  <2>3. restartWaits' = restartWaits /\ reconnectsLeft' = reconnectsLeft
    BY <1>4 DEF ReconnectTimer, restartWaits, reconnectsLeft
  <2>4. cyclesLeft' <= cyclesLeft  BY <1>0, <2>2, <2>3 DEF cyclesLeft, CyclesType
  <2> QED BY <1>1, <2>1, <2>4, NothingAsked
<1>5. CASE Unmount
  <2>1. attemptsLeft' = 0 /\ UNCHANGED asked  BY <1>5 DEF Unmount, attemptsLeft, Idle
  <2>2. cycleSet' = cycleSet /\ restartWaits' = restartWaits /\ reconnectsLeft' = reconnectsLeft
    BY <1>5 DEF Unmount, cycleSet, restartWaits, reconnectsLeft
  <2>3. timerRuns' = 0  BY <1>5 DEF Unmount, timerRuns
  <2>4. cyclesLeft' <= cyclesLeft  BY <1>0, <2>2, <2>3 DEF cyclesLeft, CyclesType
  <2> QED BY <1>1, <2>1, <2>4, NothingAsked
<1>6. ASSUME UNCHANGED <<connecting, asked>>, cyclesLeft' <= cyclesLeft PROVE RequestsInv'
  <2>1. attemptsLeft' = attemptsLeft  BY <1>6 DEF attemptsLeft
  <2> QED BY <1>1, <1>6, <2>1, NothingAsked
<1>7. ASSUME NEW s \in Sessions, Opening(s) \/ Initializing(s) \/ SocketCloses(s) \/ Dispose(s)
      PROVE  RequestsInv'
  <2>1. CASE SocketOpens(s)  BY <1>6, <2>1, ReportCycles DEF SocketOpens, playground
  <2>2. CASE OpenTimeout(s)  BY <1>6, <2>2, ReportCycles DEF OpenTimeout, notifyUnavailable
  <2>3. CASE Initialized(s)  BY <1>6, <2>3, ReportCycles DEF Initialized
  <2>4. CASE InitializeFails(s)  BY <1>6, <2>4, ReportCycles DEF InitializeFails, notifyUnavailable
  <2>5. CASE SocketCloses(s)
    BY <1>6, <2>5, ReportCycles DEF SocketCloses, notifyUnavailable
  <2>6. CASE Dispose(s)  BY <1>6, <2>6, ReportCycles DEF Dispose
  <2> QED BY <1>7, <2>1, <2>2, <2>3, <2>4, <2>5, <2>6 DEF Opening, Initializing
<1>8. CASE CodeEditorLoads
  BY <1>6, <1>8, LoadsEditors, ReportCycles DEF CodeEditorLoads
<1>9. CASE UNCHANGED vars
  <2>1. cyclesLeft' = cyclesLeft /\ UNCHANGED <<connecting, asked>>
    BY <1>9, SameCycles DEF vars, playground
  <2> QED BY <1>1, <1>6, <2>1
<1> QED BY <1>2, <1>3, <1>4, <1>5, <1>7, <1>8, <1>9, RetryRequests, RenderRequests, UpdateRequests
        DEF Next, Answer

\* However connections are lost, refused and retried, between two changes of the files at most
\* MaxConnectAttempts * (MaxReconnectAttempts + 3) sessions are asked for.
THEOREM RequestsAlwaysBounded == Spec => []RequestsBounded
<1>1. Init => RequestsInv
  <2> SUFFICES ASSUME Init PROVE RequestsInv
    OBVIOUS
  <2>1. cyclesLeft = MaxReconnectAttempts /\ attemptsLeft = MaxConnectAttempts - 1 /\ asked = 1
    BY AttemptsAssumption
       DEF Init, cyclesLeft, attemptsLeft, cycleSet, restartWaits, timerRuns, reconnectsLeft
  <2>2. /\ cycleRequests \in Nat
        /\ AskedBound = cycleRequests + 3 * MaxConnectAttempts
    BY <2>1, AttemptsAssumption DEF AskedBound, cycleRequests
  <2> QED BY <2>1, <2>2, AttemptsAssumption DEF RequestsInv
<1>2. PageType /\ RequestsInv => RequestsBounded
  <2> SUFFICES ASSUME PageType, RequestsInv PROVE RequestsBounded
    OBVIOUS
  <2>1. attemptsLeft \in Nat /\ cycleRequests \in Nat
    BY CyclesTypes, AttemptsAssumption DEF CyclesType
  <2>2. AskedBound \in Nat  BY AttemptsAssumption DEF AskedBound
  <2> QED BY <2>1, <2>2 DEF RequestsInv, RequestsBounded
<1> QED BY <1>1, <1>2, RequestsStep, PageTypeInvariant, PTL DEF Spec

=============================================================================
