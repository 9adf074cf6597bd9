---------------------------- MODULE ProjectFiles ----------------------------
(***************************************************************************)
(* The list of files of a project: how the playground changes it           *)
(* (createFile, renameFile and deleteFile of components/playground.tsx),   *)
(* what a visit begins with (lib/client/storage.ts), and what the server   *)
(* accepts (lib/server/validation.ts, packages/contracts).                 *)
(*                                                                         *)
(* A file is its name; what it contains is left out. Names are those that  *)
(* isValidSourceFileName lets pass.                                        *)
(***************************************************************************)
EXTENDS Queues, SequencesExt

CONSTANTS
    Names,
    Lower,              \* toLowerCase, on the names
    SourceFileMaxCount

Main == "main.c"
NoName == ""        \* the currentName that createFile does not give

\* isValidSourceFileName refuses the empty name.
ASSUME NamesAssumption ==
    /\ Main \in Names /\ NoName \notin Names
    /\ Lower \in [Names -> Names]
    /\ Lower[Main] = Main
    /\ SourceFileMaxCount \in Nat \ {0}

VARIABLE project    \* filesRef, in the order of the tabs, and the tab that is shown

DefaultProject == [files |-> <<Main>>, activeFileName |-> Main]

distinct(files) ==
    \A i, j \in DOMAIN files : Lower[files[i]] = Lower[files[j]] => i = j

\* isPersistedProjectFiles, on what localStorage holds.
isPersistedProjectFiles(files) ==
    /\ Len(files) \in 1..SourceFileMaxCount
    /\ distinct(files)
    /\ \E i \in DOMAIN files : Lower[files[i]] = Main

\* loadProject: what was stored, if it is a project, with a tab that exists.
loadProject(stored) ==
    IF isPersistedProjectFiles(stored.files)
    THEN [stored EXCEPT !.activeFileName =
             IF Contains(stored.files, @) THEN @ ELSE Main]
    ELSE DefaultProject

\* What localStorage may hold: anything; a project only as saveProject wrote it, with
\* main.c in this spelling.
Stored ==
    {stored \in [files : SeqOf(Names, SourceFileMaxCount + 1), activeFileName : Names] :
        isPersistedProjectFiles(stored.files) => Contains(stored.files, Main)}

\* Mutant of getFileNameError: letters are compared with their case.
fileNameTaken(files, name, current) ==
    \E i \in DOMAIN files : files[i] # current /\ files[i] = name

\* getFileNameError: another file has the name, in letters of either case.
getFileNameError(files, name, current) ==
    \E i \in DOMAIN files : files[i] # current /\ Lower[files[i]] = Lower[name]

-----------------------------------------------------------------------------
(* The handlers, up to their call of updateProjectStructure.               *)

createFile(name) ==
    /\ Len(project.files) < SourceFileMaxCount
    /\ ~getFileNameError(project.files, name, NoName)
    /\ project' = [files |-> Append(project.files, name), activeFileName |-> name]

renameFile(fileName, name) ==
    /\ fileName # Main
    /\ name # fileName
    /\ ~getFileNameError(project.files, name, fileName)
    /\ project' = [files |-> ReplaceAll(project.files, fileName, name), activeFileName |-> name]

deleteFile(fileName) ==
    /\ fileName # Main
    /\ project' = [files |-> Without(project.files, fileName), activeFileName |-> Main]

\* A tab is renamed and deleted by its name.
ChangeFiles ==
    \/ \E name \in Names : createFile(name)
    \/ \E fileName \in ToSet(project.files) :
          deleteFile(fileName) \/ \E name \in Names : renameFile(fileName, name)

-----------------------------------------------------------------------------
\* validateFiles of the web server, and isValidSourceFiles of the services: their checks
\* of the names.
validateFiles(files) ==
    /\ Len(files) \in 1..SourceFileMaxCount
    /\ distinct(files)
    /\ Main \in {Lower[files[i]] : i \in DOMAIN files}

\* Whatever was stored and however files are created, renamed and deleted, the server
\* finds nothing wrong with the names of the project, main.c is there in the spelling
\* the session's answer is looked up with, and the tab that is shown exists.
ProjectAccepted ==
    /\ validateFiles(project.files)
    /\ Contains(project.files, Main)
    /\ Contains(project.files, project.activeFileName)

=============================================================================
