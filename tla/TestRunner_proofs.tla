-------------------------- MODULE TestRunner_proofs --------------------------
(* A report on disk is complete and survives every failed test, whatever   *)
(* the sizes, the files and the number of commands.                        *)
EXTENDS TestRunner, TLAPS

(* The sizes that have a result in direction d: all that are neither to do *)
(* nor under test, and the one under test once its batch is past d.        *)
Tested(d) ==
  IF d \notin Asked(config.test_type) THEN {}
  ELSE IF pc = "test" /\ config.test_type = "bidirectional" /\ batch = {"upload"}
               /\ d = "download"
  THEN config.payload_sizes \ todo
  ELSE config.payload_sizes \ (todo \cup current)

(* What a client holds before its tests, and while they run. *)
Fresh ==
  /\ pc \in {"idle", "check", "setup"} =>
       result = NoResult /\ latency = FALSE /\ todo = {}
  /\ pc \in {"idle", "check", "setup", "next"} => current = {} /\ batch = {}
  /\ pc \in {"check", "setup", "next", "test"} => config.payload_sizes # {}

Progress ==
  /\ pc \in {"next", "test"} =>
       /\ \A d \in Directions : result[d] = Tested(d)
       /\ latency => config.test_type = "latency-only"
       /\ todo \cup current \subseteq config.payload_sizes
       /\ todo \cap current = {}
       /\ config.test_type = "latency-only" => todo = {}
  /\ pc = "test" =>
       IF config.test_type = "bidirectional" THEN batch \in {{"download"}, {"upload"}}
                                             ELSE batch = Asked(config.test_type)

Exported == pc \in {"create", "write"} => Complete(report)

IInv == TypeOK /\ Fresh /\ Progress /\ Exported /\ ReportIsWhole

LEMMA BlankType ==
  ASSUME NEW s \in {"absent", "empty", "partial"}
  PROVE  Blank(s) \in Contents /\ Blank(s).state = s
<1>1. NoReport \in Reports
  BY DEF NoReport, Reports, NoResult, TestTypes, Directions
<1> QED BY <1>1 DEF Blank, Contents, Formats

(* Nothing is left in memory when a process ends. *)
LEMMA ExitResets ==
  ASSUME NEW early \in BOOLEAN, Exit(early)
  PROVE  /\ pc' = "idle" /\ disturbed' \in BOOLEAN /\ todo' = {} /\ current' = {}
         /\ config' \in [protocol : Protocols, test_type : TestTypes,
                         payload_sizes : SUBSET AllSizes]
         /\ batch' = {} /\ running' = {} /\ failed' = {}
         /\ result' = NoResult /\ result' \in [Directions -> SUBSET AllSizes]
         /\ latency' = FALSE /\ report' \in Reports
         /\ target' \in [file : Files \cup {NoFile}, format : Formats]
<1>1. NoReport \in Reports
  BY DEF NoReport, Reports, NoResult, TestTypes, Directions
<1>2. NoConfig \in [protocol : Protocols, test_type : TestTypes, payload_sizes : SUBSET AllSizes]
  BY DEF NoConfig, Protocols, TestTypes
<1>3. NoTarget \in [file : Files \cup {NoFile}, format : Formats]
  BY DEF NoTarget, Formats
<1>4. NoResult \in [Directions -> SUBSET AllSizes]
  BY DEF NoResult
<1> QED BY <1>1, <1>2, <1>3, <1>4 DEF Exit, Forget

(* A process that ends without touching the disk keeps the invariant. *)
LEMMA ExitKeeps ==
  ASSUME IInv, NEW early \in BOOLEAN, Exit(early), UNCHANGED <<disk, session>>
  PROVE  IInv'
<1>1. TypeOK'
  BY ExitResets DEF IInv, TypeOK, session
<1>2. Fresh' /\ Progress' /\ Exported'
  BY ExitResets DEF Fresh, Progress, Exported
<1>3. ReportIsWhole'
  BY DEF IInv, ReportIsWhole, Complete
<1> QED BY <1>1, <1>2, <1>3 DEF IInv

LEMMA InitIInv == Init => IInv
<1> SUFFICES ASSUME Init PROVE IInv
  OBVIOUS
<1>1. NoReport \in Reports /\ NoResult \in [Directions -> SUBSET AllSizes]
  BY DEF NoReport, Reports, NoResult, TestTypes, Directions
<1>2. NoConfig \in [protocol : Protocols, test_type : TestTypes, payload_sizes : SUBSET AllSizes]
  BY DEF NoConfig, Protocols, TestTypes
<1>3. NoTarget \in [file : Files \cup {NoFile}, format : Formats]
  BY DEF NoTarget, Formats
<1>4. disk \in [Files -> Contents] /\ \A f \in Files : disk[f].state = "absent"
  BY BlankType DEF Init
<1>5. TypeOK
  <2>1. command \in [kind : {"none", "client", "report"}, file : Files \cup {NoFile}]
    BY DEF Init
  <2>2. commands \in 0..MaxCommands
    BY SizeAssumption DEF Init
  <2> QED BY <1>1, <1>2, <1>3, <1>4, <2>1, <2>2 DEF Init, TypeOK
<1>6. Fresh /\ Progress /\ Exported
  BY DEF Init, Fresh, Progress, Exported
<1> QED BY <1>4, <1>5, <1>6 DEF IInv, ReportIsWhole

(* The commands start, and a client prepares. *)
LEMMA StartKeeps == ASSUME IInv, StartClient PROVE IInv'
<1>1. PICK p \in Protocols, t \in TestTypes, s \in SUBSET Sizes, f \in Files \cup {NoFile} :
        /\ config' = [protocol |-> p, test_type |-> t, payload_sizes |-> payload_sizes(s)]
        /\ command' = [kind |-> "client", file |-> f]
  BY DEF StartClient
<1>2. payload_sizes(s) \in SUBSET AllSizes /\ payload_sizes(s) # {}
  BY SizeAssumption DEF payload_sizes, AllSizes
<1>3. NoReport \in Reports
  BY DEF NoReport, Reports, NoResult, TestTypes, Directions
<1>4. TypeOK'
  <2>1. disturbed' \in BOOLEAN
    BY ZenonT(30) DEF StartClient
  <2>2. commands' \in 0..MaxCommands
    BY SizeAssumption DEF IInv, TypeOK, StartClient
  <2>3. /\ config' \in [protocol : Protocols, test_type : TestTypes, payload_sizes : SUBSET AllSizes]
        /\ command' \in [kind : {"none", "client", "report"}, file : Files \cup {NoFile}]
    BY <1>1, <1>2
  <2> QED BY <1>3, <2>1, <2>2, <2>3 DEF IInv, TypeOK, StartClient, export
<1>5. Fresh' /\ Progress' /\ Exported'
  BY <1>1, <1>2 DEF IInv, Fresh, Progress, Exported, StartClient
<1>6. ReportIsWhole'
  BY DEF IInv, ReportIsWhole, Complete, StartClient
<1> QED BY <1>4, <1>5, <1>6 DEF IInv

LEMMA CheckKeeps == ASSUME IInv, CheckExport PROVE IInv'
<1>1. \A f \in Files : disk'[f] = disk[f] \/ disk'[f] = Blank("empty")
  BY DEF CheckExport, can_write
<1>2. disk' \in [Files -> Contents]
  BY BlankType DEF IInv, TypeOK, CheckExport, can_write
<1>3. TypeOK'
  BY <1>2 DEF IInv, TypeOK, CheckExport, client, export, session
<1>4. Fresh' /\ Progress' /\ Exported'
  BY DEF IInv, Fresh, Progress, Exported, CheckExport, client, export
<1>5. ReportIsWhole'
  BY <1>1, BlankType DEF IInv, ReportIsWhole, Complete
<1> QED BY <1>3, <1>4, <1>5 DEF IInv

LEMMA CreateClientKeeps == ASSUME IInv, CreateClient PROVE IInv'
<1>1. TypeOK'
  BY DEF IInv, TypeOK, CreateClient, export, session
<1>2. Fresh' /\ Exported'
  BY DEF IInv, Fresh, Exported, CreateClient
<1>3. Progress'
  <2>1. /\ result = NoResult /\ result' = result /\ config' = config /\ current' = {}
        /\ pc' = "next" /\ latency = FALSE
    BY DEF IInv, Fresh, CreateClient
  <2>2. Asked("latency-only") = {}
    BY DEF Asked, Directions
  <2>3. \A d \in Directions : result'[d] = Tested(d)'
    BY <2>1, <2>2 DEF Tested, CreateClient, NoResult
  <2> QED BY <2>1, <2>3 DEF Progress, CreateClient
<1>4. ReportIsWhole'
  BY DEF IInv, ReportIsWhole, Complete, CreateClient
<1> QED BY <1>1, <1>2, <1>3, <1>4 DEF IInv

(* The tests. *)
LEMMA NextTestKeeps == ASSUME IInv, NextTest PROVE IInv'
<1>1. PICK s \in todo : current' = {s} /\ todo' = todo \ {s}
  BY DEF NextTest
<1>2. config.test_type \in TestTypes \ {"latency-only"} /\ config' = config
  BY <1>1 DEF IInv, TypeOK, Progress, NextTest
<1>3. batch' \subseteq Directions /\ running' = batch' /\ failed' \subseteq batch'
  <2>1. failed = {}
    BY DEF IInv, TypeOK, Fresh, NextTest
  <2> QED BY <2>1, <1>2 DEF NextTest, Asked, Directions, TestTypes
<1>4. TypeOK'
  BY <1>1, <1>3 DEF IInv, TypeOK, NextTest, export, session
<1>5. Fresh' /\ Exported'
  BY DEF IInv, Fresh, Exported, NextTest
<1>6. Progress'
  BY <1>1, <1>2, <1>3 DEF IInv, Fresh, Progress, NextTest, Tested, Asked, Directions, TestTypes
<1>7. ReportIsWhole'
  BY DEF IInv, ReportIsWhole, Complete, NextTest
<1> QED BY <1>4, <1>5, <1>6, <1>7 DEF IInv

(* What `result` is once the batch is in. *)
LEMMA BatchKeeps ==
  ASSUME IInv, pc = "test", failed = {}, BatchDone, UNCHANGED <<disk, session>>
  PROVE  IInv'
<1>1. \A d \in Directions : result'[d] = IF d \in batch THEN result[d] \cup current ELSE result[d]
  BY DEF BatchDone
<1>2. result' \in [Directions -> SUBSET AllSizes]
  BY DEF IInv, TypeOK, BatchDone
<1>3. TypeOK'
  BY <1>2 DEF IInv, TypeOK, BatchDone, export, session, Directions
<1>4. Fresh' /\ Exported'
  BY DEF IInv, Fresh, Exported, BatchDone
<1>5. \A d \in Directions : result[d] = Tested(d)
  BY DEF IInv, Progress
<1>6. config' = config /\ todo' = todo /\ latency' = latency
  BY DEF BatchDone
<1>7. CASE config.test_type = "bidirectional" /\ batch = {"download"}
  <2>1. pc' = "test" /\ batch' = {"upload"} /\ current' = current
    BY <1>7 DEF BatchDone
  <2>2. \A d \in Directions : result'[d] = Tested(d)'
    BY <1>1, <1>5, <1>6, <1>7, <2>1 DEF IInv, Progress, Tested, Asked, Directions
  <2> QED BY <1>6, <1>7, <2>1, <2>2, <1>3, <1>4 DEF IInv, Progress, ReportIsWhole, Complete
<1>8. CASE ~(config.test_type = "bidirectional" /\ batch = {"download"})
  <2>1. pc' = "next" /\ batch' = {} /\ current' = {}
    BY <1>8 DEF BatchDone
  <2>2. \A d \in Directions : result'[d] = Tested(d)'
    BY <1>1, <1>5, <1>6, <1>8, <2>1 DEF IInv, Progress, Tested, Asked, Directions
  <2> QED BY <1>6, <2>1, <2>2, <1>3, <1>4 DEF IInv, Progress, ReportIsWhole, Complete
<1> QED BY <1>7, <1>8

LEMMA TestReturnsKeeps == ASSUME IInv, TestReturns PROVE IInv'
<1>1. PICK d \in running :
        IF running # {d}
        THEN running' = running \ {d}
             /\ UNCHANGED <<pc, config, todo, current, batch, failed, result, latency, export, disturbed>>
        ELSE IF failed # {} THEN Exit(TRUE) ELSE BatchDone
  BY DEF TestReturns
<1>2. CASE running # {d}
  BY <1>1, <1>2 DEF IInv, TypeOK, Fresh, Progress, Tested, Exported, ReportIsWhole, Complete,
                    TestReturns, export, session
<1>3. CASE running = {d}
  BY <1>1, <1>3, ExitKeeps, BatchKeeps DEF TestReturns
<1> QED BY <1>2, <1>3

LEMMA TestFailsKeeps == ASSUME IInv, TestFails PROVE IInv'
<1>1. PICK d \in running :
        IF running # {d}
        THEN running' = running \ {d} /\ failed' = failed \cup {d}
             /\ UNCHANGED <<pc, config, todo, current, batch, result, latency, export, disturbed>>
        ELSE Exit(TRUE)
  BY DEF TestFails
<1>2. CASE running # {d}
  BY <1>1, <1>2 DEF IInv, TypeOK, Fresh, Progress, Tested, Exported, ReportIsWhole, Complete,
                    TestFails, export, session
<1>3. CASE running = {d}
  BY <1>1, <1>3, ExitKeeps DEF TestFails
<1> QED BY <1>2, <1>3

(* A client that exports has no size left, so its report is complete. *)
LEMMA TestsDoneKeeps == ASSUME IInv, TestsDone PROVE IInv'
<1>1. CASE command.file = NoFile
  BY <1>1, ExitKeeps DEF TestsDone
<1>2. CASE command.file # NoFile
  <2>1. PICK failures \in BOOLEAN :
          report' = [test_type |-> config.test_type,
                     payload_sizes |-> config.payload_sizes,
                     result |-> result, latency |-> latency, failures |-> failures]
    BY <1>2 DEF TestsDone
  <2> DEFINE made == [test_type |-> config.test_type, payload_sizes |-> config.payload_sizes,
                      result |-> result, latency |-> latency, failures |-> failures]
  <2>2. report' = made /\ pc' = "create" /\ Forget /\ UNCHANGED <<disk, session, disturbed>>
    BY <1>2, <2>1 DEF TestsDone
  <2>3. /\ config' = NoConfig /\ todo' = {} /\ current' = {} /\ batch' = {}
        /\ running' = {} /\ failed' = {} /\ result' = NoResult /\ latency' = FALSE
        /\ NoConfig \in [protocol : Protocols, test_type : TestTypes,
                         payload_sizes : SUBSET AllSizes]
        /\ NoResult \in [Directions -> SUBSET AllSizes]
    BY <2>2 DEF Forget, NoConfig, NoResult, Protocols, TestTypes
  <2>4. made \in Reports
    BY DEF IInv, TypeOK, Reports
  <2>5. Complete(made)
    BY DEF IInv, Fresh, Progress, Tested, Complete, TestsDone
  <2>6. target' \in [file : Files, format : Formats]
    BY <1>2 DEF IInv, TypeOK, TestsDone, ExportFormat, Formats
  <2> HIDE DEF made
  <2>7. TypeOK'
    BY <2>4, <2>6, <2>2, <2>3 DEF IInv, TypeOK, session
  <2>8. Fresh' /\ Progress' /\ Exported'
    BY <2>5, <2>2, <2>3 DEF Fresh, Progress, Exported, Complete
  <2> QED BY <2>7, <2>8, <2>2 DEF IInv, ReportIsWhole, Complete
<1> QED BY <1>1, <1>2

(* The files. *)
LEMMA CreateFileKeeps == ASSUME IInv, CreateFile \/ WritePart PROVE IInv'
<1>1. PICK s \in {"empty", "partial"} : disk' = [disk EXCEPT ![target.file] = Blank(s)]
  BY DEF CreateFile, WritePart
<1>2. pc \in {"create", "write"} /\ pc' = "write" /\ UNCHANGED <<client, export, session, disturbed>>
  BY DEF CreateFile, WritePart
<1>3. target.file \in Files /\ disk' \in [Files -> Contents]
  BY <1>1, <1>2, BlankType DEF IInv, TypeOK
<1>4. \A f \in Files : disk'[f] = disk[f] \/ disk'[f].state # "whole"
  BY <1>1, <1>3, BlankType DEF IInv, TypeOK
<1>5. TypeOK'
  BY <1>2, <1>3 DEF IInv, TypeOK, client, export, session
<1>6. Fresh' /\ Progress' /\ Exported'
  BY <1>2 DEF IInv, Fresh, Progress, Exported, Complete, client, export
<1>7. ReportIsWhole'
  BY <1>4 DEF IInv, ReportIsWhole, Complete
<1> QED BY <1>5, <1>6, <1>7 DEF IInv

LEMMA WriteRestKeeps == ASSUME IInv, WriteRest PROVE IInv'
<1> DEFINE whole == [state |-> "whole", format |-> target.format, report |-> report]
<1>1. whole \in Contents /\ target.file \in Files /\ Complete(report)
  BY DEF IInv, TypeOK, Contents, WriteRest, Exported
<1>2. disk' = [disk EXCEPT ![target.file] = whole] /\ disk' \in [Files -> Contents]
  BY <1>1 DEF WriteRest, IInv, TypeOK
<1>3. \A f \in Files : disk'[f] = disk[f] \/ disk'[f].report = report
  BY <1>1, <1>2 DEF IInv, TypeOK
<1> HIDE DEF whole
<1>4. TypeOK'
  BY <1>2, ExitResets DEF IInv, TypeOK, WriteRest, session
<1>5. Fresh' /\ Progress' /\ Exported'
  BY ExitResets DEF Fresh, Progress, Exported, WriteRest
<1>6. ReportIsWhole'
  BY <1>1, <1>3 DEF IInv, ReportIsWhole, Complete
<1> QED BY <1>4, <1>5, <1>6 DEF IInv

(* A report that is read is whole, so what is made of it is. *)
LEMMA ReportCommandKeeps == ASSUME IInv, ReportCommand PROVE IInv'
<1>1. PICK f \in Files, html \in Files \cup {NoFile} :
       /\ command' = [kind |-> "report", file |-> f]
       /\ loaded' = IF Importable(f) THEN disk[f].report ELSE NoReport
       /\ IF Importable(f) /\ html # NoFile /\ extension[f] \in {"json", "cbor"}
          THEN /\ report' = disk[f].report
               /\ target' = [file |-> html, format |-> "html"]
               /\ pc' = "create"
          ELSE UNCHANGED <<pc, export>>
  BY DEF ReportCommand
<1>2. disk[f].report \in Reports /\ NoReport \in Reports
  BY DEF IInv, TypeOK, Contents, NoReport, Reports, NoResult, TestTypes, Directions
<1>3. pc = "idle" /\ UNCHANGED <<disk, client>> /\ commands' \in 0..MaxCommands
      /\ disturbed' \in BOOLEAN
  <2>1. disturbed' \in BOOLEAN
    BY ZenonT(30) DEF ReportCommand
  <2> QED BY <2>1, SizeAssumption DEF ReportCommand, IInv, TypeOK
<1>4. Importable(f) => Complete(disk[f].report)
  BY DEF Importable, IInv, ReportIsWhole
<1>5. CASE Importable(f) /\ html # NoFile /\ extension[f] \in {"json", "cbor"}
  <2>1. TypeOK'
    BY <1>1, <1>2, <1>3, <1>5 DEF IInv, TypeOK, client, Formats
  <2>2. Fresh' /\ Progress' /\ Exported'
    BY <1>1, <1>3, <1>4, <1>5 DEF Fresh, Progress, Exported, Complete
  <2> QED BY <1>3, <2>1, <2>2 DEF IInv, ReportIsWhole, Complete
<1>6. CASE ~(Importable(f) /\ html # NoFile /\ extension[f] \in {"json", "cbor"})
  <2>1. TypeOK'
    BY <1>1, <1>2, <1>3, <1>6 DEF IInv, TypeOK, client, export
  <2>2. Fresh' /\ Progress' /\ Exported'
    BY <1>1, <1>3, <1>6 DEF IInv, Fresh, Progress, Exported, client
  <2> QED BY <1>3, <2>1, <2>2 DEF IInv, ReportIsWhole, Complete
<1> QED BY <1>5, <1>6

LEMMA StepKeeps == IInv /\ [Next]_vars => IInv'
<1> SUFFICES ASSUME IInv, [Next]_vars PROVE IInv'
  OBVIOUS
<1>1. CASE StartClient
  BY <1>1, StartKeeps
<1>2. CASE CheckExport
  BY <1>2, CheckKeeps
<1>3. CASE CheckFails \/ CreateClientFails \/ SerialiseFails \/ ExportFails \/ Kill
  BY <1>3, ExitKeeps DEF CheckFails, CreateClientFails, SerialiseFails, ExportFails, Kill
<1>4. CASE CreateClient
  BY <1>4, CreateClientKeeps
<1>5. CASE NextTest
  BY <1>5, NextTestKeeps
<1>6. CASE TestReturns
  BY <1>6, TestReturnsKeeps
<1>7. CASE TestFails
  BY <1>7, TestFailsKeeps
<1>8. CASE TestsDone
  BY <1>8, TestsDoneKeeps
<1>9. CASE CreateFile \/ WritePart
  BY <1>9, CreateFileKeeps
<1>10. CASE WriteRest
  BY <1>10, WriteRestKeeps
<1>11. CASE ReportCommand
  BY <1>11, ReportCommandKeeps
<1>12. CASE UNCHANGED vars
  BY <1>12 DEF vars, client, export, session, IInv, TypeOK, Fresh, Progress, Tested, Exported,
               ReportIsWhole, Complete
<1> QED BY <1>1, <1>2, <1>3, <1>4, <1>5, <1>6, <1>7, <1>8, <1>9, <1>10, <1>11, <1>12 DEF Next

LEMMA Invariance == Spec => []IInv
<1> QED BY InitIInv, StepKeeps, PTL DEF Spec

(* Type correctness of the commands and their files. *)
THEOREM TypeCorrect == Spec => []TypeOK
<1>1. IInv => TypeOK
  BY DEF IInv
<1> QED BY Invariance, <1>1, PTL

(* No failed test, failed write or kill leaves a report on disk that lacks *)
(* the results of some of its tests.                                       *)
THEOREM ReportsAreWhole == Spec => []ReportIsWhole
<1>1. IInv => ReportIsWhole
  BY DEF IInv
<1> QED BY Invariance, <1>1, PTL

(* An earlier report is touched only by a command that holds a complete    *)
(* new one: the check of the path before the tests creates a file and      *)
(* changes none.                                                           *)
THEOREM OldReportsSurvive == Spec => OldReportSurvives
<1> DEFINE Step == \A f \in Files :
                     disk[f].state = "whole" /\ disk'[f] # disk[f] => Complete(report)
<1>1. IInv /\ [Next]_vars => [Step]_vars
  <2> SUFFICES ASSUME IInv, Next, NEW f \in Files, disk[f].state = "whole", disk'[f] # disk[f]
               PROVE  Complete(report)
    OBVIOUS
  <2>1. CASE CheckExport
    BY <2>1 DEF CheckExport, can_write
  <2>2. CASE CreateFile \/ WritePart \/ WriteRest
    BY <2>2 DEF CreateFile, WritePart, WriteRest, IInv, Exported
  <2>3. CASE disk' = disk
    BY <2>3
  <2> QED
    BY <2>1, <2>2, <2>3 DEF Next, StartClient, CheckFails, CreateClient, CreateClientFails,
       NextTest, TestReturns, TestFails, TestsDone, SerialiseFails, ExportFails, Kill,
       ReportCommand
<1> QED BY Invariance, <1>1, PTL DEF Spec, OldReportSurvives

(* A file holds what its extension says, or HTML that `report` has written *)
(* over it; a `report` command writes nothing but HTML.                    *)
FormatsFit ==
  /\ \A f \in Files : disk[f].state = "whole" => disk[f].format \in {ExportFormat(f), "html"}
  /\ pc \in {"create", "write"} => target.format \in {ExportFormat(target.file), "html"}
  /\ command.kind = "report" =>
       /\ command.file \in Files
       /\ pc \in {"idle", "create", "write"}
       /\ pc \in {"create", "write"} => target.format = "html"
  /\ ReadBack

LEMMA FormatsStep == TypeOK /\ FormatsFit /\ [Next]_vars => FormatsFit'
<1> SUFFICES ASSUME TypeOK, FormatsFit, [Next]_vars PROVE FormatsFit'
  OBVIOUS
<1>1. CASE disk' = disk /\ UNCHANGED <<command, loaded, target>> /\ pc' = pc
  BY <1>1 DEF FormatsFit, ReadBack
<1>2. CASE pc' = "idle" /\ disk' = disk /\ UNCHANGED session
  BY <1>2 DEF FormatsFit, ReadBack, session
<1>3. CASE StartClient
  BY <1>3 DEF StartClient, FormatsFit, ReadBack, export
<1>4. CASE CheckExport
  <2>1. command.kind # "report" /\ pc' = "setup" /\ command' = command
    BY <1>4 DEF CheckExport, FormatsFit, session
  <2>2. \A f \in Files : disk'[f] = disk[f] \/ disk'[f].state = "empty"
    BY <1>4, BlankType DEF CheckExport, can_write
  <2>3. loaded' = loaded /\ target' = target
    BY <1>4 DEF CheckExport, export, session
  <2> QED BY <2>1, <2>2, <2>3 DEF FormatsFit, ReadBack
<1>5. CASE CreateClient \/ NextTest
  BY <1>5 DEF CreateClient, NextTest, FormatsFit, ReadBack, session
<1>6. CASE pc = "test" /\ BatchDone /\ UNCHANGED <<disk, session>>
  BY <1>6 DEF BatchDone, FormatsFit, ReadBack, session
<1>7. CASE TestsDone /\ command.file # NoFile
  BY <1>7 DEF TestsDone, FormatsFit, ReadBack, session
<1>8. CASE CreateFile \/ WritePart
  <2>1. PICK s \in {"empty", "partial"} : disk' = [disk EXCEPT ![target.file] = Blank(s)]
    BY <1>8 DEF CreateFile, WritePart
  <2>2. \A f \in Files : disk'[f] = disk[f] \/ disk'[f].state # "whole"
    BY <2>1, BlankType DEF TypeOK
  <2>3. pc \in {"create", "write"} /\ pc' = "write" /\ UNCHANGED <<command, loaded, target>>
    BY <1>8 DEF CreateFile, WritePart, export, session
  <2>4. ReadBack'
    BY <2>2, <2>3 DEF FormatsFit, ReadBack, TypeOK
  <2> QED BY <2>2, <2>3, <2>4 DEF FormatsFit
<1>9. CASE WriteRest
  <2> DEFINE whole == [state |-> "whole", format |-> target.format, report |-> report]
  <2>1. target.file \in Files /\ disk' = [disk EXCEPT ![target.file] = whole]
    BY <1>9 DEF WriteRest, TypeOK
  <2>2. \A f \in Files : disk'[f] = IF f = target.file THEN whole ELSE disk[f]
    BY <2>1 DEF TypeOK
  <2>3. pc = "write" /\ pc' = "idle" /\ UNCHANGED <<command, loaded>>
    BY <1>9 DEF WriteRest, Exit, session
  <2>4. ReadBack'
    BY <2>2, <2>3 DEF FormatsFit, ReadBack, TypeOK
  <2> QED BY <2>1, <2>2, <2>3, <2>4 DEF FormatsFit
<1>10. CASE ReportCommand
  <2>1. PICK f \in Files, html \in Files \cup {NoFile} :
         /\ command' = [kind |-> "report", file |-> f]
         /\ loaded' = IF Importable(f) THEN disk[f].report ELSE NoReport
         /\ IF Importable(f) /\ html # NoFile /\ extension[f] \in {"json", "cbor"}
            THEN /\ report' = disk[f].report
                 /\ target' = [file |-> html, format |-> "html"]
                 /\ pc' = "create"
            ELSE UNCHANGED <<pc, export>>
    BY <1>10 DEF ReportCommand
  <2>2. pc = "idle" /\ disk' = disk /\ extension[f] \in Extensions
    BY <1>10, FileAssumption DEF ReportCommand
  <2>3. extension[f] # "none" /\ disk[f].state = "whole" /\ disk[f].format # "html"
          => Importable(f)
    BY <2>2 DEF FormatsFit, Importable, ImportFormat, ExportFormat, Extensions, Formats
  <2>4. ReadBack'
    BY <2>1, <2>2, <2>3 DEF ReadBack
  <2> QED BY <2>1, <2>2, <2>4 DEF FormatsFit, export
<1>11. CASE UNCHANGED vars
  BY <1>11, <1>1 DEF vars, export, session
<1>12. CASE CheckFails \/ CreateClientFails \/ SerialiseFails \/ ExportFails \/ Kill
  BY <1>12, <1>2 DEF CheckFails, CreateClientFails, SerialiseFails, ExportFails, Kill, Exit
<1>13. CASE TestReturns
  BY <1>13, <1>1, <1>2, <1>6 DEF TestReturns, export, session, Exit
<1>14. CASE TestFails
  BY <1>14, <1>1, <1>2 DEF TestFails, export, session, Exit
<1>15. CASE TestsDone
  BY <1>15, <1>2, <1>7 DEF TestsDone, Exit
<1> QED
  BY <1>3, <1>4, <1>5, <1>8, <1>9, <1>10, <1>11, <1>12, <1>13, <1>14, <1>15 DEF Next

(* For every set of files, `report` reads back what `client` exported,     *)
(* unless the file has no extension or was overwritten with HTML.          *)
THEOREM ReportsAreReadBack == Spec => []ReadBack
<1>1. Init => FormatsFit
  BY BlankType DEF Init, FormatsFit, ReadBack
<1>2. FormatsFit => ReadBack
  BY DEF FormatsFit
<1> QED BY TypeCorrect, <1>1, <1>2, FormatsStep, PTL DEF Spec
=============================================================================
