------------------------------ MODULE TestRunner ------------------------------
(***************************************************************************)
(* The commands `client` and `report`, run one after another: the order of *)
(* the tests of a configuration, what a failed test does to the results of *)
(* the others, and the files that reports are exported to and read from.   *)
(* A command may be killed at any point, a file operation may fail at any  *)
(* point.  Of what a test measures only this is kept: are there            *)
(* measurements that failed?                                               *)
(*                                                                         *)
(* The three clients dispatch their tests in the same way.  They differ in *)
(* what can fail: a UDP test returns an error when its socket cannot be    *)
(* set up or the command cannot be sent, the HTTP client may fail to be    *)
(* built, the TCP client has nothing that fails.  The sizes of a test are  *)
(* a set: the order in which they are taken shows in the output only.      *)
(***************************************************************************)
EXTENDS Naturals

CONSTANTS
  Sizes,         \* payload sizes `--sizes` may name
  DefaultSizes,  \* DEFAULT_*_PAYLOAD_SIZES
  Files,         \* paths given to `--export`, `--file`, `--export-html`
  extension,     \* of each file; "other" is an unknown one
  NoFile,        \* the option is absent
  MaxCommands    \* bound: commands that are run

Extensions == {"json", "cbor", "html", "other", "none"}

ASSUME FileAssumption == /\ extension \in [Files -> Extensions]
                         /\ NoFile \notin Files

ASSUME SizeAssumption == DefaultSizes # {} /\ MaxCommands \in Nat

VARIABLES
  disk,      \* what each file holds
  pc,        \* "idle", "check", "setup", "next", "test", "create" or "write"
  command,   \* the command that runs or ran last: its kind and its file
  config,    \* protocol, test_type and payload_sizes of a client
  todo,      \* sizes not yet tested
  current,   \* {payload_size} while its tests run
  batch,     \* the tests awaited together
  running,   \* those that have not returned
  failed,    \* those that have returned an error
  result,    \* NetworkTestResult: the sizes with a result, by direction
  latency,   \* is there a LatencyResult?
  report,    \* the report being exported
  target,    \* the file it is exported to, and its format
  loaded,    \* the report that a `report` command has read
  commands,  \* commands started
  disturbed  \* history: the last command was killed, or a test, its
             \* set-up or a file operation failed

client  == <<config, todo, current, batch, running, failed, result, latency>>
export  == <<report, target>>
session == <<command, loaded, commands>>
vars    == <<disk, pc, client, export, session, disturbed>>

Directions == {"download", "upload"}
Protocols  == {"tcp", "udp", "http"}
TestTypes  == {"download", "upload", "bidirectional", "simultaneous", "latency-only"}
Formats    == {"json", "cbor", "html"}

(* The directions a test type asks for. *)
Asked(t) == {d \in Directions : t \in {d, "bidirectional", "simultaneous"}}

AllSizes == Sizes \cup DefaultSizes

(* `failures`: does a result hold a ThroughputMeasurement::Failure? *)
Reports == [test_type : TestTypes, payload_sizes : SUBSET AllSizes,
            result : [Directions -> SUBSET AllSizes], latency : BOOLEAN,
            failures : BOOLEAN]

NoResult == [d \in Directions |-> {}]
NoReport == [test_type |-> "latency-only", payload_sizes |-> {},
             result |-> NoResult, latency |-> FALSE, failures |-> FALSE]
NoConfig == [protocol |-> "tcp", test_type |-> "latency-only", payload_sizes |-> {}]
NoTarget == [file |-> NoFile, format |-> "json"]

Contents == [state : {"absent", "empty", "partial", "whole"},
             format : Formats, report : Reports]

Blank(state) == [state |-> state, format |-> "json", report |-> NoReport]

(* What a process holds in memory when it starts, and loses when it ends.  *)
Init ==
  /\ disk = [f \in Files |-> Blank("absent")]
  /\ pc = "idle" /\ command = [kind |-> "none", file |-> NoFile]
  /\ config = NoConfig /\ todo = {} /\ current = {}
  /\ batch = {} /\ running = {} /\ failed = {}
  /\ result = NoResult /\ latency = FALSE
  /\ report = NoReport /\ target = NoTarget
  /\ loaded = NoReport /\ commands = 0 /\ disturbed = FALSE

(* The client's memory is empty. *)
Forget ==
  /\ config' = NoConfig /\ todo' = {} /\ current' = {}
  /\ batch' = {} /\ running' = {} /\ failed' = {}
  /\ result' = NoResult /\ latency' = FALSE

(* The process ends, perhaps because something disturbed it. *)
Exit(early) ==
  /\ pc' = "idle" /\ Forget
  /\ report' = NoReport /\ target' = NoTarget
  /\ disturbed' = early

(***************************************************************************)
(* The client command.                                                     *)
(***************************************************************************)
(* The sizes of the test: those given, each once, or the defaults. *)
payload_sizes(test_sizes) == IF test_sizes = {} THEN DefaultSizes ELSE test_sizes

StartClient ==
  /\ pc = "idle" /\ commands < MaxCommands /\ commands' = commands + 1
  /\ \E p \in Protocols, t \in TestTypes, s \in SUBSET Sizes, f \in Files \cup {NoFile} :
       /\ config' = [protocol |-> p, test_type |-> t, payload_sizes |-> payload_sizes(s)]
       /\ command' = [kind |-> "client", file |-> f]
  /\ pc' = "check" /\ loaded' = NoReport /\ disturbed' = FALSE
  /\ UNCHANGED <<disk, todo, current, batch, running, failed, result, latency, export>>

(* Mutant: opened with truncate(true). *)
can_write_truncate(contents) == Blank("empty")

(* The file is created when absent and otherwise left as it is. *)
can_write(contents) ==
  IF contents.state = "absent" THEN Blank("empty") ELSE contents

(* main checks that the export file can be written before any test runs. *)
CheckExport ==
  /\ pc = "check" /\ pc' = "setup"
  /\ disk' = [f \in Files |-> IF f = command.file THEN can_write(disk[f]) ELSE disk[f]]
  /\ UNCHANGED <<client, export, session, disturbed>>

CheckFails ==
  /\ pc = "check" /\ command.file # NoFile
  /\ Exit(TRUE)
  /\ UNCHANGED <<disk, session>>

(* The HTTP client is built once for all tests. *)
CreateClient ==
  /\ pc = "setup"
  /\ todo' = IF config.test_type = "latency-only" THEN {} ELSE config.payload_sizes
  /\ IF config.test_type = "latency-only"
     THEN \E some \in BOOLEAN : latency' = some
     ELSE UNCHANGED latency
  /\ pc' = "next"
  /\ UNCHANGED <<disk, config, current, batch, running, failed, result, export, session,
                 disturbed>>

CreateClientFails ==
  /\ pc = "setup" /\ config.protocol = "http"
  /\ Exit(TRUE)
  /\ UNCHANGED <<disk, session>>

(***************************************************************************)
(* The tests, one payload size after another: one direction, a download    *)
(* and then an upload, or both at once.                                    *)
(***************************************************************************)
NextTest ==
  /\ pc = "next"
  /\ \E s \in todo : current' = {s} /\ todo' = todo \ {s}
  /\ batch' = IF config.test_type = "bidirectional" THEN {"download"}
                                                     ELSE Asked(config.test_type)
  /\ running' = batch'
  /\ pc' = "test"
  /\ UNCHANGED <<disk, config, failed, result, latency, export, session, disturbed>>

(* Mutant: a size counts as tested once its first test has returned. *)
BatchDoneEarly ==
  /\ result' = [d \in Directions |-> IF d \in batch THEN result[d] \cup current ELSE result[d]]
  /\ pc' = "next" /\ batch' = {} /\ running' = {} /\ current' = {}
  /\ UNCHANGED <<config, todo, failed, latency, export, disturbed>>

(* Each result of the batch is inserted; a bidirectional test goes on with *)
(* the upload of the same size.                                            *)
BatchDone ==
  /\ result' = [d \in Directions |-> IF d \in batch THEN result[d] \cup current ELSE result[d]]
  /\ IF config.test_type = "bidirectional" /\ batch = {"download"}
     THEN pc' = "test" /\ batch' = {"upload"} /\ running' = {"upload"} /\ UNCHANGED current
     ELSE pc' = "next" /\ batch' = {} /\ running' = {} /\ current' = {}
  /\ UNCHANGED <<config, todo, failed, latency, export, disturbed>>

(* A test returns.  The last of the batch decides: `?` on a failed one     *)
(* leaves the client and drops what was measured before.                   *)
TestReturns ==
  /\ pc = "test"
  /\ \E d \in running :
       IF running # {d}
       THEN running' = running \ {d}
            /\ UNCHANGED <<pc, config, todo, current, batch, failed, result, latency, export, disturbed>>
       ELSE IF failed # {} THEN Exit(TRUE) ELSE BatchDone
  /\ UNCHANGED <<disk, session>>

(* A UDP test fails.  join! waits for the other one all the same. *)
TestFails ==
  /\ pc = "test" /\ config.protocol = "udp"
  /\ \E d \in running :
       IF running # {d}
       THEN running' = running \ {d} /\ failed' = failed \cup {d}
            /\ UNCHANGED <<pc, config, todo, current, batch, result, latency, export, disturbed>>
       ELSE Exit(TRUE)
  /\ UNCHANGED <<disk, session>>

(***************************************************************************)
(* Export.  The exporters for JSON, CBOR and HTML are alike: they create   *)
(* the file, serialise the report in memory, write it and flush.  An error *)
(* is printed, and the command ends with success.                          *)
(***************************************************************************)
(* Mutant: an unknown extension has no format. *)
ExportFormatUnknown(f) == extension[f]

ExportFormat(f) == IF extension[f] \in Formats THEN extension[f] ELSE "json"

(* All tests are done: the report is made, printed, and exported if asked. *)
(* A throughput test may have measurements that failed: nothing of what    *)
(* the tests do depends on it, so it is chosen here for all of them.       *)
TestsDone ==
  /\ pc = "next" /\ todo = {}
  /\ IF command.file = NoFile
     THEN Exit(FALSE)
     ELSE /\ \E failures \in BOOLEAN :
               /\ failures => result # NoResult
               /\ report' = [test_type |-> config.test_type,
                             payload_sizes |-> config.payload_sizes,
                             result |-> result, latency |-> latency, failures |-> failures]
          /\ target' = [file |-> command.file, format |-> ExportFormat(command.file)]
          /\ pc' = "create"
          /\ Forget /\ UNCHANGED disturbed
  /\ UNCHANGED <<disk, session>>

(* File::create truncates, before anything is known of the report. *)
CreateFile ==
  /\ pc = "create" /\ pc' = "write"
  /\ disk' = [disk EXCEPT ![target.file] = Blank("empty")]
  /\ UNCHANGED <<client, export, session, disturbed>>

(* ConnectionError is an internally tagged enum of String variants, which  *)
(* serde cannot serialise: to_string_pretty and into_writer return an      *)
(* error for every report with a failed measurement.  HTML is not made by  *)
(* serde.                                                                  *)
Serialisable(r, format) == format = "html" \/ ~r.failures

SerialiseFails ==
  /\ pc = "write" /\ ~Serialisable(report, target.format)
  /\ Exit(FALSE)
  /\ UNCHANGED <<disk, session>>

(* write_all and flush, of which any part may reach the file first. *)
WritePart ==
  /\ pc = "write" /\ Serialisable(report, target.format)
  /\ disk' = [disk EXCEPT ![target.file] = Blank("partial")]
  /\ UNCHANGED <<pc, client, export, session, disturbed>>

WriteRest ==
  /\ pc = "write" /\ Serialisable(report, target.format)
  /\ disk' = [disk EXCEPT ![target.file] =
                [state |-> "whole", format |-> target.format, report |-> report]]
  /\ Exit(FALSE)
  /\ UNCHANGED session

(* The file cannot be created, written or flushed. *)
ExportFails ==
  /\ pc \in {"create", "write"}
  /\ Exit(TRUE)
  /\ UNCHANGED <<disk, session>>

(* The process is killed; its memory is lost and the disk stays. *)
Kill ==
  /\ pc # "idle"
  /\ Exit(TRUE)
  /\ UNCHANGED <<disk, session>>

(***************************************************************************)
(* The report command.                                                     *)
(***************************************************************************)
(* Mutant: an unknown extension is read as CBOR. *)
ImportFormatCbor(f) == IF extension[f] = "other" THEN "cbor" ELSE extension[f]

(* An unknown extension is taken for JSON.  A report with the extension    *)
(* html, or with none, is refused: no format is tried.                     *)
ImportFormat(f) == IF extension[f] = "other" THEN "json" ELSE extension[f]

(* The parser accepts a whole report of its own format. *)
Importable(f) ==
  /\ extension[f] \notin {"html", "none"}
  /\ disk[f].state = "whole" /\ disk[f].format = ImportFormat(f)

(* The file is read and printed, or exported as HTML when that was asked   *)
(* and the extension is a known one.                                       *)
ReportCommand ==
  /\ pc = "idle" /\ commands < MaxCommands /\ commands' = commands + 1
  /\ \E f \in Files, html \in Files \cup {NoFile} :
       /\ command' = [kind |-> "report", file |-> f]
       /\ loaded' = IF Importable(f) THEN disk[f].report ELSE NoReport
       /\ IF Importable(f) /\ html # NoFile /\ extension[f] \in {"json", "cbor"}
          THEN /\ report' = disk[f].report
               /\ target' = [file |-> html, format |-> "html"]
               /\ pc' = "create"
          ELSE UNCHANGED <<pc, export>>
  /\ disturbed' = FALSE
  /\ UNCHANGED <<disk, client>>

Next ==
  \/ StartClient \/ CheckExport \/ CheckFails \/ CreateClient \/ CreateClientFails
  \/ NextTest \/ TestReturns \/ TestFails \/ TestsDone
  \/ CreateFile \/ SerialiseFails \/ WritePart \/ WriteRest \/ ExportFails \/ Kill
  \/ ReportCommand

Spec == Init /\ [][Next]_vars

(***************************************************************************)
(* Properties.                                                             *)
(***************************************************************************)
(* Every variable stays in its range; a command that exports has a target. *)
TypeOK ==
  /\ disk \in [Files -> Contents]
  /\ pc \in {"idle", "check", "setup", "next", "test", "create", "write"}
  /\ command \in [kind : {"none", "client", "report"}, file : Files \cup {NoFile}]
  /\ config \in [protocol : Protocols, test_type : TestTypes,
                 payload_sizes : SUBSET AllSizes]
  /\ todo \subseteq AllSizes /\ current \subseteq AllSizes
  /\ batch \subseteq Directions /\ running \subseteq batch /\ failed \subseteq batch
  /\ result \in [Directions -> SUBSET AllSizes] /\ latency \in BOOLEAN
  /\ disturbed \in BOOLEAN
  /\ report \in Reports /\ loaded \in Reports
  /\ target \in [file : Files \cup {NoFile}, format : Formats]
  /\ pc \in {"create", "write"} => target.file \in Files
  /\ commands \in 0..MaxCommands

(* A report has a result for every payload size in every direction its     *)
(* test type asks for, and nothing else.                                   *)
Complete(r) ==
  /\ r.payload_sizes # {}
  /\ \A d \in Directions :
       r.result[d] = IF d \in Asked(r.test_type) THEN r.payload_sizes ELSE {}
  /\ r.latency => r.test_type = "latency-only"

(* A report on disk is complete, whatever failed or was killed: the `?` of *)
(* run_tcp_client, run_udp_client and run_http_test never lets the results *)
(* of some of the tests through.                                           *)
ReportIsWhole ==
  \A f \in Files : disk[f].state = "whole" => Complete(disk[f].report)

(* A report on disk is touched only by a command that holds a complete     *)
(* report to put in its place: neither main's check of the path nor a test *)
(* that fails costs the earlier report.  The export itself can: it         *)
(* truncates first, and then an I/O error, a kill or a report that cannot  *)
(* be serialised loses both (ExportSaves).                                 *)
OldReportSurvives ==
  [][\A f \in Files :
       disk[f].state = "whole" /\ disk'[f] # disk[f] => Complete(report)]_vars

(* `report` reads back what `client` exported: the extensions select the   *)
(* same format on both sides.  A file without extension is exported as     *)
(* JSON and then refused.                                                  *)
ReadBack ==
  LET f == command.file
  IN  /\ command.kind = "report" /\ extension[f] # "none"
      /\ disk[f].state = "whole" /\ disk[f].format # "html"
      => loaded = disk[f].report

(* README.md:78, "Add a `-e` or `--export` flag to `client` commands to    *)
(* save results": a client whose tests have run, and which met neither a   *)
(* kill nor a failing file operation, has saved its report.                *)
ExportSaves ==
  pc = "idle" /\ command.kind = "client" /\ command.file # NoFile /\ ~disturbed
    => disk[command.file].state = "whole"
=============================================================================
