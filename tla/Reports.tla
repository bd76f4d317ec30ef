------------------------------- MODULE Reports -------------------------------
(***************************************************************************)
(* Reports of one case: the requests for a report (reports/router.ts), the *)
(* report queue and its processor (processors/report.ts), which prints the *)
(* dossier and the brief from the pages of the web client with a headless  *)
(* browser (renderPdf.ts), and the routes that serve the newest file.      *)
(*                                                                         *)
(* What a document says is in ReportText; here it is the version of the    *)
(* case it was made from.  Several sets of sections are several jobs of    *)
(* one case, and the queue runs two at a time.  A step is the code between *)
(* two `await`s on the case, the queue or the directory of files.          *)
(***************************************************************************)
EXTENDS Naturals, Sequences

CONSTANTS
  ReportSections,   \* ALL_SECTIONS
  Mandatory,        \* MANDATORY_REPORT_SECTIONS
  Printers,         \* slots of the report queue
  Attempts,         \* JOB_QUEUES.report.retries
  MaxVersions,      \* bound: versions of the case
  MaxRequests,      \* bound: requests for a report
  MaxMishaps,       \* bound: prints that fail, workers that die or lose their lock
  MaxReportSteps    \* bound: changes of the case, requests and mishaps together

ASSUME ReportsAssumption ==
  /\ Mandatory \subseteq ReportSections
  /\ {Attempts, MaxVersions, MaxRequests, MaxMishaps, MaxReportSteps} \subseteq Nat

VARIABLES
  case,      \* the case: its version, and whether it is deleted
  validated, \* section sets of requests that have read the case and will be queued
  reportJob, \* the report queue, by section set
  printer,   \* per slot: the attempt at a report
  files,     \* REPORTS_DIR, in the order of the stamps
  result,    \* by section set: the result of its last completed job
  asked,     \* history: the version at the last request that was not a duplicate
  together,  \* history: two renders of one document overlapped
  spent      \* what was used of the bounds

reportsVars == <<case, validated, reportJob, printer, files, result, asked, together, spent>>

-----------------------------------------------------------------------------
Stages   == {"dossier", "brief"}
SectionSets == {q \in SUBSET ReportSections : Mandatory \subseteq q}
NoResult == [manifest |-> 0, dossier |-> 0, brief |-> 0]
NoPrint  == [pc |-> "idle", sections |-> {}, stage |-> "dossier", page |-> 0,
             zombie |-> FALSE, out |-> NoResult]
NoJob    == [state |-> "none", tries |-> 0]

Spare == case.version + spent.requests + spent.mishaps <= MaxReportSteps
Use(b, limit) == Spare /\ spent[b] < limit /\ spent' = [spent EXCEPT ![b] = @ + 1]

ReportsInit ==
  /\ case = [version |-> 1, deleted |-> FALSE]
  /\ validated = {}
  /\ reportJob = [q \in SectionSets |-> NoJob]
  /\ printer = [s \in Printers |-> NoPrint]
  /\ files = <<>>
  /\ result = [q \in SectionSets |-> NoResult]
  /\ asked = [q \in SectionSets |-> 0]
  /\ together = FALSE
  /\ spent = [requests |-> 0, mishaps |-> 0]

\* Any other job of the case stores a result, or the case is deleted.
CaseChanges ==
  /\ Spare /\ case.version < MaxVersions
  /\ \/ case' = [case EXCEPT !.version = @ + 1]
     \/ case' = [case EXCEPT !.version = @ + 1, !.deleted = TRUE]
  /\ UNCHANGED <<validated, reportJob, printer, files, result, asked, together, spent>>

-----------------------------------------------------------------------------
(* Requests *)

\* enforceMandatorySections
Enforced(q) == (q \cap ReportSections) \cup Mandatory

\* GenerateBody and assertMandatorySections refuse a request that leaves one out, and
\* buildReportData one for a case that is deleted.
RequestReport(q) ==
  /\ Mandatory \subseteq q
  /\ ~case.deleted
  /\ Use("requests", MaxRequests)
  /\ validated' = validated \cup {Enforced(q)}
  /\ UNCHANGED <<case, reportJob, printer, files, result, asked, together>>

\* enqueue under the key of case and sections, after the audit record.
QueueReport(q) ==
  /\ q \in validated
  /\ validated' = validated \ {q}
  /\ IF reportJob[q].state \in {"queued", "active"}
       THEN UNCHANGED <<reportJob, asked>>
       ELSE /\ reportJob' = [reportJob EXCEPT ![q] = [state |-> "queued", tries |-> 0]]
            /\ asked' = [asked EXCEPT ![q] = case.version]
  /\ UNCHANGED <<case, printer, files, result, together, spent>>

-----------------------------------------------------------------------------
(* processReport *)

PickReport(s, q) ==
  /\ printer[s].pc = "idle"
  /\ reportJob[q].state = "queued"
  /\ reportJob' = [reportJob EXCEPT ![q].state = "active"]
  /\ printer' = [printer EXCEPT ![s] = [NoPrint EXCEPT !.pc = "assemble", !.sections = q]]
  /\ UNCHANGED <<case, validated, files, result, asked, together, spent>>

\* The attempt has failed or its worker has died: the job is queued again or given up.
GiveBack(q) ==
  LET n == reportJob[q].tries + 1 IN
  reportJob' = [reportJob EXCEPT ![q] = [state |-> IF n < Attempts THEN "queued" ELSE "failed", tries |-> n]]

\* buildReportData, whose manifest goes into the result.
Assemble(s) ==
  LET p == printer[s] IN
  /\ p.pc = "assemble"
  /\ IF case.deleted
       THEN /\ printer' = [printer EXCEPT ![s] = NoPrint]
            /\ IF p.zombie THEN UNCHANGED reportJob ELSE GiveBack(p.sections)
       ELSE /\ printer' = [printer EXCEPT ![s] = [p EXCEPT !.pc = "open", !.out.manifest = case.version]]
            /\ UNCHANGED reportJob
  /\ UNCHANGED <<case, validated, files, result, asked, together, spent>>

\* After the dossier the brief, whether or not there is a file.
NextStage(p) ==
  IF p.stage = "dossier" THEN [p EXCEPT !.pc = "open", !.stage = "brief", !.page = 0]
                         ELSE [p EXCEPT !.pc = "finish"]

\* page.goto with a token for this case: the page reads the case by itself.
Rendering(stage) == {t \in Printers : printer[t].pc \in {"print", "write"} /\ printer[t].stage = stage}
OpenPage(s) ==
  LET p == printer[s] IN
  /\ p.pc = "open"
  /\ IF case.deleted
       THEN printer' = [printer EXCEPT ![s] = NextStage(p)] /\ UNCHANGED together
       ELSE /\ printer' = [printer EXCEPT ![s] = [p EXCEPT !.pc = "print", !.page = case.version]]
            /\ together' = (together \/ Rendering(p.stage) \ {s} # {})
  /\ UNCHANGED <<case, validated, reportJob, files, result, asked, spent>>

\* A request of the page failed, a heading did not show, or no browser: no file.
PrintFails(s) ==
  /\ printer[s].pc = "print"
  /\ Use("mishaps", MaxMishaps)
  /\ printer' = [printer EXCEPT ![s] = NextStage(printer[s])]
  /\ UNCHANGED <<case, validated, reportJob, files, result, asked, together>>

\* The same name for both documents.
CreateFileOneName(s) ==
  LET p == printer[s] IN
  /\ p.pc = "print"
  /\ files' = Append(files, [kind |-> "brief", content |-> p.page, whole |-> FALSE])
  /\ printer' = [printer EXCEPT ![s] = [p EXCEPT !.pc = "write", !.out[p.stage] = Len(files) + 1]]
  /\ UNCHANGED <<case, validated, reportJob, result, asked, together, spent>>

\* writeFile under the name of case, kind and time, which creates the file and fills it.
CreateFile(s) ==
  LET p == printer[s] IN
  /\ p.pc = "print"
  /\ files' = Append(files, [kind |-> p.stage, content |-> p.page, whole |-> FALSE])
  /\ printer' = [printer EXCEPT ![s] = [p EXCEPT !.pc = "write", !.out[p.stage] = Len(files) + 1]]
  /\ UNCHANGED <<case, validated, reportJob, result, asked, together, spent>>

FillFile(s) ==
  LET p == printer[s] IN
  /\ p.pc = "write"
  /\ files' = [files EXCEPT ![p.out[p.stage]].whole = TRUE]
  /\ printer' = [printer EXCEPT ![s] = NextStage(p)]
  /\ UNCHANGED <<case, validated, reportJob, result, asked, together, spent>>

\* The return value of the processor; a worker without its lock cannot complete the job.
FinishReport(s) ==
  LET p == printer[s] IN
  /\ p.pc = "finish"
  /\ printer' = [printer EXCEPT ![s] = NoPrint]
  /\ IF p.zombie
       THEN UNCHANGED <<reportJob, result>>
       ELSE /\ reportJob' = [reportJob EXCEPT ![p.sections].state = "completed"]
            /\ result' = [result EXCEPT ![p.sections] = p.out]
  /\ UNCHANGED <<case, validated, files, asked, together, spent>>

\* The worker dies, or loses its lock and goes on.
LoseWorker(s, dead) ==
  LET p == printer[s] IN
  /\ p.pc # "idle"
  /\ ~p.zombie
  /\ Use("mishaps", MaxMishaps)
  /\ GiveBack(p.sections)
  /\ printer' = [printer EXCEPT ![s] = IF dead THEN NoPrint ELSE [p EXCEPT !.zombie = TRUE]]
  /\ UNCHANGED <<case, validated, files, result, asked, together>>

-----------------------------------------------------------------------------
(* What is served *)

\* servePdf: of the files of the kind asked for, the one whose name sorts last.
OfKind(kind) == {i \in DOMAIN files : files[i].kind = kind}
Served(kind) ==
  IF OfKind(kind) = {} THEN 0 ELSE CHOOSE i \in OfKind(kind) : \A j \in OfKind(kind) : j <= i

-----------------------------------------------------------------------------
PrinterStep(s) ==
  \/ Assemble(s) \/ OpenPage(s) \/ PrintFails(s) \/ CreateFile(s) \/ FillFile(s) \/ FinishReport(s)
  \/ \E dead \in BOOLEAN : LoseWorker(s, dead)
  \/ \E q \in SectionSets : PickReport(s, q)

ReportsNext ==
  \/ CaseChanges
  \/ \E q \in SUBSET ReportSections : RequestReport(q) \/ QueueReport(q)
  \/ \E s \in Printers : PrinterStep(s)

ReportsSpec == ReportsInit /\ [][ReportsNext]_reportsVars

-----------------------------------------------------------------------------
(* Properties *)

PrintPc == {"idle", "assemble", "open", "print", "write", "finish"}
ReportsTypeOK ==
  /\ case \in [version : 1 .. MaxVersions, deleted : BOOLEAN]
  /\ validated \subseteq SectionSets
  /\ \A q \in SectionSets :
       /\ reportJob[q] \in [state : {"none", "queued", "active", "completed", "failed"}, tries : 0 .. Attempts]
       /\ asked[q] \in 0 .. MaxVersions
  /\ \A i \in DOMAIN files : files[i] \in [kind : Stages, content : 1 .. MaxVersions, whole : BOOLEAN]
  /\ \A s \in Printers : printer[s].pc \in PrintPc /\ printer[s].sections \subseteq ReportSections

\* router.ts, servePdf "the two must not share the same filter" and generate "retry once
\* the job completes": once the last job that was queued for a set of sections has
\* completed with a dossier, the dossier that is served is one, and says at least what the
\* case held when that report was asked for.  This is so unless two renders overlapped.
ServedIsCurrent ==
  \A q \in SectionSets, kind \in Stages :
    /\ ~together
    /\ reportJob[q].state = "completed"
    /\ result[q][kind] # 0
    => /\ Served(kind) # 0
       /\ files[Served(kind)].kind = kind
       /\ files[Served(kind)].content >= asked[q]

=============================================================================
