---------------------------- MODULE ResultStore ----------------------------
(***************************************************************************)
(* What is kept of benchmark results (app/storage/history.py,              *)
(* app/storage/provenance.py, app/tools/analyze/history.py,                *)
(* app/tools/analyze/reproducibility.py): the history that all chats share *)
(* and the provenance bundles of one chat, while later benchmarks          *)
(* overwrite the reports both were made from and the repositories move on. *)
(* An export awaits the two git reads and the probe one after another, so  *)
(* other chats and the user come in between. A hash is modelled by the     *)
(* tuple it is taken over.                                                 *)
(***************************************************************************)
EXTENDS Naturals, FiniteSets

CONSTANTS
  Places,       \* paths a benchmark leaves its report at; run directories are reused
  Reports,      \* reports, as [uid, headline, body, valid]; "none" is an absent uid
  MaxResults    \* bound: benchmarks and records, the clock of this module

ASSUME ResultAssumption ==
  /\ MaxResults \in Nat
  /\ \A r \in Reports : DOMAIN r = {"uid", "headline", "body", "valid"} /\ r.valid \in BOOLEAN

VARIABLES
  found,      \* the report at each place, with its modification time
  repo,       \* the benchmark repository: its HEAD and uncommitted changes
  export,     \* export_run_bundle under way: its step and what it has captured
  records,    \* HistoryStore: the shared history
  bundles,    \* BundleStore: the bundles in the chat's workspace
  dated       \* the clock

resultVars == <<found, repo, export, records, bundles, dated>>

Heads    == 1..2
NoReport == [report |-> "none", at |-> 0]
NoExport == [step |-> "idle"]
Present  == {p \in Places : found[p].at > 0}

ResultTypeOK ==
  /\ \A p \in Present : found[p].report \in Reports /\ found[p].at <= dated
  /\ repo \in [sha : Heads, dirty : BOOLEAN] /\ dated \in 0..MaxResults
  /\ export.step \in {"idle", "sha", "status", "write"}
  /\ \A r \in records : r.report \in Reports /\ r.path \in Places /\ r.report.valid
  /\ \A b \in bundles : b.report \in Reports /\ b.sha \in Heads /\ b.report.valid

ResultInit ==
  /\ found = [p \in Places |-> NoReport] /\ repo = [sha |-> 1, dirty |-> FALSE]
  /\ export = NoExport /\ records = {} /\ bundles = {} /\ dated = 0
-----------------------------------------------------------------------------
(* The world. *)

\* A benchmark writes its report, over the one that was there.
Benchmark(p, r) ==
  /\ dated < MaxResults /\ dated' = dated + 1
  /\ found' = [found EXCEPT ![p] = [report |-> r, at |-> dated + 1]]
  /\ UNCHANGED <<repo, export, records, bundles>>

\* The user edits the repository, or commits.
Edit ==
  /\ repo' = [repo EXCEPT !.dirty = TRUE]
  /\ UNCHANGED <<found, export, records, bundles, dated>>
Commit ==
  /\ repo.dirty /\ repo.sha + 1 \in Heads
  /\ repo' = [sha |-> repo.sha + 1, dirty |-> FALSE]
  /\ UNCHANGED <<found, export, records, bundles, dated>>
-----------------------------------------------------------------------------
(* History. *)

\* The report a tool is pointed at: a file, or the newest one under a directory.
Located(dir) == CHOOSE p \in dir \cap Present : \A q \in dir \cap Present : found[q].at <= found[p].at

RecordId(r, p) == <<r.uid, p, r.headline>>

\* Nothing that fails validation is stored; storing again what is there changes nothing.
Store(dir) ==
  /\ dir \cap Present # {} /\ dated < MaxResults
  /\ LET p == Located(dir)
         r == found[p].report
         id == RecordId(r, p)
     IN  /\ r.valid
         /\ records' = IF \E old \in records : old.id = id THEN records
                       ELSE records \cup {[id |-> id, report |-> r, path |-> p, at |-> dated + 1, bundle |-> {}]}
  /\ dated' = dated + 1
  /\ UNCHANGED <<found, repo, export, bundles>>

Delete(record) ==
  /\ records' = records \ {record}
  /\ UNCHANGED <<found, repo, export, bundles, dated>>
-----------------------------------------------------------------------------
(* Provenance. *)

\* The report is read, and validated, before anything is awaited.
ExportStarts(dir) ==
  /\ export.step = "idle" /\ dir \cap Present # {}
  /\ LET p == Located(dir)
     IN  /\ found[p].report.valid
         /\ export' = [step |-> "sha", report |-> found[p].report, path |-> p]
  /\ UNCHANGED <<found, repo, records, bundles, dated>>

\* capture_repo_state: HEAD, then the uncommitted changes.
ReadSha ==
  /\ export.step = "sha"
  /\ export' = [step |-> "status", report |-> export.report, path |-> export.path, sha |-> repo.sha]
  /\ UNCHANGED <<found, repo, records, bundles, dated>>
ReadStatus ==
  /\ export.step = "status"
  /\ export' = [step |-> "write", report |-> export.report, path |-> export.path, sha |-> export.sha,
                dirty |-> repo.dirty]
  /\ UNCHANGED <<found, repo, records, bundles, dated>>

\* Bug: the digest of the report is left out of the id.
BundleIdUndigested(e) == <<e.report.uid, e.path, e.sha, "digest">>

BundleId(e) == <<e.report.uid, e.path, e.sha, e.report>>

\* The record that the same report was stored under is linked, if there is one.
Linked(e) ==
  LET id == RecordId(e.report, e.path)
  IN  {IF r.id = id THEN [r EXCEPT !.bundle = {BundleId(e)}] ELSE r : r \in records}

\* A bundle of the same id is written over.
ExportEnds(attach) ==
  /\ export.step = "write"
  /\ bundles' = {b \in bundles : b.id # BundleId(export)} \cup
                {[id |-> BundleId(export), report |-> export.report, path |-> export.path,
                  sha |-> export.sha, dirty |-> export.dirty]}
  /\ records' = IF attach THEN Linked(export) ELSE records
  /\ export' = NoExport
  /\ UNCHANGED <<found, repo, dated>>

\* The chat goes, with its bundles; the history stays.
ForgetChat ==
  /\ export.step = "idle" /\ bundles' = {}
  /\ UNCHANGED <<found, repo, export, records, dated>>

ResultNext ==
  \/ \E p \in Places, r \in Reports : Benchmark(p, r)
  \/ \E dir \in SUBSET Places : Store(dir) \/ ExportStarts(dir)
  \/ \E r \in records : Delete(r)
  \/ \E attach \in BOOLEAN : ExportEnds(attach)
  \/ Edit \/ Commit \/ ReadSha \/ ReadStatus \/ ForgetChat

ResultSpec == ResultInit /\ [][ResultNext]_resultVars
-----------------------------------------------------------------------------
\* An id, once given out, never comes to stand for another run: a saved bundle keeps the
\* report it certifies though the run directory is reused and uids are optional, and a
\* record is only ever linked to a bundle of the run it summarizes.
CertifiesItsRun ==
  [][/\ \A old \in bundles, new \in bundles' : old.id = new.id => old.report = new.report
     /\ \A r \in records' : \A id \in r.bundle :
          \A b \in bundles' : b.id = id => b.path = r.path /\ b.report.uid = r.report.uid
                                           /\ b.report.headline = r.report.headline]_resultVars
=============================================================================
