------------------------------ MODULE ScanChecks ------------------------------
(* What keeps a scan from starting and what the user is told: preflight and the
   checks of the health page (health.py), and the notification after a scan
   (hooks.py).

   A situation is the state of the surroundings: per library whether its source
   is there, readable and writable and whether its outputs are writable; the
   ffprobe executables that are missing; the settings; and the last scan. *)
EXTENDS Naturals, Sequences, SequencesExt

\* writable_inputs: a source that is not there is not writable.
WritableInputs(s) == {l \in s.libraries : l.isDir /\ l.writable}

\* Why a scan must not run, the first reason of three.
Preflight(s) ==
    LET writable == ~s.skipReadonly /\ WritableInputs(s) # {} IN
    CASE s.libraries = {} -> "libraries"
      [] s.libraries # {} /\ writable -> "readonly"
      [] s.libraries # {} /\ ~writable /\ s.missing -> "ffprobe"
      [] OTHER -> "none"
----------------------------------------------------------------------------
(* The checks: what they are about, and a level. *)

Check(about, level) == [about |-> about, level |-> level]
If(condition, check) == IF condition THEN {check} ELSE {}

\* A source that is not there has no other checks.
LibraryChecks(s) ==
    If(s.libraries = {}, Check("libraries", "warning"))
    \union UNION {
        IF ~l.isDir THEN {Check("source", "error")}
        ELSE If(~l.readable, Check("source", "error"))
             \union If(l.writable, Check("readonly", IF s.skipReadonly THEN "warning" ELSE "error"))
             \union If(~l.outputsWritable, Check("output", "error")) : l \in s.libraries}

ConfigChecks(s) ==
    If(~s.configWritable, Check("config", "warning"))
    \union If(s.missing, Check("ffprobe", "error"))
    \union If(s.database = "readonly", Check("database", "error"))

AuthChecks(s) ==
    CASE s.method = "none" -> {Check("auth", "warning")}
      [] s.method = "external" /\ ~s.proxies -> {Check("auth", "error")}
      [] s.method = "forms" /\ ~s.account -> {Check("auth", "warning")}
      [] OTHER -> {}

\* One check for the last scan: its failure, else the guard, else its errors.
ScanCheck(scan) ==
    CASE scan.failed -> {Check("scan", "error")}
      [] ~scan.failed /\ (scan.blocked > 0 \/ scan.errors > 0) -> {Check("scan", "warning")}
      [] OTHER -> {}

RunChecks(s) ==
    LibraryChecks(s) \union ConfigChecks(s) \union AuthChecks(s)
    \union If(s.restart, Check("restart", "warning")) \union ScanCheck(s.scan)
----------------------------------------------------------------------------
(* The notification: nothing, or its lines and whether it is a failure. *)

MessageBug(scan, on) ==
    LET lines == If(scan.blocked > 0 /\ on.blocked, "blocked")
                 \union If(scan.errors > 0 /\ on.errors, "errors")
                 \union If(scan.changed > 0 /\ on.changes, "changes")
    IN  IF scan.failed THEN [lines |-> If(on.errors, "failed"), failure |-> TRUE]
        ELSE [lines |-> lines, failure |-> lines = {"blocked"} \/ lines = {"errors"}]
\* build_message: a failed scan has no result to tell of.
Message(scan, on) ==
    LET lines == If(scan.blocked > 0 /\ on.blocked, "blocked")
                 \union If(scan.errors > 0 /\ on.errors, "errors")
                 \union If(scan.changed > 0 /\ on.changes, "changes")
    IN  IF scan.failed THEN [lines |-> If(on.errors, "failed"), failure |-> TRUE]
        ELSE [lines |-> lines, failure |-> lines \intersect {"blocked", "errors"} # {}]
----------------------------------------------------------------------------
(* Properties. *)

\* The reason for which scans are skipped and the health page come from two
\* functions over the same surroundings: a scan that must not run shows on the
\* page as a check about that reason, as an error if a library is configured; and
\* where the page has no error about sources or ffprobe, a scan runs.
SkippedScansAreExplained(s) ==
    LET reason == Preflight(s)
        checks == RunChecks(s)
    IN  /\ reason # "none" => \E c \in checks :
              c.about = reason /\ (reason = "libraries" <=> c.level = "warning")
        /\ reason = "none" => ~\E c \in checks :
              c.about \in {"readonly", "ffprobe"} /\ c.level = "error"

\* With all notifications on, someone hears of a scan exactly if it failed,
\* changed something or needs attention, and as a failure exactly if the health
\* page has a check about it.
NotifiedAsChecked(scan) ==
    LET message == Message(scan, [blocked |-> TRUE, errors |-> TRUE, changes |-> TRUE])
    IN  /\ message.lines # {} <=> scan.failed \/ scan.changed > 0 \/ ScanCheck(scan) # {}
        /\ (message.lines # {} /\ message.failure) <=> ScanCheck(scan) # {}
=============================================================================
