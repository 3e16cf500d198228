------------------------------ MODULE K6Process ------------------------------
(***************************************************************************)
(* Running a k6 script (internal/k6runner): what Local makes of the end of *)
(* a k6 process (local.go, error.go), and what Processor makes of that     *)
(* (k6runner.go).                                                          *)
(***************************************************************************)
EXTENDS Integers, Sequences, FiniteSetsExt

CONSTANT LogLimit    \* how many lines of logs fit in maxLogsSizeBytes

ASSUME LogLimitAssumption == LogLimit \in Nat \ {0}

NotRun == -2

\* exit is the process's exit code, -1 after a signal, or NotRun; ctx is the
\* context's error after it; logs is what k6 logged, and readable whether its
\* output files can be read back.  Bound: one line more than is read.
ProcessEnds ==
  [exit : {0, 1, 107, 126, 127, 137, -1, NotRun},
   ctx : {"nil", "deadline", "canceled"},
   logs : UNION {[1..n -> {"plain", "stacktrace", "thrown", "malformed"}] : n \in 0..(LogLimit + 1)},
   readable : BOOLEAN]

\* A context that ends kills the process; one that had ended already keeps it
\* from running.
CanHappen(p) == p.exit = NotRun => p.logs = <<>>

\* readFileLimit: whole lines up to the limit.  The lines Local adds before and
\* after them are plain.
readFileLimit(lines) == SubSeq(lines, 1, Min({Len(lines), LogLimit}))

\* The first line that tells of an exception.  A malformed line is ignored, and
\* so is everything after it: the decoder does not go on after an error.
errorFromLogs(p) ==
  LET read    == readFileLimit(p.logs)
      telling == {i \in 1..Len(read) : read[i] # "plain"}
      first   == read[Min(telling)]
  IN IF telling = {} THEN "none" ELSE IF first = "malformed" THEN "none" ELSE first

Exited(p) == p.exit \notin {0, NotRun}


isUserError(p) == p.ctx = "deadline" \/ (Exited(p) /\ p.exit < 127)

errorType(p) ==
  IF p.ctx = "deadline" THEN "timeout"
  ELSE IF errorFromLogs(p) = "stacktrace" THEN "aborted"
  ELSE IF errorFromLogs(p) = "thrown" THEN "failed"
  ELSE IF ~Exited(p) THEN "unknown"
  ELSE IF p.exit >= 128 THEN "killed"
  ELSE "aborted"

\* Local.Run: an error, or a response with the error and its code, both "" when
\* all is well.
LocalRun(p) ==
  LET err == p.exit # 0 \/ p.ctx # "nil" IN
  IF err /\ ~isUserError(p) THEN [err |-> "executing", error |-> "", code |-> ""]
  ELSE IF ~p.readable THEN [err |-> "reading", error |-> "", code |-> ""]
  ELSE IF err \/ errorFromLogs(p) # "none"
  THEN [err |-> "nil", error |-> "message", code |-> errorType(p)]
  ELSE [err |-> "nil", error |-> "", code |-> ""]

\* Processor.Run, when the logs and metrics can be read: success, and an error.
ProcessorRun(result) ==
  IF result.err # "nil" THEN <<FALSE, result.err>>
  ELSE IF (result.error = "") # (result.code = "") THEN <<FALSE, "buggy runner">>
  ELSE CASE result.code = "" -> <<TRUE, "nil">>
         [] result.code \in {"timeout", "killed", "user", "failed", "aborted"} -> <<FALSE, "nil">>
         [] OTHER -> <<FALSE, "from runner">>

------------------------------------------------------------------------------

VARIABLES process, reported

processVars == <<process, reported>>

NoProcess == [exit |-> NotRun, ctx |-> "nil", logs |-> <<>>, readable |-> TRUE]
NotReported == [local |-> LocalRun(NoProcess), success |-> FALSE, err |-> "not run"]

ProcessInit == process = NoProcess /\ reported = NotReported

\* A run: Processor.Run, with Local.
RunScript ==
  /\ reported = NotReported
  /\ process' \in {p \in ProcessEnds : CanHappen(p)}
  /\ LET local == LocalRun(process')
         result == ProcessorRun(local)
     IN reported' = [local |-> local, success |-> result[1], err |-> result[2]]

------------------------------------------------------------------------------
(* Properties                                                              *)

==============================================================================
