---------------------------- MODULE MCPushQueue ----------------------------
(* Instances of PushQueue for TLC.                                         *)
EXTENDS PushQueue

\* One outcome for each way push can react: delivered, retriable, cancelled,
\* refused but go on, refused and stop.
MCAnswers == {Answer(200, "other"), Failure("connection"), Failure("context.Canceled"),
              Answer(400, "other"), Answer(429, "other")}
=============================================================================
