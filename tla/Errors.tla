------------------------------- MODULE Errors -------------------------------
(***************************************************************************)
(* What kzero makes of a failed call: the executors wrap it                *)
(* (internal/executor/errors.go, subprocess.go, podexec.go) and IsRetriable*)
(* decides whether the step is run again (internal/retry/retry.go).        *)
(*                                                                         *)
(* An error is a chain of causes with one text.  Of the chain the model    *)
(* keeps what errors.Is and errors.As can find in it; of the text, which   *)
(* of the substrings the code looks for are there.  The errors of the Helm *)
(* SDK are not wrapped at all: their text is what IsRetriable is left with.*)
(***************************************************************************)

(* The substrings, grouped by the lists that hold them:                    *)
(*   outage   "connection refused", "too many requests", ...: in both      *)
(*   dial     "dial tcp", "unable to connect", ...: classifySubprocess     *)
(*   timeout  "timeout", "429", "503", "504" alone: retriableMessage       *)
(*   notfound, forbidden: classifySubprocess and WrapPodExec               *)
(*   missing  "does not exist", ..., denied "unauthorized", ...:           *)
(*            classifySubprocess                                           *)
Phrase == {"outage", "dial", "timeout", "notfound", "missing", "forbidden", "denied"}

Sentinel == {"canceled", "deadline", "notfound", "forbidden", "conflict", "transient"}

(* Statuses of the API server that are told apart.                         *)
Reason == {"NotFound", "Forbidden", "Conflict", "AlreadyExists", "Timeout",
           "ServerTimeout", "TooManyRequests", "ServiceUnavailable", "Invalid"}

Error == [is   : SUBSET Sentinel,      \* what errors.Is finds
          api  : Reason \cup {"none"}, \* the API status errors.As finds
          sub  : BOOLEAN,              \* a SubprocessError is in the chain
          says : SUBSET Phrase]        \* its text

(* What client-go returns for a status.                                    *)
Status(reason) ==
  [is |-> {}, api |-> reason, sub |-> FALSE,
   says |-> CASE reason = "NotFound"        -> {"notfound"}
              [] reason = "Forbidden"       -> {"forbidden"}
              [] reason \in {"Timeout", "ServerTimeout"} -> {"timeout"}
              [] reason = "TooManyRequests" -> {"outage"}
              [] OTHER                      -> {}]

(* What the context's error becomes.                                       *)
Deadline == [is |-> {"deadline"}, api |-> "none", sub |-> FALSE, says |-> {"outage"}]
Canceled == [is |-> {"canceled"}, api |-> "none", sub |-> FALSE, says |-> {}]

(* A connection that could not be made or broke.                           *)
NoConnection == [is |-> {}, api |-> "none", sub |-> FALSE, says |-> {"outage", "dial"}]

(* Any other error, with its text.                                         *)
Plain(says) == [is |-> {}, api |-> "none", sub |-> FALSE, says |-> says]

-----------------------------------------------------------------------------

(* The sentinels' own texts.                                               *)
Text(sentinel) ==
  CASE sentinel = "notfound"  -> {"notfound"}
    [] sentinel = "forbidden" -> {"forbidden"}
    [] OTHER                  -> {}

(* fmt.Errorf("name: %w", e)                                               *)
WithText(name, e) == [e EXCEPT !.says = @ \cup name]

(* Only the text of the cause survives: "%w: %v".                          *)
joinSentinel(sentinel, e) ==
  [is |-> {sentinel}, api |-> "none", sub |-> FALSE, says |-> Text(sentinel) \cup e.says]

WrapAPIError(e, resource) ==
  WithText(resource,
    CASE e.api = "NotFound"  -> joinSentinel("notfound", e)
      [] e.api = "Forbidden" -> joinSentinel("forbidden", e)
      [] e.api = "Conflict"  -> joinSentinel("conflict", e)
      [] OTHER               -> e)

-----------------------------------------------------------------------------
(* Subprocesses: kubectl, helm, hooks and scripts.  A failure has          *)
(*   command        the phrases of the command line                        *)
(*   output, rest   of the first 200 characters of its output, of the rest *)
(*   exit           "code", "killed" (137, 143) or "none" (no exit code)   *)
(*   cause          the error of the call                                  *)

(* Faulty variant: a name that cannot be resolved is "not found" too, but  *)
(* any sign of an outage comes first.                                      *)
TransientFirst(says, exit) ==
  IF says \cap {"outage", "dial"} # {} THEN "transient"
  ELSE IF says \cap {"notfound", "missing"} # {} THEN "notfound"
  ELSE IF says \cap {"forbidden", "denied"} # {} THEN "forbidden"
  ELSE IF exit = "killed" THEN "transient" ELSE "unknown"

(* The first list that has one of its phrases there decides.               *)
classifySubprocess(says, exit) ==
  IF says \cap {"notfound", "missing"} # {} THEN "notfound"
  ELSE IF says \cap {"forbidden", "denied"} # {} THEN "forbidden"
  ELSE IF says \cap {"outage", "dial"} # {} THEN "transient"
  ELSE IF exit = "killed" THEN "transient" ELSE "unknown"

(* The text of a SubprocessError and of a PodExecError.                    *)
Message(command, f) ==
  command \cup (IF f.exit = "none" THEN f.cause.says ELSE f.output)

WrapSubprocess(f) ==
  LET base  == [f.cause EXCEPT !.sub = TRUE, !.says = Message(f.command, f)]
      class == classifySubprocess(f.output \cup f.rest \cup f.cause.says, f.exit)
  IN IF f.cause.sub THEN f.cause
     ELSE WithText(f.command,
                IF class = "unknown" THEN base ELSE joinSentinel(class, base))

(* The reference of an exec step holds the first 80 characters of its      *)
(* command; all of the output is looked through.                           *)
WrapPodExec(f) ==
  LET base == [f.cause EXCEPT !.says = Message(f.command, f)]
      says == f.output \cup f.rest \cup f.cause.says
  IN WithText(f.command,
           IF "notfound" \in says THEN joinSentinel("notfound", base)
           ELSE IF "forbidden" \in says THEN joinSentinel("forbidden", base)
           ELSE base)

-----------------------------------------------------------------------------

retriableAPIStatus(e) ==
  e.api \in {"ServerTimeout", "Timeout", "TooManyRequests", "ServiceUnavailable", "Conflict"}

retriableMessage(says) == says \cap {"outage", "timeout"} # {}

IsRetriable(e) ==
  /\ "canceled" \notin e.is
  /\ \/ e.is \cap {"deadline", "conflict", "transient"} # {}
     \/ /\ e.is \cap {"notfound", "forbidden"} = {}
        /\ retriableAPIStatus(e) \/ retriableMessage(e.says)
=============================================================================
