---------------------------- MODULE MCTestProcess ----------------------------
EXTENDS TestProcess

\* A test whose output and exit code decide, with a limit and a stop time.
Judged == [
  texts |-> {"required", "error", "skip"}, maxPieces |-> 2, exitCodes |-> {0, 1},
  hasDescendants |-> TRUE, regexes |-> {"required", "error", "skip"},
  skipReturnCode |-> {1}, willFail |-> FALSE,
  timeout |-> 2, explicitTimeout |-> TRUE, alternateTimeout |-> 3, defaultTimeout |-> 4,
  hasStopTime |-> TRUE, stopTime |-> 3, repeatMode |-> "UntilPass", repeatCount |-> 2]

\* A test that changes its limit by what it prints, in a single run.
Limited == [
  texts |-> {"plain", "timeout"}, maxPieces |-> 4, exitCodes |-> {0, 1},
  hasDescendants |-> TRUE, regexes |-> {"timeout"},
  skipReturnCode |-> {}, willFail |-> TRUE,
  timeout |-> 2, explicitTimeout |-> TRUE, alternateTimeout |-> 3, defaultTimeout |-> 4,
  hasStopTime |-> FALSE, stopTime |-> 0, repeatMode |-> "Never", repeatCount |-> 1]

\* A test without TIMEOUT, run again after each timeout.
Unlimited == [Limited EXCEPT
  !.texts = {"plain"}, !.maxPieces = 1, !.regexes = {}, !.willFail = FALSE,
  !.timeout = 0, !.explicitTimeout = FALSE, !.hasStopTime = TRUE, !.stopTime = 3,
  !.repeatMode = "AfterTimeout", !.repeatCount = 3]

MCCases == {Judged, Limited, Unlimited}
=============================================================================
