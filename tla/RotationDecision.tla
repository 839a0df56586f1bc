-------------------------- MODULE RotationDecision --------------------------
(***************************************************************************)
(* internal/rotation/decision.go: whether a reconcile reuses, generates or *)
(* rotates the password.  Times and periods are natural numbers; None is   *)
(* Go's nil pointer, and the empty rotate-at annotation.                   *)
(***************************************************************************)
EXTENDS Naturals

CONSTANT None

ActionReuse    == "Reuse"
ActionGenerate == "Generate"
ActionRotate   == "Rotate"

\* Mutant: the recorded time is ignored.
computeNextAnew(now, lastRotationTime, nextRotationTime, period) ==
  IF period = None THEN None
  ELSE (IF lastRotationTime = None THEN now ELSE lastRotationTime) + period

\* The scheduled time: the earlier of the recorded one and base + period.
computeNext(now, lastRotationTime, nextRotationTime, period) ==
  IF period = None THEN None
  ELSE LET base      == IF lastRotationTime = None THEN now ELSE lastRotationTime
           candidate == base + period
       IN  IF nextRotationTime # None /\ nextRotationTime <= candidate
           THEN nextRotationTime
           ELSE candidate

\* A decision that makes a new password restarts the schedule from now.
NewPassword(action, now, trigger, period) ==
  [Action           |-> action,
   ManualTrigger    |-> trigger,
   LastRotationTime |-> now,
   NextRotationTime |-> computeNext(now, now, None, period)]

Reuse(lastManualTrigger, lastRotationTime, next) ==
  [Action           |-> ActionReuse,
   ManualTrigger    |-> lastManualTrigger,
   LastRotationTime |-> lastRotationTime,
   NextRotationTime |-> next]

\* Mutant: every annotated reconcile rotates.
DecideAlways(now, hasPassword, manual, lastTrigger, lastTime, nextTime, period) ==
  IF ~hasPassword THEN NewPassword(ActionGenerate, now, manual, period)
  ELSE IF manual # None THEN NewPassword(ActionRotate, now, manual, period)
  ELSE Reuse(lastTrigger, lastTime,
             computeNext(now, lastTime, nextTime, period))

\* Mutant: manual requests are ignored, and a rotation is due only after its time.
DecideLate(now, hasPassword, manual, lastTrigger, lastTime, nextTime, period) ==
  LET next == computeNext(now, lastTime, nextTime, period)
  IN  IF ~hasPassword THEN NewPassword(ActionGenerate, now, manual, period)
      ELSE IF next # None /\ next < now
      THEN NewPassword(ActionRotate, now, lastTrigger, period)
      ELSE Reuse(lastTrigger, lastTime, next)

Decide(now, hasPassword, manual, lastTrigger, lastTime, nextTime, period) ==
  LET next == computeNext(now, lastTime, nextTime, period)
  IN  IF ~hasPassword
      THEN NewPassword(ActionGenerate, now, manual, period)
      ELSE IF manual # None /\ manual # lastTrigger
      THEN NewPassword(ActionRotate, now, manual, period)
      ELSE IF next # None /\ next <= now
      THEN NewPassword(ActionRotate, now, lastTrigger, period)
      ELSE Reuse(lastTrigger, lastTime, next)

=============================================================================
