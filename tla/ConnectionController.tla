------------------------ MODULE ConnectionController ------------------------
(***************************************************************************)
(* The connection controller of the Studio bridge (nova-connection): what  *)
(* the user sees of the link, kept apart from the provider's own view.  An *)
(* attempt counts while it is the current one; a timeout, a disconnect or  *)
(* a newer attempt abandons it and its answer is ignored.  The operators   *)
(* are the controller's half of an action; the module that composes the    *)
(* controller with a provider conjoins the provider's half.                *)
(***************************************************************************)
EXTENDS Naturals

VARIABLES
  status,   \* snapshot.status
  attempt,  \* the attempt in progress, 0 for null
  attempts  \* attempts begun

connectionVars == <<status, attempt, attempts>>

Statuses == {"disconnected", "connecting", "connected", "disconnecting", "error"}

ConnectionInit == status = "disconnected" /\ attempt = 0 /\ attempts = 0

\* startConnect, up to the provider's connect().
BeginConnect ==
  /\ status \in {"disconnected", "error"}
  /\ attempts' = attempts + 1

\* ... when the provider takes its time.
Connecting == status' = "connecting" /\ attempt' = attempts'

\* ... when it answers in the same turn.
ConnectedAtOnce == status' = "connected" /\ attempt' = 0

\* Variant: an answer counts whichever attempt it belongs to.
HearResultOfAny(n, ok) ==
  /\ attempt' = 0 /\ status' = (IF ok THEN "connected" ELSE "error")
  /\ UNCHANGED attempts

\* handleResult: only the current attempt's answer counts.
HearResult(n, ok) ==
  /\ IF attempt = n THEN attempt' = 0 /\ status' = (IF ok THEN "connected" ELSE "error")
                    ELSE UNCHANGED <<attempt, status>>
  /\ UNCHANGED attempts

\* The timer of the attempt: it fails, and the provider is told to clean up.
AttemptTimesOut ==
  /\ attempt # 0
  /\ attempt' = 0 /\ status' = "error"
  /\ UNCHANGED attempts

\* disconnect(), of a connection or of an attempt.
BeginDisconnect ==
  /\ status \in {"connecting", "connected"}
  /\ attempt' = 0
  /\ UNCHANGED attempts

\* disconnect() of a failure only dismisses it.
DismissError ==
  /\ status = "error" /\ status' = "disconnected"
  /\ UNCHANGED <<attempt, attempts>>

\* The provider's disconnect() returned.
HearDisconnected ==
  /\ status' = IF status = "disconnecting" THEN "disconnected" ELSE status
  /\ UNCHANGED <<attempt, attempts>>
=============================================================================
