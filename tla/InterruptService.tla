-------------------------- MODULE InterruptService --------------------------
(***************************************************************************)
(* What an interrupt controller promises to the handlers of its sources:   *)
(* each request is handed to one handler, and the source makes no other    *)
(* until the handler completes; a request of a source that has none under  *)
(* way, or completes its last one in this step, is not dropped.            *)
(* One step is one of the controller: any number of sources request in it. *)
(***************************************************************************)
CONSTANTS
  Sources, Contexts,
  Edges      \* the sources that request by a rise of their line, not by its level

VARIABLES
  lines,     \* the sources whose line is at 1
  phase,     \* of each source: "idle", "pending": requested, "served": handed out
  handlers   \* of each source: the contexts whose handler has it

\* Source k requests in this step.
Asks(k) == k \in lines' /\ (k \in Edges => k \notin lines)

Request(k) ==
  /\ Asks(k)
  /\ phase[k] = "idle" /\ phase'[k] = "pending"
  /\ handlers'[k] = handlers[k]

Claim(k, c) ==
  /\ phase[k] = "pending" /\ handlers[k] = {}
  /\ phase'[k] = "served" /\ handlers'[k] = {c}

\* A source that asks again in the step it is completed in is pending at once.
Complete(k, c) ==
  /\ phase[k] = "served" /\ handlers[k] \subseteq {c}
  /\ phase'[k] = (IF Asks(k) THEN "pending" ELSE "idle") /\ handlers'[k] = {}

\* c completes a source that is not enabled for c: it stays in service, until a
\* context it is enabled for completes it.
Ignored(k, c) ==
  /\ phase[k] = "served" /\ handlers[k] = {c}
  /\ phase'[k] = phase[k] /\ handlers'[k] = {}

\* Nothing happens to k: an idle source rests only while it does not ask.
Rests(k) ==
  /\ phase[k] = "idle" => ~Asks(k)
  /\ phase'[k] = phase[k] /\ handlers'[k] = handlers[k]

Step(k) ==
  \/ Rests(k) \/ Request(k)
  \/ \E c \in Contexts : Claim(k, c) \/ Complete(k, c) \/ Ignored(k, c)

Init ==
  /\ lines = {}
  /\ phase = [k \in Sources |-> "idle"]
  /\ handlers = [k \in Sources |-> {}]

Next == lines' \subseteq Sources /\ \A k \in Sources : Step(k)

Spec == Init /\ [][Next]_<<lines, phase, handlers>>
=============================================================================
