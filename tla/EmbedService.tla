----------------------------- MODULE EmbedService -----------------------------
(***************************************************************************)
(* What the pool promises its callers, without threads, sessions, locks or *)
(* counters: a bounded first-in first-out line in front of a crew of at    *)
(* most N servers.  A call that enters the line gets exactly one answer,   *)
(* or leaves by itself; when the service closes, which it does only once   *)
(* and with nobody being served, whoever is still in line is refused.      *)
(***************************************************************************)
EXTENDS Naturals, Sequences, FiniteSets

CONSTANTS
  N,           \* servers
  Capacity,    \* places in the line
  Requests,    \* the calls
  Leaving      \* the calls whose caller may leave before the answer

VARIABLES
  call,        \* the state of each call
  line,        \* the calls in line, oldest first
  serving,     \* the calls being served
  open         \* whether the service accepts calls

serviceVars == <<call, line, serving, open>>

Answer == {"ok", "err", "rejected"}

\* An answer reaches the caller unless it has left.
Answered(r, a) == IF call[r] = "abandoned" THEN "idle" ELSE a

Inline(r) == \E i \in 1 .. Len(line) : line[i] = r

ServiceInit ==
  /\ call = [r \in Requests |-> "idle"]
  /\ line = <<>>
  /\ serving = {}
  /\ open = TRUE

Ask(r) ==
  /\ call[r] = "idle"
  /\ call' = [call EXCEPT ![r] = "sending"]
  /\ UNCHANGED <<line, serving, open>>

Enter(r) ==
  /\ open
  /\ call[r] = "sending"
  /\ Len(line) < Capacity
  /\ call' = [call EXCEPT ![r] = "waiting"]
  /\ line' = Append(line, r)
  /\ UNCHANGED <<serving, open>>

Refuse(r) ==
  /\ ~open
  /\ call[r] = "sending"
  /\ call' = [call EXCEPT ![r] = "err"]
  /\ UNCHANGED <<line, serving, open>>

Leave(r) ==
  /\ r \in Leaving
  /\ \/ call[r] = "sending" /\ call' = [call EXCEPT ![r] = "idle"]
     \/ call[r] = "waiting" /\ call' = [call EXCEPT ![r] = "abandoned"]
  /\ UNCHANGED <<line, serving, open>>

Serve ==
  /\ line # <<>>
  /\ Cardinality(serving) < N
  /\ serving' = serving \cup {Head(line)}
  /\ line' = Tail(line)
  /\ UNCHANGED <<call, open>>

Reply(r) ==
  /\ r \in serving
  /\ serving' = serving \ {r}
  /\ \E a \in Answer : call' = [call EXCEPT ![r] = Answered(r, a)]
  /\ UNCHANGED <<line, open>>

Collect(r) ==
  /\ call[r] \in Answer
  /\ call' = [call EXCEPT ![r] = "idle"]
  /\ UNCHANGED <<line, serving, open>>

Close ==
  /\ open
  /\ serving = {}
  /\ open' = FALSE
  /\ call' = [r \in Requests |-> IF Inline(r) THEN Answered(r, "err") ELSE call[r]]
  /\ line' = <<>>
  /\ UNCHANGED serving

ServiceNext ==
  \/ \E r \in Requests : Ask(r) \/ Enter(r) \/ Refuse(r) \/ Leave(r) \/ Reply(r)
                         \/ Collect(r)
  \/ Serve
  \/ Close

ServiceSpec == ServiceInit /\ [][ServiceNext]_serviceVars

=============================================================================
