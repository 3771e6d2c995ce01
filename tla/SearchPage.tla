------------------------------ MODULE SearchPage ------------------------------
(***************************************************************************)
(* The search box of the web app: one effect per committed value of the    *)
(* input debounces, sends the request and shows its outcome; its cleanup   *)
(* clears the timer and aborts the request.  React commits an input and    *)
(* runs the effect as two steps, so several changes may share one run.     *)
(* Effects are numbered in the order they ran; the first ran on mount.     *)
(*                                                                         *)
(* abort() rejects a promise of fetch or json() that has not settled; the  *)
(* rejection is delivered later.                                           *)
(***************************************************************************)
EXTENDS Integers, FiniteSets

CONSTANTS
  Texts,      \* values of the input
  Empty,      \* the first value, ''
  Short,      \* the values below two characters once trimmed
  MaxChanges  \* bound on the changes of the input

ASSUME PageAssumption == Empty \in Short /\ Short \subseteq Texts /\ MaxChanges \in Nat

VARIABLES
  query,     \* the input
  changes,   \* changes of the input so far
  effect,    \* the effect in force
  text,      \* text[k]: the value effect k ran with
  timer,     \* timer[k]: its debounce timer
  request,   \* request[k]: its request
  state      \* what is shown; of is the effect that showed it

vars == <<query, changes, effect, text, timer, request, state>>

Effects == 1..MaxChanges + 1

TypeOK ==
  /\ query \in Texts /\ changes \in 0..MaxChanges
  /\ effect \in Effects
  /\ text \in [Effects -> Texts]
  /\ timer \in [Effects -> {"off", "armed"}]
  /\ request \in [Effects -> {"none", "sent", "reading", "aborted", "settled"}]
  /\ state \in [status : {"idle", "loading", "error", "ok"}, of : Effects]

Init ==
  /\ query = Empty /\ changes = 0
  /\ effect = 1 /\ text = [k \in Effects |-> Empty]
  /\ timer = [k \in Effects |-> "off"]
  /\ request = [k \in Effects |-> "none"]
  /\ state = [status |-> "idle", of |-> 1]

\* Typing, or a category card.
setQuery ==
  /\ changes < MaxChanges
  /\ query' \in Texts \ {query}
  /\ changes' = changes + 1
  /\ UNCHANGED <<effect, text, timer, request, state>>

InFlight(k) == request[k] \in {"sent", "reading"}

aborted == IF InFlight(effect) THEN [request EXCEPT ![effect] = "aborted"] ELSE request

\* Mutant of cleared: the cleanup leaves the timer running.
clearedNever == timer

cleared == [timer EXCEPT ![effect] = "off"]

\* Mutant of RunEffect: a query equal to the last one is not sent again.
RunEffectUnlessEqual ==
  /\ query # text[effect]
  /\ effect' = effect + 1
  /\ text' = [text EXCEPT ![effect'] = query]
  /\ request' = aborted
  /\ IF query \in Short
     THEN timer' = cleared /\ state' = [status |-> "idle", of |-> effect']
     ELSE /\ timer' = IF \E k \in 1..effect : text[k] = query THEN cleared
                      ELSE [cleared EXCEPT ![effect'] = "armed"]
          /\ state' = [status |-> "loading", of |-> effect']
  /\ UNCHANGED <<query, changes>>

\* The cleanup of the last effect, then the new one; React skips a run whose query is
\* the one of the last.
RunEffect ==
  /\ query # text[effect]
  /\ effect' = effect + 1
  /\ text' = [text EXCEPT ![effect'] = query]
  /\ request' = aborted
  /\ IF query \in Short
     THEN timer' = cleared /\ state' = [status |-> "idle", of |-> effect']
     ELSE /\ timer' = [cleared EXCEPT ![effect'] = "armed"]
          /\ state' = [status |-> "loading", of |-> effect']
  /\ UNCHANGED <<query, changes>>

TimerFires(k) ==
  /\ timer[k] = "armed"
  /\ timer' = [timer EXCEPT ![k] = "off"]
  /\ request' = [request EXCEPT ![k] = "sent"]
  /\ UNCHANGED <<query, changes, effect, text, state>>

\* fetch answers with res.ok; the body is still to be read.
HeadersArrive(k) ==
  /\ request[k] = "sent"
  /\ request' = [request EXCEPT ![k] = "reading"]
  /\ UNCHANGED <<query, changes, effect, text, timer, state>>

Shows(k, status) ==
  /\ request' = [request EXCEPT ![k] = "settled"]
  /\ state' = [status |-> status, of |-> k]
  /\ UNCHANGED <<query, changes, effect, text, timer>>

BodyArrives(k) == request[k] = "reading" /\ Shows(k, "ok")

\* A status that is not ok, a lost connection, or a body that is not JSON.
RequestFails(k) == InFlight(k) /\ Shows(k, "error")

\* Mutant of AbortRejects: the AbortError is shown like any error.
AbortShown(k) == request[k] = "aborted" /\ Shows(k, "error")

AbortRejects(k) ==
  /\ request[k] = "aborted"
  /\ request' = [request EXCEPT ![k] = "settled"]
  /\ UNCHANGED <<query, changes, effect, text, timer, state>>

Progress(k) ==
  TimerFires(k) \/ HeadersArrive(k) \/ BodyArrives(k) \/ RequestFails(k) \/ AbortRejects(k)

Next == setQuery \/ RunEffect \/ \E k \in Effects : Progress(k)

\* React runs its effects, timers fire, and requests are answered or fail.
Spec == Init /\ [][Next]_vars /\ WF_vars(RunEffect)
             /\ \A k \in Effects : WF_vars(Progress(k))
-----------------------------------------------------------------------------
\* Results and errors on the screen are those of the effect in force, never of an
\* earlier query whose answer came late (SearchPage.tsx useEffect and its cleanup).
NoStaleOutcome == state.of = effect

\* However fast one types, one search at most is waiting for its timer or its answer
\* (SearchPage.tsx cleanup).
OneSearchAtATime ==
  Cardinality({k \in Effects : timer[k] = "armed" \/ InFlight(k)}) <= 1

\* Once the typing stops the page settles on the outcome for the text in the input: the
\* categories for a short one, results or an error otherwise (SearchPage.tsx useEffect).
Settled ==
  /\ text[effect] = query /\ state.of = effect
  /\ IF query \in Short THEN state.status = "idle" ELSE state.status \in {"ok", "error"}

EventuallySettles == <>[]Settled
=============================================================================
