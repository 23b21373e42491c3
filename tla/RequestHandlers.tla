--------------------------- MODULE RequestHandlers ---------------------------
(***************************************************************************)
(* The request handlers of the Next.js server and the queue's workers, as  *)
(* the modules of the single services use them: a handler is at the        *)
(* statement it executes next, every await lets another one run, and a     *)
(* process can die between two statements (src/app/api, worker/runner.ts). *)
(***************************************************************************)
EXTENDS Integers, FiniteSets

CONSTANTS
    Handlers,     \* handlers that can be active at the same time
    MaxRequests,  \* bound: requests that arrive
    MaxFaults     \* bound: processes that die and statements the database refuses

ASSUME HandlerBoundAssumption == MaxRequests \in Nat /\ MaxFaults \in Nat

VARIABLES
    at,         \* at[h]: the statement h executes next
    begun,      \* requests so far
    faults,     \* faults so far
    overlapped  \* a handler has started while another one was active

handlerVars == <<at, begun, faults, overlapped>>

Idle == [h \in Handlers |-> "idle"]

HandlersInit ==
    /\ at = Idle
    /\ begun = 0 /\ faults = 0
    /\ overlapped = FALSE

Goto(h, l) == at' = [at EXCEPT ![h] = l]

\* h goes on at l; nothing else of the handlers changes.
Continue(h, l) == Goto(h, l) /\ UNCHANGED <<begun, faults, overlapped>>

End(h) == Continue(h, "idle")

\* A job or a callback is delivered to an idle handler.
Deliver(h, l) ==
    /\ at[h] = "idle"
    /\ Goto(h, l)
    /\ overlapped' = (overlapped \/ \E g \in Handlers : at[g] # "idle")
    /\ UNCHANGED faults

Begin(h, l) ==
    /\ begun < MaxRequests
    /\ begun' = begun + 1
    /\ Deliver(h, l)

\* The database refuses the statement h is at; h goes on at l.
Refused(h, l) ==
    /\ faults < MaxFaults
    /\ faults' = faults + 1
    /\ Goto(h, l)
    /\ UNCHANGED <<begun, overlapped>>

Die(h) == at[h] # "idle" /\ Refused(h, "idle")

AtRest == at = Idle

\* One handler at a time, and none of them cut off.
Undisturbed == AtRest /\ ~overlapped /\ faults = 0
=============================================================================
