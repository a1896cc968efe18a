---------------------------- MODULE CanonicalGate ----------------------------
(***************************************************************************)
(* The canonical source gate of the constitutional kernel's dispatch, and  *)
(* the worker invocations that open it.                                    *)
(*                                                                         *)
(* A domain event passes the gate with a lineage id, as an internal event, *)
(* or while _currentWorkerContext is set.  invokeWorker sets that one      *)
(* module variable, awaits the worker and restores the value it found.     *)
(* Several invocations await at the same time (the graph-capability FSM    *)
(* starts two of them in one Promise.all), so the saves and restores of    *)
(* different invocations interleave.                                       *)
(***************************************************************************)
EXTENDS Naturals, Sequences

CONSTANTS
    Domains,        \* domain FSMs that may register
    Strangers,      \* names no domain registers under
    Invocations     \* calls of ctx.invokeWorker that pass the ownership and
                    \* contract checks; the others throw and change nothing

NoContext == "no-context"
NoLineage == "no-lineage"       \* no lineageId
Unlabelled == "unlabelled"      \* a lineageId without a lineageDomain

ASSUME GateAssumption ==
    /\ Domains \cap Strangers = {}
    /\ {NoLineage, Unlabelled} \cap (Domains \cup Strangers) = {}
    /\ NoContext \notin Invocations

(* A domain event: whether its type is in INTERNAL_DOMAIN_EVENTS, the      *)
(* lineage it claims and the domain that DOMAIN_EVENT_MAP routes it to.    *)
Events == [internal : BOOLEAN,
           lineage  : {NoLineage, Unlabelled} \cup Domains \cup Strangers,
           target   : Domains]

VARIABLES
    registered,     \* keys of _domains
    ctx,            \* _currentWorkerContext
    pc,             \* where each invocation is
    prev,           \* prevCtx of each running invocation
    nested,         \* history: so far the last started was the first to end
    stack,          \* history: while nested, the running invocations in the
                    \* order they started
    last            \* history: the last event that reached its FSM

vars == <<registered, ctx, pc, prev, stack, nested, last>>

Contexts == Invocations \cup {NoContext}

Running == {i \in Invocations : pc[i] = "running"}

Nothing == [event |-> [internal |-> TRUE, lineage |-> NoLineage, target |-> NoLineage],
            busy |-> FALSE, nested |-> TRUE]

Init ==
    /\ registered = {}
    /\ ctx = NoContext
    /\ pc = [i \in Invocations |-> "idle"]
    /\ prev = [i \in Invocations |-> NoContext]
    /\ stack = <<>>
    /\ nested = TRUE
    /\ last = Nothing

-----------------------------------------------------------------------------
RegisterDomain(d) ==
    /\ registered' = registered \cup {d}
    /\ UNCHANGED <<ctx, pc, prev, stack, nested, last>>

(* Faulty variants: a gate that ignores who vouches for the event, a       *)
(* rejected invocation that runs the finally, a start that saves its own   *)
(* context, and an end that restores a variable it never saved.            *)
AdmitsLabelled(e, open) == e.lineage \in {NoLineage, Unlabelled} \cup registered

Top == stack[Len(stack)]

RejectRestoring(i) ==
    /\ pc[i] = "checking"
    /\ pc' = [pc EXCEPT ![i] = "idle"]
    /\ ctx' = prev[i]
    /\ UNCHANGED <<registered, prev, stack, nested, last>>

StartSavingItself(i) ==
    /\ pc[i] = "checking"
    /\ pc' = [pc EXCEPT ![i] = "running"]
    /\ prev' = [prev EXCEPT ![i] = i]
    /\ ctx' = i
    /\ stack' = IF nested THEN Append(stack, i) ELSE stack
    /\ UNCHANGED <<registered, nested, last>>

FinishRestoringUndefined(i) ==
    /\ pc[i] = "running"
    /\ pc' = [pc EXCEPT ![i] = "idle"]
    /\ ctx' = "undefined"
    /\ UNCHANGED <<registered, prev, nested, stack, last>>

(* The canonical source gate of dispatch().                                *)
Admits(e, open) ==
    /\ e.lineage # NoLineage \/ e.internal \/ open
    /\ e.lineage \in {NoLineage, Unlabelled} \cup registered

(* dispatch() of a domain event that gets through to its FSM; any other is *)
(* answered allowed: false and changes nothing.                            *)
Deliver(e) ==
    /\ Admits(e, ctx # NoContext)
    /\ e.target \in registered
    /\ last' = [event |-> e, busy |-> Running # {}, nested |-> nested]
    /\ UNCHANGED <<registered, ctx, pc, prev, stack, nested>>

(* An FSM calls ctx.invokeWorker: it awaits the sanity check.              *)
Request(i) ==
    /\ pc[i] = "idle"
    /\ pc' = [pc EXCEPT ![i] = "checking"]
    /\ UNCHANGED <<registered, ctx, prev, stack, nested, last>>

(* The check rejects (domain extension, HALTED, timeout): invokeWorker     *)
(* throws before it touches the context.                                   *)
Reject(i) ==
    /\ pc[i] = "checking"
    /\ pc' = [pc EXCEPT ![i] = "idle"]
    /\ UNCHANGED <<registered, ctx, prev, stack, nested, last>>

(* The check allows: save the context, set it, start the worker.           *)
Start(i) ==
    /\ pc[i] = "checking"
    /\ pc' = [pc EXCEPT ![i] = "running"]
    /\ prev' = [prev EXCEPT ![i] = ctx]
    /\ ctx' = i
    /\ stack' = IF nested THEN Append(stack, i) ELSE stack
    /\ UNCHANGED <<registered, nested, last>>

(* The worker's promise settles either way: finally restores the context   *)
(* this invocation found.                                                  *)
Finish(i) ==
    /\ pc[i] = "running"
    /\ pc' = [pc EXCEPT ![i] = "idle"]
    /\ ctx' = prev[i]
    /\ prev' = [prev EXCEPT ![i] = NoContext]
    /\ nested' = (nested /\ Top = i)
    /\ stack' = IF nested' THEN SubSeq(stack, 1, Len(stack) - 1) ELSE <<>>
    /\ UNCHANGED <<registered, last>>

Next ==
    \/ \E d \in Domains : RegisterDomain(d)
    \/ \E e \in Events : Deliver(e)
    \/ \E i \in Invocations : Request(i) \/ Reject(i) \/ Start(i) \/ Finish(i)

Spec == Init /\ [][Next]_vars

-----------------------------------------------------------------------------
(* Every variable has its type.                                            *)
TypeOK ==
    /\ registered \subseteq Domains
    /\ ctx \in Contexts
    /\ pc \in [Invocations -> {"idle", "checking", "running"}]
    /\ prev \in [Invocations -> Contexts]
    /\ stack \in Seq(Invocations)
    /\ nested \in BOOLEAN
    /\ last \in [event : Events, busy : BOOLEAN, nested : BOOLEAN] \cup {Nothing}

(* As long as invocations end in the reverse of the order they started,    *)
(* the gate is open exactly while a worker runs: its events are recognised *)
(* and the gate closes behind the last one.                                *)
GateFollowsWorkers == nested => (ctx # NoContext <=> Running # {})

(* Whatever the interleaving, an event that reached an FSM without lineage *)
(* and without being internal was let in while a worker ran, or after      *)
(* invocations had ended out of order; and none came under the name of a   *)
(* domain that is not registered.                                          *)
DeliveredIsCanonical ==
    /\ \/ last.event.lineage # NoLineage
       \/ last.event.internal
       \/ last.busy
       \/ ~last.nested
    /\ last.event.lineage \notin Strangers

(* Left open once with no worker running, the gate is open for good: every *)
(* later invocation finds a stale context and puts it back.                *)
StuckIsForever ==
    [](Running = {} /\ ctx # NoContext => [](ctx # NoContext))

(* Why GateFollowsWorkers holds: while nested, the contexts saved by the   *)
(* running invocations are a stack with the current context on top.        *)
NestInv ==
    nested =>
      /\ \A i \in Invocations : pc[i] = "running" <=> \E k \in 1..Len(stack) : stack[k] = i
      /\ \A j, k \in 1..Len(stack) : stack[j] = stack[k] => j = k
      /\ ctx = IF stack = <<>> THEN NoContext ELSE Top
      /\ \A k \in 1..Len(stack) :
             prev[stack[k]] = IF k = 1 THEN NoContext ELSE stack[k - 1]

(* Why StuckIsForever holds: no running invocation can restore an empty    *)
(* context any more.                                                       *)
GateIsStuck == ctx # NoContext /\ \A i \in Running : prev[i] # NoContext
=============================================================================
