--------------------------- MODULE RequestThreads ---------------------------
(***************************************************************************)
(* FastAPI's thread pool, which every service of the backend runs in.  A   *)
(* thread serves one request at a time: pc says which call of a store or   *)
(* of a remote service it makes next, frame holds the handler's local      *)
(* variables.  A step is that call with the local computation around it;   *)
(* a handler that returns, or raises, drops its frame.                     *)
(***************************************************************************)
EXTENDS Integers, FiniteSets

CONSTANTS
    Threads,     \* threads of the pool
    MaxRequests  \* bound: requests in a behaviour

ASSUME PoolAssumption == Threads # {} /\ IsFiniteSet(Threads) /\ MaxRequests \in Nat

VARIABLES
    pc,       \* where each thread is
    frame,    \* local variables of the handler it runs
    requests  \* requests begun so far

pool == <<pc, frame, requests>>

NoFrame == [op |-> "none"]

PoolInit ==
    /\ pc = [t \in Threads |-> "idle"]
    /\ frame = [t \in Threads |-> NoFrame]
    /\ requests = 0

At(t, l) == pc[t] = l

\* Thread t takes a request: its first call is l, its locals are f.
Begin(t, l, f) ==
    /\ At(t, "idle")
    /\ requests < MaxRequests
    /\ requests' = requests + 1
    /\ pc' = [pc EXCEPT ![t] = l]
    /\ frame' = [frame EXCEPT ![t] = f]

Go(t, l, f) ==
    /\ pc' = [pc EXCEPT ![t] = l]
    /\ frame' = [frame EXCEPT ![t] = f]
    /\ UNCHANGED requests

Done(t) == Go(t, "idle", NoFrame)

=============================================================================
