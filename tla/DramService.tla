----------------------------- MODULE DramService -----------------------------
(***************************************************************************)
(* What a memory controller promises its caches: a request that it accepts *)
(* is served once; a served read goes back to the network once, a served   *)
(* write-back ends there; only a prefetch may be given up instead, and     *)
(* only while a new request comes in.                                      *)
(***************************************************************************)
EXTENDS Integers

CONSTANT Requests   \* mem_req_s: records with at least a type

VARIABLES
  pending,      \* accepted, not yet served
  ready,        \* served, waiting for the network
  over          \* answered, retired or given up

vars == <<pending, ready, over>>

Prefetches(S) == {r \in S : r.type = "DPRF"}
Writebacks(S) == {r \in S : r.type = "WB"}

Init == pending = {} /\ ready = {} /\ over = {}

\* accept r, giving up the prefetches in F
Accept(r, F) ==
  /\ r \notin pending \union ready \union over
  /\ F \subseteq Prefetches(pending)
  /\ pending' = (pending \ F) \union {r}
  /\ over' = over \union F
  /\ UNCHANGED ready

\* serve the requests in S together
Serve(S) ==
  /\ S # {} /\ S \subseteq pending
  /\ pending' = pending \ S
  /\ ready' = ready \union (S \ Writebacks(S))
  /\ over' = over \union Writebacks(S)

\* hand the replies in S to the network
Reply(S) ==
  /\ S # {} /\ S \subseteq ready
  /\ ready' = ready \ S
  /\ over' = over \union S
  /\ UNCHANGED pending

Next ==
  \/ \E r \in Requests : \E F \in SUBSET pending : Accept(r, F)
  \/ \E S \in SUBSET pending : Serve(S)
  \/ \E S \in SUBSET ready : Reply(S)

Spec == Init /\ [][Next]_vars
==============================================================================
