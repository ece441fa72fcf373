---------------------------- MODULE SlidingWindow ----------------------------
(***************************************************************************)
(* What a rate limiter promises, told with its whole past: a call is let   *)
(* through exactly if fewer than Limit calls of the same key were in the   *)
(* window that ends now.  Neither other keys nor refused calls count.      *)
(* RateLimit implements this specification without keeping the past.       *)
(***************************************************************************)
EXTENDS Integers, FiniteSets

CONSTANTS
    IP,         \* the keys that calls are counted for
    Call,       \* the calls that may come
    Limit, Window

VARIABLES
    clock,
    admitted,   \* admitted[ip]: its calls that were let through, with their times
    refused     \* the calls that were not

promised == <<clock, admitted, refused>>

\* The admitted calls of a key in the window that ends at time t, its beginning excluded.
InWindow(ip, t) == {e \in admitted[ip] : t - Window < e.at /\ e.at <= t}

Fresh(c) == c \notin refused /\ \A ip \in IP : \A e \in admitted[ip] : e.call # c

Admit(c, ip) ==
    /\ Fresh(c) /\ Cardinality(InWindow(ip, clock)) < Limit
    /\ admitted' = [admitted EXCEPT ![ip] = @ \union {[call |-> c, at |-> clock]}]
    /\ UNCHANGED <<clock, refused>>

Refuse(c, ip) ==
    /\ Fresh(c) /\ Cardinality(InWindow(ip, clock)) >= Limit
    /\ refused' = refused \union {c}
    /\ UNCHANGED <<clock, admitted>>

TimePasses == clock' > clock /\ UNCHANGED <<admitted, refused>>

\* The past is that of one process.
Forget == admitted' = [ip \in IP |-> {}] /\ refused' = {} /\ UNCHANGED clock

PromiseInit == clock = 0 /\ admitted = [ip \in IP |-> {}] /\ refused = {}

PromiseNext ==
    \/ \E c \in Call, ip \in IP : Admit(c, ip) \/ Refuse(c, ip)
    \/ TimePasses
    \/ Forget

PromiseSpec == PromiseInit /\ [][PromiseNext]_promised
=============================================================================
