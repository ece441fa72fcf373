------------------------------ MODULE RateLimit ------------------------------
(***************************************************************************)
(* The limiter of inbox/ratelimit.go, which stands in front of the inbox,  *)
(* of the admin's login and of the security settings: for each address a   *)
(* list of the times of the calls let through, from which every call       *)
(* first strikes those that have left the window.  Allow holds a mutex     *)
(* from before it reads the clock until it returns, so it is one step.     *)
(***************************************************************************)
EXTENDS Integers, FiniteSets

CONSTANTS
    IP,         \* addresses, the keys of the buckets
    Call,       \* calls of Allow; each comes once in the life of a process
    Limit, Window,
    LastTime    \* bound: the clock

ASSUME LimitAssumption == Limit \in Nat /\ Window \in Nat /\ LastTime \in Nat

VARIABLES
    clock,      \* the monotonic clock
    buckets,    \* buckets[ip]: the calls whose times its list has
    admitted,   \* history: all the calls that this process let through
    refused     \* history: the calls that it did not

limitVars == <<clock, buckets, admitted, refused>>

\* The list has times only; a call tells two entries with one time apart.
Event == [call: Call, at: 0..LastTime]

-----------------------------------------------------------------------------
\* Mutant: the boundary of the window counts.
KeptWithBoundary(ip) == {e \in buckets[ip] : e.at >= clock - Window}

\* Mutant: entries leave a moment too early.
KeptShort(ip) == {e \in buckets[ip] : e.at > clock - Window + 1}

Kept(ip) == {e \in buckets[ip] : e.at > clock - Window}

Unseen(c) == c \notin refused /\ \A ip \in IP : \A e \in admitted[ip] : e.call # c

\* Mutant: a call that is refused is put on the list like the others.
AllowCountsAll(c, ip) ==
    /\ Unseen(c)
    /\ buckets' = [buckets EXCEPT ![ip] = Kept(ip) \union {[call |-> c, at |-> clock]}]
    /\ IF Cardinality(Kept(ip)) >= Limit
       THEN refused' = refused \union {c} /\ UNCHANGED admitted
       ELSE /\ admitted' = [admitted EXCEPT ![ip] = @ \union {[call |-> c, at |-> clock]}]
            /\ UNCHANGED refused
    /\ UNCHANGED clock

Allow(c, ip) ==
    /\ Unseen(c)
    /\ IF Cardinality(Kept(ip)) >= Limit
       THEN /\ buckets' = [buckets EXCEPT ![ip] = Kept(ip)]
            /\ refused' = refused \union {c} /\ UNCHANGED admitted
       ELSE LET e == [call |-> c, at |-> clock] IN
            /\ buckets' = [buckets EXCEPT ![ip] = Kept(ip) \union {e}]
            /\ admitted' = [admitted EXCEPT ![ip] = @ \union {e}] /\ UNCHANGED refused
    /\ UNCHANGED clock

ClockTicks == clock < LastTime /\ clock' = clock + 1 /\ UNCHANGED <<buckets, admitted, refused>>

NoCalls == [ip \in IP |-> {}]

\* The buckets live in memory; a new process begins with none.
LimiterRestarts ==
    buckets' = NoCalls /\ admitted' = NoCalls /\ refused' = {} /\ UNCHANGED clock

LimitInit == clock = 0 /\ buckets = NoCalls /\ admitted = NoCalls /\ refused = {}

LimitNext ==
    \/ \E c \in Call, ip \in IP : Allow(c, ip)
    \/ ClockTicks
    \/ LimiterRestarts

LimitSpec == LimitInit /\ [][LimitNext]_limitVars

-----------------------------------------------------------------------------
(***************************************************************************)
(* Properties.                                                             *)
(***************************************************************************)

(* Well-formed state; a list never grows beyond Limit, whatever comes in. *)
LimitTypeOK ==
    /\ clock \in 0..LastTime
    /\ buckets \in [IP -> SUBSET Event] /\ admitted \in [IP -> SUBSET Event]
    /\ refused \subseteq Call
    /\ \A ip \in IP : Cardinality(buckets[ip]) <= Limit

(* Of one address at most Limit calls are let through in any stretch of time as long *)
(* as the window, wherever it begins, though the lists forget what they strike.      *)
WindowBound ==
    \A ip \in IP, t \in 0..LastTime :
        Cardinality({e \in admitted[ip] : t - Window < e.at /\ e.at <= t}) <= Limit

Promise == INSTANCE SlidingWindow

(* The short lists decide as the whole past would: a call is refused only when Limit *)
(* calls of its own address were let through in the window that ends with it.        *)
DecidesByWindow == Promise!PromiseSpec
=============================================================================
