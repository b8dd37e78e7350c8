------------------------------- MODULE CciTasks -------------------------------
(***************************************************************************)
(* CCI of AlgoEngine-Core, the one indicator that computes with threads:   *)
(* the values are divided into a chunk for each hardware thread, and a     *)
(* task of std::async fills each chunk of the shared vector cciValues.     *)
(*                                                                         *)
(* There is a value for each position less than size - period: the last    *)
(* period of bars, the one with the newest bar in it, has none.            *)
(***************************************************************************)
EXTENDS Integers, FiniteSets

CONSTANTS
    Excesses,       \* how many bars there are beyond the period
    Longer,         \* by how much the object's period may exceed that of calculate
    ThreadCounts    \* what hardware_concurrency may answer: 0 when it does not know

ASSUME CciAssumption == Excesses \subseteq Nat /\ Longer \subseteq Nat /\ ThreadCounts \subseteq Nat

VARIABLES
    form,       \* "signal" is calculateSignal, "series" is calculate
    excess,     \* dataSize - period
    longer,     \* the tasks use the period of the object, not the argument of calculate
    numThreads,
    step,       \* "called", "launching", "joining", "unwinding", and how it ended
    launched,   \* how many futures there are
    next,       \* of each task the position it computes next
    last,       \* and the one it stops at
    cciValues   \* how often each position has been written

cciVars == <<form, excess, longer, numThreads, step, launched, next, last, cciValues>>

CciInit ==
    /\ form \in {"signal", "series"}
    /\ excess \in Excesses
    /\ longer \in Longer /\ (form = "signal" => longer = 0)
    /\ numThreads \in ThreadCounts
    /\ step = "called"
    /\ launched = 0
    /\ next = <<>> /\ last = <<>>
    /\ cciValues = [k \in 0 .. excess - 1 |-> 0]

\* The division by the number of threads.
Divide ==
    /\ step = "called"
    /\ step' = IF numThreads = 0 THEN "crashed" ELSE "launching"
    /\ UNCHANGED <<form, excess, longer, numThreads, launched, next, last, cciValues>>

chunkSize == excess \div numThreads
Start(i) == i * chunkSize

\* Faulty: the last chunk is no longer than the others.
LastLikeOthers(i) == Start(i) + chunkSize
End(i) == IF i = numThreads - 1 THEN excess ELSE Start(i) + chunkSize

\* An empty chunk ends the loop.
More == launched < numThreads /\ Start(launched) < End(launched)

Launch ==
    /\ step = "launching"
    /\ More
    /\ launched' = launched + 1
    /\ next' = [i \in 0 .. launched |-> IF i = launched THEN Start(i) ELSE next[i]]
    /\ last' = [i \in 0 .. launched |-> IF i = launched THEN End(i) ELSE last[i]]
    /\ UNCHANGED <<form, excess, longer, numThreads, step, cciValues>>

\* std::async throws; the futures there are wait for their tasks.
LaunchFails ==
    /\ step = "launching"
    /\ More
    /\ step' = "unwinding"
    /\ UNCHANGED <<form, excess, longer, numThreads, launched, next, last, cciValues>>

LaunchEnds ==
    /\ step = "launching"
    /\ ~More
    /\ step' = "joining"
    /\ UNCHANGED <<form, excess, longer, numThreads, launched, next, last, cciValues>>

Running(i) == next[i] < last[i]

\* Whether the period of bars from position k on lies within the data.
Fits(k) == k <= excess - longer

\* calculateCCIRange: the mean deviation may be 0, and 0 is then written.
Compute(i) ==
    /\ Running(i) /\ Fits(next[i])
    /\ cciValues' = [cciValues EXCEPT ![next[i]] = @ + 1]
    /\ next' = [next EXCEPT ![i] = @ + 1]
    /\ UNCHANGED <<form, excess, longer, numThreads, step, launched, last>>

\* The task returns in the middle of its chunk.
PastTheData(i) ==
    /\ Running(i) /\ ~Fits(next[i])
    /\ last' = [last EXCEPT ![i] = next[i]]
    /\ UNCHANGED <<form, excess, longer, numThreads, step, launched, next, cciValues>>

AllJoined == \A i \in 0 .. launched - 1 : ~Running(i)

\* calculateSignal returns the last value, which an empty vector does not have.
JoinAll ==
    /\ step = "joining"
    /\ AllJoined
    /\ step' = IF form = "signal" /\ excess = 0 THEN "crashed" ELSE "returned"
    /\ UNCHANGED <<form, excess, longer, numThreads, launched, next, last, cciValues>>

Unwind ==
    /\ step = "unwinding"
    /\ AllJoined
    /\ step' = "thrown"
    /\ UNCHANGED <<form, excess, longer, numThreads, launched, next, last, cciValues>>

CciNext ==
    \/ Divide
    \/ Launch \/ LaunchFails \/ LaunchEnds
    \/ \E i \in 0 .. launched - 1 : Compute(i) \/ PastTheData(i)
    \/ JoinAll \/ Unwind

CciSpec == CciInit /\ [][CciNext]_cciVars

-----------------------------------------------------------------------------
(* Properties. *)

(* CCI.cpp:19-39, 98-118: no two tasks write the same value and no task writes after *)
(* the call has ended.  When it returns each value has been computed whose bars are   *)
(* all there, or, with fewer values than threads, none: they are all 0.  The program  *)
(* ends only where there is nothing to divide by or no value to return.               *)
CciRangesPartition ==
    /\ \A k \in DOMAIN cciValues : cciValues[k] <= 1
    /\ step \in {"returned", "thrown", "crashed"} => AllJoined
    /\ step = "returned" =>
        \A k \in DOMAIN cciValues :
            cciValues[k] = (IF excess >= numThreads /\ Fits(k) THEN 1 ELSE 0)
    /\ step = "crashed" => numThreads = 0 \/ (form = "signal" /\ excess = 0)
=============================================================================
