------------------------------ MODULE Metrics -------------------------------
(***************************************************************************)
(* The counters of the heartbeat handler: messages received, the rate      *)
(* since the last time somebody asked, and the latencies of the last       *)
(* signals in a ring.  /debug/stats and the web page both read them, each  *)
(* in a goroutine of its own; every operation holds its mutex throughout.  *)
(***************************************************************************)
EXTENDS Integers, Sequences, FiniteSets
LOCAL INSTANCE TLC

CONSTANTS
    RingSize,     \* len(latRing)
    Durations,    \* latencies, in microseconds
    MaxMsgs       \* bound: messages a server receives

ASSUME MetricsAssumption ==
    /\ RingSize \in Nat \ {0}
    /\ Durations \subseteq Nat
    /\ MaxMsgs \in Nat

VARIABLES
    inboundMsgs, rateLastVal,
    latRing, latPos, latFull,
    durations,    \* history: the latencies recorded, in order
    reported      \* history: the messages that some rate has counted

rates == <<inboundMsgs, rateLastVal, reported>>
latencies == <<latRing, latPos, latFull, durations>>
metrics == <<rates, latencies>>

MetricsInit ==
    /\ inboundMsgs = 0 /\ rateLastVal = 0
    /\ latRing = [i \in 0..(RingSize - 1) |-> 0] /\ latPos = 0 /\ latFull = FALSE
    /\ durations = <<>> /\ reported = 0

(* The process ends; the next one starts from nothing.                     *)
MetricsReset ==
    /\ inboundMsgs' = 0 /\ rateLastVal' = 0
    /\ latRing' = [i \in 0..(RingSize - 1) |-> 0] /\ latPos' = 0 /\ latFull' = FALSE
    /\ durations' = <<>> /\ reported' = 0

countMessage ==
    /\ inboundMsgs < MaxMsgs
    /\ inboundMsgs' = inboundMsgs + 1
    /\ UNCHANGED <<rateLastVal, reported, latencies>>

Wraps(pos) == pos >= RingSize

(* The flag only tells whether the position has just wrapped.              *)
FaultyFull(pos) == Wraps(pos)

Full(pos) == latFull \/ Wraps(pos)

(* The signal for a message has returned after d.                          *)
recordLatency(d) ==
    /\ Len(durations) < inboundMsgs
    /\ latRing' = [latRing EXCEPT ![latPos] = d]
    /\ latPos' = IF Wraps(latPos + 1) THEN 0 ELSE latPos + 1
    /\ latFull' = Full(latPos + 1)
    /\ durations' = Append(durations, d)
    /\ UNCHANGED rates

(* MsgRate: the rate is 0 when the clock has not moved.                    *)
MsgRate(elapsed) ==
    /\ reported' = reported + (IF elapsed THEN inboundMsgs - rateLastVal ELSE 0)
    /\ rateLastVal' = inboundMsgs
    /\ UNCHANGED <<inboundMsgs, latencies>>

-----------------------------------------------------------------------------
Filled == IF latFull THEN RingSize ELSE latPos

FaultyRank(q, n) == (q * n) \div 100 - 1

(* int(float64(n) * 0.50) and int(float64(n) * 0.99).                      *)
Rank(q, n) == (q * n) \div 100

(* The entry of the given rank in a sorted copy of the ring, or 0.         *)
Percentile(q) ==
    LET buf == [i \in 1..Filled |-> latRing[i - 1]]
        i == Rank(q, Filled)
    IN  IF Filled = 0 THEN 0
        ELSE IF i \notin 0..(Filled - 1) THEN -1    \* index out of range
        ELSE SortSeq(buf, <)[i + 1]

Percentiles == <<Percentile(50), Percentile(99)>>

-----------------------------------------------------------------------------
MetricsNext ==
    \/ countMessage
    \/ \E d \in Durations : recordLatency(d)
    \/ \E elapsed \in BOOLEAN : MsgRate(elapsed)
    \/ MetricsReset

MetricsSpec == MetricsInit /\ [][MetricsNext]_metrics

-----------------------------------------------------------------------------
MetricsTypeOK ==
    /\ inboundMsgs \in Nat /\ rateLastVal \in Nat /\ reported \in Nat
    /\ latRing \in [0..(RingSize - 1) -> Nat] /\ latPos \in 0..(RingSize - 1)
    /\ latFull \in BOOLEAN /\ durations \in Seq(Durations)

(* The entry written k records ago.                                        *)
Back(k) == IF k <= latPos THEN latPos - k ELSE latPos - k + RingSize

(* heartbeat_handler.go:47, "a fixed ring buffer of the last latRingSize   *)
(* signalHeartbeat durations": the filled part of the ring is exactly the  *)
(* latencies recorded last, however often the ring has wrapped.            *)
RingHoldsLast ==
    /\ Filled = IF Len(durations) < RingSize THEN Len(durations) ELSE RingSize
    /\ \A k \in 1..Filled : latRing[Back(k)] = durations[Len(durations) + 1 - k]

(* The percentile a page shows is one of the latest latencies, with no     *)
(* more than q% of them below it and more than q% not above it.            *)
IsPercentile(q, p) ==
    LET n == Filled
        latest == [k \in 1..n |-> durations[Len(durations) + 1 - k]]
    IN  \/ n = 0 /\ p = 0
        \/ /\ 100 * Cardinality({k \in 1..n : latest[k] < p}) <= q * n
           /\ 100 * Cardinality({k \in 1..n : latest[k] <= p}) > q * n

(* Percentiles (heartbeat_handler.go:83-101) against that definition: the  *)
(* index never leaves the copy, and the answer is right while the ring     *)
(* fills, when it is full and after it has wrapped.                        *)
PercentilesMatch ==
    IsPercentile(50, Percentiles[1]) /\ IsPercentile(99, Percentiles[2])

(* Two pages ask for rates: a message is counted in at most one of them,   *)
(* however their questions interleave with the messages and with each      *)
(* other (heartbeat_handler.go:55, "msgs/sec since last call").            *)
RateCountsOnce == reported <= rateLastVal /\ rateLastVal <= inboundMsgs

(* The figures of the gateway are right: the ring and the rate, in every   *)
(* state and after every wrap and restart (heartbeat_handler.go:41-80).    *)
MetricsInv == MetricsTypeOK /\ RingHoldsLast /\ RateCountsOnce
=============================================================================
