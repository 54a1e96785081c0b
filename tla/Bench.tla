-------------------------------- MODULE Bench --------------------------------
(***************************************************************************)
(* The benchmark's run: first-byte samples and a stream over the direct    *)
(* path, the same over the tunnel, and the report with the release gates.  *)
(* write_new_json, which stores it, is a command of KeyFiles.              *)
(***************************************************************************)
EXTENDS Integers, FiniteSetsExt

CONSTANTS
  SampleCounts,  \* values of --samples
  Durations,     \* durations of a sample, in whole microseconds as
                 \* duration.as_micros() gives them to the report
  Elapsed,       \* durations of a stream
  Budget,        \* the additional first-byte latency that passes (10 ms)
  MemoryBudget,  \* the memory per connection that passes (1024 KiB)
  MemoryArgs     \* [baseline, active, connections] given by the operator

ASSUME BenchAssumption ==
  /\ SampleCounts \subseteq Nat \ {0}
  /\ Durations \subseteq Nat /\ IsFiniteSet(Durations)
  /\ Elapsed \subseteq Nat /\ Budget \in Nat
  /\ \A m \in MemoryArgs : m.connections > 0

VARIABLES
  samples,    \* --samples
  memory,     \* the memory arguments: all three ({m}) or none ({})
  path,       \* the path being measured: "direct", "tunnel"; "report",
              \* "written", "failed"
  iteration,  \* iterations of collect_samples on this path
  first_byte, \* first_byte[p][d]: the number of samples of p that took d
  elapsed,    \* elapsed[p]: {} or the duration of the stream sample
  gates       \* {} or the gates of the report

benchvars == <<samples, memory, path, iteration, first_byte, elapsed, gates>>

Ends == {"direct", "tunnel"}

BenchInit ==
  /\ samples \in SampleCounts
  /\ memory \in {{}} \cup {{m} : m \in MemoryArgs}
  /\ path = "direct"
  /\ iteration = 0
  /\ first_byte = [p \in Ends |-> [d \in Durations |-> 0]]
  /\ elapsed = [p \in Ends |-> {}]
  /\ gates = {}

BenchFails ==
  /\ path' = "failed"
  /\ UNCHANGED <<samples, memory, iteration, first_byte, elapsed, gates>>

\* An iteration of collect_samples: one first_byte_sample.  A connection that
\* fails, a wrong reply or the timeout ends the run.
CollectSample ==
  /\ path \in Ends
  /\ iteration < samples
  /\ \/ BenchFails
     \/ /\ \E d \in Durations :
             first_byte' = [first_byte EXCEPT ![path][d] = @ + 1]
        /\ iteration' = iteration + 1
        /\ UNCHANGED <<samples, memory, path, elapsed, gates>>

MeasureStream ==
  /\ path \in Ends
  /\ iteration = samples
  /\ \/ BenchFails
     \/ /\ \E t \in Elapsed : elapsed' = [elapsed EXCEPT ![path] = {t}]
        /\ path' = IF path = "direct" THEN "tunnel" ELSE "report"
        /\ iteration' = 0
        /\ UNCHANGED <<samples, memory, first_byte, gates>>

-----------------------------------------------------------------------------
(* The report.                                                             *)

\* A sample is its duration and its number among those that took as long.
Samples(counts) == {s \in Durations \X (1 .. samples) : s[2] <= counts[s[1]]}
AtMost(counts, d) == Cardinality({s \in Samples(counts) : s[1] <= d})
Count(counts) == Cardinality(Samples(counts))

\* Mutant: the rank is rounded down.
rank_down(n) == (95 * n) \div 100
rank_95(n) == (95 * n + 99) \div 100

\* The element of the sorted samples that has the rank.
percentile_95(counts) ==
  Min({d \in Durations : AtMost(counts, d) >= rank_95(Count(counts))})

\* Mutant: the distance between the two.
distance_us(direct, tunnel) == IF tunnel >= direct THEN tunnel - direct ELSE direct - tunnel
compare_p95_us(direct, tunnel) ==
  IF tunnel >= direct THEN tunnel - direct ELSE -(direct - tunnel)

Duration(p) == CHOOSE t \in elapsed[p] : TRUE

\* memory_report fails when the active processes use less than the idle ones.
MemoryMeasurable == \A m \in memory : m.active >= m.baseline
MemoryGate(m) == m.active - m.baseline <= MemoryBudget * m.connections

\* endpoint_report wants a sample, and throughput_bytes_per_second a stream
\* that took some time.
Reportable(p) == Count(first_byte[p]) > 0 /\ Duration(p) > 0

WriteReport ==
  /\ path = "report"
  /\ \/ ~((\A p \in Ends : Reportable(p)) /\ MemoryMeasurable) /\ BenchFails
     \/ /\ (\A p \in Ends : Reportable(p)) /\ MemoryMeasurable
        /\ path' = "written"
        /\ gates' =
             {[latency |-> compare_p95_us(percentile_95(first_byte["direct"]),
                                          percentile_95(first_byte["tunnel"]))
                             <= Budget,
               throughput |-> 10 * Duration("direct") >= 9 * Duration("tunnel"),
               memory |-> {MemoryGate(m) : m \in memory}]}
        /\ UNCHANGED <<samples, memory, iteration, first_byte, elapsed>>

BenchNext == CollectSample \/ MeasureStream \/ WriteReport

BenchSpec == BenchInit /\ [][BenchNext]_benchvars

-----------------------------------------------------------------------------
\* The latency gate passes exactly when 95 % of the samples asked for came
\* through the tunnel within the budget of a duration that 95 % of the direct
\* ones met: for every number of samples, also when the tunnel is the faster
\* path, and never by leaving out samples that failed.  Times are the whole
\* microseconds that as_micros() leaves; it rounds down before the gate
\* compares, so measured times may exceed the budget by less than one.
LatencyGateMeans95Percent ==
  \A g \in gates :
    g.latency <=>
      \A limit \in Durations :
        100 * AtMost(first_byte["direct"], limit) >= 95 * samples =>
          100 * AtMost(first_byte["tunnel"], limit + Budget) >= 95 * samples
=============================================================================
