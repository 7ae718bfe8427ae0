--------------------------- MODULE RequestRecords ---------------------------
(***************************************************************************)
(* What a backend keeps of the requests it has answered: a line per retry  *)
(* trajectory and per throughput sample in its log, and running totals per *)
(* provider, model and bucket, in memory and in a file that is rewritten   *)
(* with every sample and read when the process starts                      *)
(* (V0.2/throughput_stats.go and the functions in proxy.go that use it).   *)
(*                                                                         *)
(* Requests are finished concurrently, the process may die at any point,   *)
(* and writing and reading may fail.  Totals are the number of times each  *)
(* request has been added to them.                                         *)
(***************************************************************************)
EXTENDS Integers, Sequences

CONSTANTS
  Requests,
  Retried,   \* those with adjustments to record
  Sampled,   \* those that count as a throughput sample: retryCount = 0, with tokens
  Absent,    \* no file
  Broken,    \* a file that cannot be parsed
  MaxFaults  \* bound: crashes and failing file operations in all

ASSUME RecordsAssumption ==
  /\ Retried \subseteq Requests /\ Sampled \subseteq Requests /\ MaxFaults \in Nat
  /\ Absent # Broken /\ {Absent, Broken} \intersect [Requests -> 0..1] = {}

VARIABLES
  up,       \* the process runs
  pc,       \* a request: see Steps
  log,      \* the retry log: entries and newlines
  memory,   \* p.throughputStats
  tmp,      \* throughput_stats_x.json.tmp
  disk,     \* throughput_stats_x.json
  cuts,     \* history: lengths of the log at which a line was cut short
  synced,   \* history: the last save, or else the load, of this process succeeded
  unread,   \* history: some process could not read the file
  faults    \* history: the faults so far

vars == <<up, pc, log, memory, tmp, disk, cuts, synced, unread, faults>>

NoTotals == [r \in Requests |-> 0]

\* What a process that finds such a file starts with.
TotalsIn(file) == IF file \in {Absent, Broken} THEN NoTotals ELSE file

Newline == <<>>

\* Where finishClassifiedRequest is.  "trajectory" and "throughput" are about to write a
\* line, and then hold retryLogMu until the newline; "save" and "rename" hold
\* throughputStatsMu.
Steps == {"serving", "trajectory", "trajectory newline", "throughput",
          "throughput newline", "count", "save", "rename", "done", "lost"}
Kinds == {"trajectory", "throughput"}
End == [kind \in Kinds |-> IF kind = "trajectory" THEN "trajectory newline" ELSE "throughput newline"]

LogFree == \A r \in Requests : pc[r] \notin {End[kind] : kind \in Kinds}
StatsFree == \A r \in Requests : pc[r] \notin {"save", "rename"}

Fault == faults < MaxFaults /\ faults' = faults + 1

Init ==
  /\ up = TRUE /\ pc = [r \in Requests |-> "serving"] /\ log = <<>>
  /\ memory = NoTotals /\ tmp = Absent /\ disk = Absent
  /\ cuts = {} /\ synced = TRUE /\ unread = FALSE /\ faults = 0
-----------------------------------------------------------------------------
Goes(r, from, to) == pc[r] = from /\ pc' = [pc EXCEPT ![r] = to] /\ up /\ UNCHANGED up

\* finishClassifiedRequest: which of the records the request has.
AfterTrajectory(r) == IF r \in Sampled THEN "throughput" ELSE "done"

Finishes(r) ==
  /\ Goes(r, "serving", IF r \in Retried THEN "trajectory" ELSE AfterTrajectory(r))
  /\ UNCHANGED <<log, memory, tmp, disk, cuts, synced, unread, faults>>

\* The first Write of logRetryTrajectory or logThroughput.  Its error is ignored.
WritesLine(r, kind) ==
  /\ LogFree /\ Goes(r, kind, End[kind])
  /\ \/ log' = Append(log, <<r, kind>>) /\ UNCHANGED faults
     \/ Fault /\ UNCHANGED log
  /\ UNCHANGED <<memory, tmp, disk, cuts, synced, unread>>

\* The second, and the unlock.
EndsLine(r, kind) ==
  /\ Goes(r, End[kind], IF kind = "trajectory" THEN AfterTrajectory(r) ELSE "count")
  /\ \/ log' = Append(log, Newline) /\ UNCHANGED <<cuts, faults>>
     \/ Fault /\ cuts' = cuts \union {Len(log)} /\ UNCHANGED log
  /\ UNCHANGED <<memory, tmp, disk, synced, unread>>

\* A wrong Counts: the totals are saved outside the mutex.
CountsUnlocked(r) ==
  /\ Goes(r, "count", "save") /\ memory' = [memory EXCEPT ![r] = @ + 1]
  /\ UNCHANGED <<log, tmp, disk, cuts, synced, unread, faults>>

\* updateThroughputStats: the entry is found or added and the sample is added to it.
Counts(r) ==
  /\ StatsFree /\ Goes(r, "count", "save")
  /\ memory' = [memory EXCEPT ![r] = @ + 1]
  /\ UNCHANGED <<log, tmp, disk, cuts, synced, unread, faults>>

\* A wrong WritesTmp: without a temporary file.
WritesInPlace(r) ==
  /\ \/ Goes(r, "save", "rename") /\ tmp' = memory /\ UNCHANGED <<disk, synced, faults>>
     \/ Goes(r, "save", "done") /\ disk' = Broken /\ synced' = FALSE /\ Fault /\ UNCHANGED tmp
  /\ UNCHANGED <<log, memory, cuts, unread>>

\* saveThroughputStatsAtomic; an error ends it, and is only logged.
WritesTmp(r) ==
  /\ \/ Goes(r, "save", "rename") /\ tmp' = memory /\ UNCHANGED <<synced, faults>>
     \/ Goes(r, "save", "done") /\ tmp' \in {tmp, Broken} /\ synced' = FALSE /\ Fault
  /\ UNCHANGED <<log, memory, disk, cuts, unread>>

Renames(r) ==
  /\ Goes(r, "rename", "done")
  /\ \/ disk' = tmp /\ tmp' = Absent /\ synced' = TRUE /\ UNCHANGED faults
     \/ synced' = FALSE /\ Fault /\ UNCHANGED <<tmp, disk>>
  /\ UNCHANGED <<log, memory, cuts, unread>>
-----------------------------------------------------------------------------
\* The process dies, with what it was writing.  (A request that is still "serving" is one
\* that comes to the next process.)
Crashes ==
  /\ up /\ up' = FALSE /\ Fault
  /\ pc' = [r \in Requests |-> IF pc[r] \in {"serving", "done"} THEN pc[r] ELSE "lost"]
  /\ cuts' = IF LogFree THEN cuts ELSE cuts \union {Len(log)}
  /\ IF \E r \in Requests : pc[r] = "save" THEN tmp' \in {tmp, Broken} ELSE UNCHANGED tmp
  /\ memory' = NoTotals /\ synced' = FALSE
  /\ UNCHANGED <<log, disk, unread>>

\* NewProxyServer and loadThroughputStats; an error is logged and the totals start anew.
Starts ==
  /\ ~up /\ up' = TRUE
  /\ \/ disk # Broken /\ memory' = TotalsIn(disk) /\ synced' = TRUE /\ UNCHANGED <<unread, faults>>
     \/ /\ disk # Absent /\ memory' = NoTotals /\ synced' = FALSE
        /\ IF disk = Broken THEN UNCHANGED <<unread, faults>> ELSE unread' = TRUE /\ Fault
  /\ UNCHANGED <<pc, log, tmp, disk, cuts>>

Terminated == up /\ (\A r \in Requests : pc[r] \in {"done", "lost"}) /\ UNCHANGED vars

Next ==
  \/ \E r \in Requests :
       \/ Finishes(r) \/ Counts(r) \/ WritesTmp(r) \/ Renames(r)
       \/ \E kind \in {"trajectory", "throughput"} : WritesLine(r, kind) \/ EndsLine(r, kind)
  \/ Crashes \/ Starts \/ Terminated

Spec == Init /\ [][Next]_vars
-----------------------------------------------------------------------------
\* The variables have their types; a sample is counted once, whatever fails and restarts.
TypeOK ==
  /\ up \in BOOLEAN /\ pc \in [Requests -> Steps] /\ cuts \subseteq Nat
  /\ log \in Seq((Requests \X Kinds) \union {Newline})
  /\ memory \in [Requests -> 0..1]
  /\ {tmp, disk} \subseteq [Requests -> 0..1] \union {Absent, Broken}
  /\ {synced, unread} \subseteq BOOLEAN /\ faults \in 0..MaxFaults

\* The file always has the totals that memory has, once nobody is saving and if the last
\* save worked: an older state never overwrites a newer one, and a save makes up for the
\* failed ones before it (proxy.go:1996-2032).
DiskIsMemory == up /\ StatsFree /\ synced => TotalsIn(disk) = memory

\* A sample that is in the file stays there over crashes and restarts, as long as no start
\* fails to read the file (throughput_stats.go:85-87: "so a process killed mid-write can
\* never leave a half-written, corrupt stats file behind"; proxy.go:211-218).
NeverForgets ==
  [][~unread' => \A r \in Requests : TotalsIn(disk)[r] <= TotalsIn(disk')[r]]_vars
=============================================================================
