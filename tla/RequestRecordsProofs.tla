------------------------ MODULE RequestRecordsProofs ------------------------
(***************************************************************************)
(* Theorems about RequestRecords, for any number of requests and any       *)
(* number of crashes and failing file operations.                          *)
(***************************************************************************)
EXTENDS RequestRecords, TLAPS

Totals == [Requests -> 0..1]

\* What is read from a file are totals; those of a file that has some are its own.
LEMMA FilesAndTotals ==
  /\ NoTotals \in Totals /\ \A r \in Requests : NoTotals[r] = 0
  /\ \A file \in Totals : file # Absent /\ file # Broken /\ TotalsIn(file) = file
  /\ \A file \in Totals \union {Absent, Broken} : TotalsIn(file) \in Totals
  /\ TotalsIn(Absent) = NoTotals
<1>1. NoTotals \in Totals /\ \A r \in Requests : NoTotals[r] = 0
  BY DEF NoTotals, Totals
<1>2. \A file \in Totals : file # Absent /\ file # Broken
  BY RecordsAssumption DEF Totals
<1>. QED BY <1>1, <1>2 DEF TotalsIn

Saving == {"save", "rename"}

\* The request has not been added to the totals yet.
Uncounted == {"serving", "trajectory", "trajectory newline", "throughput",
              "throughput newline", "count"}

\* The totals are added to once per request and saved by one request at a time; the file is
\* never a broken one, and never has more than memory unless a start could not read it.
FileInv ==
  /\ \A r \in Requests : pc[r] \in Uncounted => memory[r] = 0 /\ TotalsIn(disk)[r] = 0
  /\ \A r, q \in Requests : pc[r] \in Saving /\ pc[q] \in Saving => r = q
  /\ \A r \in Requests : pc[r] = "rename" => tmp = memory
  /\ \A r \in Requests : ~up => pc[r] \notin Saving
  /\ disk # Broken
  /\ DiskIsMemory
  /\ ~unread /\ up => \A r \in Requests : TotalsIn(disk)[r] <= memory[r]

Inv == TypeOK /\ FileInv

\* What a request does to its own place and to no other's.
LEMMA Moves ==
  ASSUME TypeOK, NEW r \in Requests, NEW from, NEW to \in Steps, Goes(r, from, to)
  PROVE  /\ pc[r] = from /\ pc'[r] = to /\ pc' \in [Requests -> Steps] /\ up /\ up'
         /\ \A q \in Requests : q # r => pc'[q] = pc[q]
BY DEF Goes, TypeOK

\* Before the totals are touched, a step on the log leaves everything about the file alone.
LEMMA LogFrame ==
  ASSUME Inv, NEW r \in Requests, pc[r] \in Uncounted, pc'[r] \in Uncounted \union {"done"},
         up, up', \A q \in Requests : q # r => pc'[q] = pc[q],
         UNCHANGED <<memory, tmp, disk, synced, unread>>
  PROVE  FileInv'
<1>1. \A q \in Requests : (pc'[q] \in Saving <=> pc[q] \in Saving) /\ (pc'[q] = "rename" <=> pc[q] = "rename")
  BY DEF Uncounted, Saving
<1>2. \A q \in Requests : pc'[q] \in Uncounted => pc[q] \in Uncounted
  OBVIOUS
<1>3. StatsFree' <=> StatsFree
  BY <1>1 DEF StatsFree, Saving
<1>4. TotalsIn(disk)' = TotalsIn(disk)
  BY DEF TotalsIn
<1>. QED BY <1>1, <1>2, <1>3, <1>4 DEF Inv, FileInv, DiskIsMemory

\* The log is a sequence of entries and newlines, and stays one when one is added.
LEMMA LogGrows ==
  ASSUME TypeOK
  PROVE  /\ Len(log) \in Nat /\ log \in Seq((Requests \X Kinds) \union {Newline})
         /\ \A line \in (Requests \X Kinds) \union {Newline} :
              Append(log, line) \in Seq((Requests \X Kinds) \union {Newline})
<1>1. ASSUME NEW S, log \in Seq(S)
      PROVE  Len(log) \in Nat /\ \A line \in S : Append(log, line) \in Seq(S)
  BY <1>1
<1>. QED BY <1>1 DEF TypeOK

\* One more fault is still within the bound.
LEMMA FaultCounted == TypeOK /\ Fault => faults' \in 0..MaxFaults
BY RecordsAssumption DEF TypeOK, Fault

\* Writing and ending a line keep the file and the totals as they are.
LEMMA LineKeeps ==
  ASSUME Inv, NEW r \in Requests, NEW kind \in Kinds,
         Finishes(r) \/ WritesLine(r, kind) \/ EndsLine(r, kind)
  PROVE  Inv'
<1>0. TypeOK
  BY DEF Inv
<1>1. CASE Finishes(r)
  <2>. DEFINE to == IF r \in Retried THEN "trajectory" ELSE AfterTrajectory(r)
  <2>1. Goes(r, "serving", to) /\ to \in {"trajectory", "throughput", "done"}
        /\ UNCHANGED <<log, memory, tmp, disk, cuts, synced, unread, faults>>
    BY <1>1 DEF Finishes, AfterTrajectory
  <2>2. /\ pc[r] = "serving" /\ pc'[r] = to /\ pc' \in [Requests -> Steps] /\ up /\ up'
        /\ \A q \in Requests : q # r => pc'[q] = pc[q]
    <3>1. to \in Steps
      BY <2>1 DEF Steps
    <3>. QED BY <1>0, <2>1, <3>1, Moves
  <2>3. FileInv'
    BY <2>1, <2>2, LogFrame DEF Uncounted
  <2>4. TypeOK'
    BY <1>0, <2>1, <2>2 DEF TypeOK
  <2>. QED BY <2>3, <2>4 DEF Inv
<1>2. CASE WritesLine(r, kind)
  <2>1. Goes(r, kind, End[kind]) /\ UNCHANGED <<memory, tmp, disk, cuts, synced, unread>>
    BY <1>2 DEF WritesLine
  <2>2. End[kind] \in {"trajectory newline", "throughput newline"}
    BY DEF End, Kinds
  <2>3. /\ pc[r] = kind /\ pc'[r] = End[kind] /\ pc' \in [Requests -> Steps] /\ up /\ up'
        /\ \A q \in Requests : q # r => pc'[q] = pc[q]
    <3>1. End[kind] \in Steps
      BY <2>2 DEF Steps
    <3>. QED BY <1>0, <2>1, <3>1, Moves
  <2>4. FileInv'
    BY <2>1, <2>2, <2>3, LogFrame DEF Uncounted, Kinds
  <2>5. log' \in Seq((Requests \X Kinds) \union {Newline})
    <3>1. <<r, kind>> \in (Requests \X Kinds) \union {Newline}
      OBVIOUS
    <3>2. log' = log \/ log' = Append(log, <<r, kind>>)
      BY <1>2 DEF WritesLine
    <3>. QED BY <1>0, <3>1, <3>2, LogGrows
  <2>6. faults' \in 0..MaxFaults
    BY <1>0, <1>2, FaultCounted DEF WritesLine, TypeOK
  <2>. QED BY <1>0, <2>1, <2>3, <2>4, <2>5, <2>6 DEF Inv, TypeOK
<1>3. CASE EndsLine(r, kind)
  <2>. DEFINE to == IF kind = "trajectory" THEN AfterTrajectory(r) ELSE "count"
  <2>1. /\ Goes(r, End[kind], to) /\ to \in {"throughput", "done", "count"}
        /\ UNCHANGED <<memory, tmp, disk, synced, unread>>
    BY <1>3 DEF EndsLine, AfterTrajectory
  <2>2. End[kind] \in {"trajectory newline", "throughput newline"}
    BY DEF End, Kinds
  <2>3. /\ pc[r] = End[kind] /\ pc'[r] = to /\ pc' \in [Requests -> Steps] /\ up /\ up'
        /\ \A q \in Requests : q # r => pc'[q] = pc[q]
    <3>1. to \in Steps
      BY <2>1 DEF Steps
    <3>. QED BY <1>0, <2>1, <3>1, Moves
  <2>4. FileInv'
    BY <2>1, <2>2, <2>3, LogFrame DEF Uncounted
  <2>5. log' \in Seq((Requests \X Kinds) \union {Newline})
    <3>1. log' = log \/ log' = Append(log, Newline)
      BY <1>3 DEF EndsLine
    <3>. QED BY <1>0, <3>1, LogGrows
  <2>6. cuts' \subseteq Nat
    <3>1. cuts' \subseteq cuts \union {Len(log)}
      BY <1>3 DEF EndsLine
    <3>. QED BY <1>0, <3>1, LogGrows DEF TypeOK
  <2>7. faults' \in 0..MaxFaults
    BY <1>0, <1>3, FaultCounted DEF EndsLine, TypeOK
  <2>. QED BY <1>0, <2>1, <2>3, <2>4, <2>5, <2>6, <2>7 DEF Inv, TypeOK
<1>. QED BY <1>1, <1>2, <1>3

\* A sample is added to the totals of a request that is not in them yet, and nobody else is
\* saving.
LEMMA CountsKeeps ==
  ASSUME Inv, NEW r \in Requests, Counts(r)
  PROVE  Inv'
<1>0. TypeOK /\ FileInv
  BY DEF Inv
<1>1. /\ StatsFree /\ Goes(r, "count", "save") /\ memory' = [memory EXCEPT ![r] = @ + 1]
      /\ UNCHANGED <<log, tmp, disk, cuts, synced, unread, faults>>
  BY DEF Counts
<1>2. /\ pc[r] = "count" /\ pc'[r] = "save" /\ pc' \in [Requests -> Steps] /\ up /\ up'
      /\ \A q \in Requests : q # r => pc'[q] = pc[q]
  BY <1>0, <1>1, Moves DEF Steps
<1>3. memory \in [Requests -> 0..1] /\ memory[r] = 0
  BY <1>0, <1>2 DEF TypeOK, FileInv, Uncounted
<1>4. /\ memory' \in [Requests -> 0..1] /\ memory'[r] = 1
      /\ \A q \in Requests : q # r => memory'[q] = memory[q]
  BY <1>1, <1>3
<1>5. TypeOK'
  BY <1>0, <1>1, <1>2, <1>4 DEF TypeOK
<1>6. TotalsIn(disk)' = TotalsIn(disk) /\ TotalsIn(disk)[r] = 0
  BY <1>0, <1>1, <1>2 DEF TotalsIn, FileInv, Uncounted
<1>7. FileInv'
  <2>1. \A q \in Requests : pc'[q] \in Saving => q = r
    BY <1>1, <1>2 DEF StatsFree, Saving
  <2>2. ~StatsFree'
    BY <1>2 DEF StatsFree
  <2>3. \A q \in Requests : pc'[q] \in Uncounted => memory'[q] = 0 /\ TotalsIn(disk)'[q] = 0
    BY <1>0, <1>2, <1>4, <1>6 DEF FileInv, Uncounted
  <2>4. \A q \in Requests : pc'[q] # "rename"
    BY <1>1, <1>2 DEF StatsFree
  <2>5. ~unread' => \A q \in Requests : TotalsIn(disk)'[q] <= memory'[q]
    BY <1>0, <1>1, <1>2, <1>4, <1>6 DEF FileInv
  <2>. QED BY <1>0, <1>1, <1>2, <2>1, <2>2, <2>3, <2>4, <2>5 DEF FileInv, DiskIsMemory
<1>. QED BY <1>5, <1>7 DEF Inv

\* Who saves is alone, and what it renames is what is in memory.
LEMMA SavesKeeps ==
  ASSUME Inv, NEW r \in Requests, WritesTmp(r) \/ Renames(r)
  PROVE  Inv'
<1>0. TypeOK /\ FileInv
  BY DEF Inv
<1>1. UNCHANGED <<log, memory, cuts, unread>> /\ memory \in Totals
      /\ faults' \in 0..MaxFaults
  BY <1>0, FaultCounted DEF WritesTmp, Renames, TypeOK, Totals
<1>2. PICK from, to \in {"save", "rename", "done"} : Goes(r, from, to) /\ from \in Saving
  BY DEF WritesTmp, Renames, Saving
<1>3. /\ pc[r] = from /\ pc'[r] = to /\ pc' \in [Requests -> Steps] /\ up /\ up'
      /\ \A q \in Requests : q # r => pc'[q] = pc[q]
  BY <1>0, <1>2, Moves DEF Steps
<1>4. \A q \in Requests : /\ pc'[q] \in Saving => q = r
                          /\ pc'[q] \in Uncounted => pc[q] \in Uncounted
  BY <1>0, <1>2, <1>3 DEF FileInv, Uncounted, Saving
<1>5. \/ /\ pc'[r] = "rename" /\ tmp' = memory /\ disk' = disk /\ synced' = synced
      \/ /\ pc'[r] = "done" /\ tmp' \in {tmp, Broken} /\ disk' = disk /\ synced' = FALSE
      \/ /\ pc'[r] = "done" /\ tmp' = Absent /\ disk' = memory /\ synced' = TRUE
  <2>1. CASE WritesTmp(r)
    BY <1>0, <2>1, Moves DEF WritesTmp, Steps
  <2>2. CASE Renames(r)
    BY <1>0, <2>2, Moves DEF Renames, Steps, FileInv
  <2>. QED BY <2>1, <2>2
<1>6. TypeOK'
  <2>1. {tmp', disk'} \subseteq [Requests -> 0..1] \union {Absent, Broken}
    BY <1>0, <1>1, <1>5 DEF TypeOK, Totals
  <2>2. synced' \in BOOLEAN
    BY <1>0, <1>5 DEF TypeOK
  <2>. QED BY <1>0, <1>1, <1>3, <2>1, <2>2 DEF TypeOK
<1>7. disk' # Broken /\ TotalsIn(disk)' \in {TotalsIn(disk), memory}
      /\ (pc'[r] # "rename" /\ synced' => TotalsIn(disk)' = memory)
  BY <1>0, <1>1, <1>5, FilesAndTotals DEF TotalsIn, FileInv
<1>8. \A q \in Requests : pc'[q] = "rename" => tmp' = memory'
  BY <1>1, <1>4, <1>5 DEF Saving
<1>9. \A q \in Requests : memory[q] \in Nat
  BY <1>1 DEF Totals
<1>10. DiskIsMemory'
  BY <1>1, <1>7 DEF DiskIsMemory, StatsFree
<1>. QED BY <1>0, <1>1, <1>3, <1>4, <1>6, <1>7, <1>8, <1>9, <1>10 DEF Inv, FileInv

\* A crash loses memory and whoever was saving; the file stays.
LEMMA CrashKeeps ==
  ASSUME Inv, Crashes
  PROVE  Inv'
<1>0. TypeOK /\ FileInv
  BY DEF Inv
<1>1. /\ up' = FALSE /\ memory' = NoTotals /\ synced' = FALSE /\ UNCHANGED <<log, disk, unread>>
      /\ pc' = [r \in Requests |-> IF pc[r] \in {"serving", "done"} THEN pc[r] ELSE "lost"]
      /\ cuts' \subseteq cuts \union {Len(log)} /\ tmp' \in {tmp, Broken} /\ faults' \in 0..MaxFaults
  BY <1>0, FaultCounted DEF Crashes
<1>2. \A r \in Requests : pc'[r] \in {"serving", "done", "lost"}
                          /\ (pc'[r] = "serving" => pc[r] = "serving")
  BY <1>1
<1>3. pc' \in [Requests -> Steps]
  BY <1>1 DEF Steps
<1>4. TypeOK'
  <2>1. {up', synced', unread'} \subseteq BOOLEAN
    BY <1>0, <1>1 DEF TypeOK
  <2>2. cuts' \subseteq Nat
    BY <1>0, <1>1, LogGrows DEF TypeOK
  <2>3. {tmp', disk'} \subseteq [Requests -> 0..1] \union {Absent, Broken}
    BY <1>0, <1>1 DEF TypeOK
  <2>4. memory' \in [Requests -> 0..1] /\ faults' \in 0..MaxFaults
    BY <1>1, FilesAndTotals DEF Totals
  <2>. QED BY <1>0, <1>1, <1>3, <2>1, <2>2, <2>3, <2>4 DEF TypeOK
<1>5. TotalsIn(disk)' = TotalsIn(disk)
  BY <1>1 DEF TotalsIn
<1>. QED BY <1>0, <1>1, <1>2, <1>4, <1>5, FilesAndTotals
       DEF Inv, FileInv, Uncounted, Saving, DiskIsMemory

\* A start takes the totals of the file, or is known to have failed to read it.
LEMMA StartKeeps ==
  ASSUME Inv, Starts
  PROVE  Inv'
<1>0. TypeOK /\ FileInv
  BY DEF Inv
<1>1. /\ ~up /\ up' = TRUE /\ UNCHANGED <<pc, log, tmp, disk, cuts>>
      /\ \/ memory' = TotalsIn(disk) /\ synced' = TRUE /\ UNCHANGED <<unread, faults>>
         \/ memory' = NoTotals /\ synced' = FALSE /\ unread' = TRUE /\ faults' \in 0..MaxFaults
  BY <1>0, FaultCounted DEF Starts, FileInv
<1>2. TotalsIn(disk) \in Totals /\ TotalsIn(disk)' = TotalsIn(disk)
  BY <1>0, <1>1, FilesAndTotals DEF TypeOK, Totals, TotalsIn
<1>3. memory' \in Totals /\ memory' \in {TotalsIn(disk), NoTotals}
  BY <1>1, <1>2, FilesAndTotals
<1>4. TypeOK'
  BY <1>0, <1>1, <1>3 DEF TypeOK, Totals
<1>5. \A r \in Requests : pc'[r] \in Uncounted => memory'[r] = 0
  BY <1>0, <1>1, <1>3, FilesAndTotals DEF FileInv
<1>6. \A r \in Requests : pc'[r] \notin Saving
  BY <1>0, <1>1 DEF FileInv
<1>7. DiskIsMemory'
  BY <1>1, <1>2 DEF DiskIsMemory
<1>8. \A r \in Requests : TotalsIn(disk)[r] \in Nat
  BY <1>2 DEF Totals
<1>. QED BY <1>0, <1>1, <1>2, <1>4, <1>5, <1>6, <1>7, <1>8 DEF Inv, FileInv, Saving

\* Every step keeps memory and file together.
LEMMA RecordsStep == Inv /\ [Next]_vars => Inv'
<1>. SUFFICES ASSUME Inv, [Next]_vars PROVE Inv'
  OBVIOUS
<1>1. ASSUME NEW r \in Requests,
             \/ Finishes(r)
             \/ \E kind \in {"trajectory", "throughput"} : WritesLine(r, kind) \/ EndsLine(r, kind)
      PROVE  Inv'
  <2>1. "trajectory" \in Kinds
    BY DEF Kinds
  <2>. QED BY <1>1, <2>1, LineKeeps DEF Kinds
<1>2. CASE UNCHANGED vars
  BY <1>2 DEF vars, Inv, TypeOK, FileInv, DiskIsMemory, StatsFree, TotalsIn
<1>. QED BY <1>1, <1>2, CountsKeeps, SavesKeeps, CrashKeeps, StartKeeps DEF Next, Terminated

\* Nothing has been counted yet.
LEMMA RecordsInit == Init => Inv
<1>. SUFFICES ASSUME Init PROVE Inv
  OBVIOUS
<1>1. TypeOK
  <2>1. faults \in 0..MaxFaults
    BY RecordsAssumption DEF Init
  <2>2. <<>> \in Seq((Requests \X Kinds) \union {Newline})
    OBVIOUS
  <2>. QED BY <2>1, <2>2, FilesAndTotals DEF Init, TypeOK, Totals, Steps
<1>2. FileInv
  BY FilesAndTotals, RecordsAssumption DEF Init, FileInv, Saving, DiskIsMemory
<1>. QED BY <1>1, <1>2 DEF Inv

\* Every reachable state is well typed: in particular no sample is ever in the totals twice,
\* whatever fails and however often the process restarts.
THEOREM CountedOnce == Spec => []TypeOK
BY RecordsInit, RecordsStep, PTL DEF Spec, Inv

\* The file has the totals that memory has whenever nobody is saving and the last save worked,
\* for any number of requests that finish at the same time.
THEOREM FileFollowsMemory == Spec => []DiskIsMemory
<1>1. Inv => DiskIsMemory
  BY DEF Inv, FileInv
<1>. QED BY <1>1, RecordsInit, RecordsStep, PTL DEF Spec

\* No step takes a sample out of the file again unless a start could not read it.
THEOREM FileNeverForgets == Spec => NeverForgets
<1>1. Inv /\ [Next]_vars =>
        [~unread' => \A r \in Requests : TotalsIn(disk)[r] <= TotalsIn(disk')[r]]_vars
  <2>. SUFFICES ASSUME Inv, Next, ~unread', NEW r \in Requests
                PROVE  TotalsIn(disk)[r] <= TotalsIn(disk')[r]
    OBVIOUS
  <2>0. TypeOK /\ FileInv /\ TotalsIn(disk)[r] \in Nat
    BY FilesAndTotals DEF Inv, TypeOK, Totals
  <2>1. CASE disk' = disk
    BY <2>0, <2>1
  <2>2. ASSUME NEW q \in Requests, Renames(q), disk' = tmp, UNCHANGED unread
        PROVE  TotalsIn(disk)[r] <= TotalsIn(disk')[r]
    <3>1. pc[q] = "rename" /\ up
      BY <2>2 DEF Renames, Goes
    <3>2. disk' = memory /\ TotalsIn(memory) = memory
      BY <2>0, <2>2, <3>1, FilesAndTotals DEF FileInv, TypeOK, Totals
    <3>. QED BY <2>0, <2>2, <3>1, <3>2 DEF FileInv
  <2>3. disk' = disk \/ \E q \in Requests : Renames(q) /\ disk' = tmp /\ UNCHANGED unread
    BY DEF Next, Finishes, Counts, WritesTmp, Renames, WritesLine, EndsLine, Crashes, Starts,
           Terminated, vars
  <2>. QED BY <2>1, <2>2, <2>3
<1>. QED BY <1>1, RecordsInit, RecordsStep, PTL DEF Spec, NeverForgets
=============================================================================
