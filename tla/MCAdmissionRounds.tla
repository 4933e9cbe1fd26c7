-------------------------- MODULE MCAdmissionRounds --------------------------
(***************************************************************************)
(* Small snapshots for AdmissionRounds.  Spec 1 is the candidate's; specs 2 *)
(* and 3 are the neighbours, 2 with up to two instances.                   *)
(***************************************************************************)
EXTENDS AdmissionRounds

NoGPU == [g \in {} |-> 0]

Proc(id) == [id |-> id, base |-> id[1], instance |-> id[2], surplus |-> FALSE,
             gpus |-> NoGPU, ram |-> 0, inFlight |-> 0, pinned |-> FALSE,
             role |-> "chat", lastUsed |-> 0, starting |-> FALSE]

Cand == [id |-> <<1, 0>>, base |-> 1, gpus |-> NoGPU, ram |-> 0, role |-> "chat"]

Snap == [running |-> {}, maxProcesses |-> 0, now |-> 3, grace |-> 0,
         budgets |-> NoGPU, hostRAM |-> 0, hostRAMCeiling |-> 0,
         ramBootstrapInFlight |-> FALSE, ramGuess |-> 0,
         vramBootstrapEligible |-> FALSE, noEvict |-> FALSE, allowed |-> {}]

AllPairs == {{1, 2}, {1, 3}, {2, 3}}

\* The states a neighbour may be in, as far as eviction goes.
Moods(p) ==
  {[p EXCEPT !.lastUsed = t, !.inFlight = n] : t \in {1, 2}, n \in {0, 1}}
    \cup {[p EXCEPT !.starting = TRUE], [p EXCEPT !.pinned = TRUE]}

\* Every choice of at most one process per id, from the sets S1, S2 and S3.
Subsets(S1, S2, S3) ==
  {A \cup B \cup C : A \in {{}} \cup {{r} : r \in S1},
                     B \in {{}} \cup {{r} : r \in S2},
                     C \in {{}} \cup {{r} : r \in S3}}

\* Matrix, process limit, roles, burst instances and eviction grace.
LimitSnapshots ==
  {[Snap EXCEPT !.running = R, !.maxProcesses = n, !.grace = g, !.allowed = P,
                !.noEvict = b] :
     R \in Subsets(Moods(Proc(<<2, 0>>)),
                   UNION {Moods([Proc(<<2, 1>>) EXCEPT !.surplus = s]) : s \in BOOLEAN},
                   UNION {Moods([Proc(<<3, 0>>) EXCEPT !.role = x]) : x \in {"chat", "voice"}}),
     n \in {0, 1, 2}, g \in {0, 1, 2}, P \in {AllPairs, {{1, 2}}, {}}, b \in BOOLEAN}

Limits == [snapshots |-> LimitSnapshots, candidates |-> {Cand}]

\* VRAM on two GPUs, known (1, 2) and unknown (0) demands, and the bootstrap.
Demands == {NoGPU} \cup UNION {[D -> {0, 1, 2}] : D \in {{0}, {0, 1}}}

VRAMSnapshots ==
  {[Snap EXCEPT !.running = R, !.budgets = B, !.allowed = P,
                !.vramBootstrapEligible = e] :
     R \in Subsets(UNION {{[Proc(<<2, 0>>) EXCEPT !.gpus = d, !.pinned = p],
                           [Proc(<<2, 0>>) EXCEPT !.gpus = d, !.inFlight = 1]} :
                            d \in Demands, p \in BOOLEAN},
                   {[Proc(<<3, 0>>) EXCEPT !.gpus = d, !.lastUsed = 1] : d \in Demands},
                   {}),
     B \in {NoGPU} \cup [{0, 1} -> {2, 3}], P \in {AllPairs, {{1, 3}}},
     e \in BOOLEAN}

VRAM ==
  [snapshots |-> VRAMSnapshots,
   candidates |-> {[Cand EXCEPT !.gpus = d] : d \in [{0} -> {0, 1, 2, 3}] \cup [{0, 1} -> {0, 2}]}]

\* The host RAM pool, with instances and a bootstrap in flight.
RAMSnapshots ==
  {[Snap EXCEPT !.running = R, !.hostRAM = h, !.hostRAMCeiling = c, !.allowed = AllPairs,
                !.ramBootstrapInFlight = f, !.ramGuess = g, !.maxProcesses = n] :
     R \in Subsets({[Proc(<<2, 0>>) EXCEPT !.ram = m, !.inFlight = n, !.lastUsed = 2] :
                      m \in {0, 1, 2}, n \in {0, 1}},
                   {[Proc(<<2, 1>>) EXCEPT !.ram = m, !.inFlight = n, !.surplus = s] :
                      m \in {1, 2}, n \in {0, 1}, s \in BOOLEAN},
                   {[Proc(<<3, 0>>) EXCEPT !.ram = m, !.lastUsed = t] :
                      m \in {1, 3}, t \in {1, 3}}),
     h \in {0, 4}, c \in {0, 5}, f \in BOOLEAN, g \in {0, 2}, n \in {0, 2}}

RAM ==
  [snapshots |-> RAMSnapshots,
   candidates |-> {[Cand EXCEPT !.ram = m] : m \in {0, 1, 3, 5}}]

AllFamilies == {Limits, VRAM, RAM}
=============================================================================
