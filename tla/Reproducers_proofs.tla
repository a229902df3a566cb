--------------------------- MODULE Reproducers_proofs ---------------------------
(***************************************************************************)
(* TLAPS proofs about what is read from a crash and made of it: the inputs *)
(* that a process tracked, the output it left, and the numbered scripts    *)
(* that replay them, for any number of processes, records and artifacts;   *)
(* and the minimizer, for any script, any set of sections that crash       *)
(* together, any order of accepted changes and any write that fails.  The  *)
(* bisection of the sections ends with what it requires because chunks     *)
(* cover the candidates that they are cut from and share none of them.     *)
(***************************************************************************)
EXTENDS TrackLog, Minimizer, FiniteSetTheorems, SequenceTheorems, TLAPS

\* The elements of a finite set of numbers that are less than x.
Below(S, x) == {y \in S : y < x}

\* Of two elements the greater has more of them below it, and none has all of them.
LEMMA BelowFacts ==
  ASSUME NEW S \in SUBSET Nat, IsFiniteSet(S)
  PROVE  \A x \in S : /\ Cardinality(Below(S, x)) \in 0 .. Cardinality(S) - 1
                      /\ \A z \in S : x < z => Cardinality(Below(S, x)) < Cardinality(Below(S, z))
<1>1. \A x \in S : IsFiniteSet(Below(S, x))
  BY FS_Subset DEF Below
<1>2. ASSUME NEW x \in S
      PROVE  Cardinality(Below(S, x)) \in 0 .. Cardinality(S) - 1
  <2>1. Below(S, x) \in SUBSET S /\ x \notin Below(S, x)
    BY DEF Below
  <2>2. Cardinality(Below(S, x)) <= Cardinality(S) /\ Cardinality(Below(S, x)) # Cardinality(S)
    <3>1. Below(S, x) # S
      BY <2>1
    <3>2. QED
      BY <2>1, <3>1, FS_Subset
  <2>3. Cardinality(Below(S, x)) \in Nat /\ Cardinality(S) \in Nat
    BY <1>1, FS_CardinalityType
  <2>4. QED
    BY <2>2, <2>3
<1>3. ASSUME NEW x \in S, NEW z \in S, x < z
      PROVE  Cardinality(Below(S, x)) < Cardinality(Below(S, z))
  <2>1. Below(S, x) \in SUBSET Below(S, z) /\ Below(S, x) # Below(S, z)
    <3>1. \A y \in S : y < x => y < z
      BY <1>3
    <3>2. x \in Below(S, z) /\ x \notin Below(S, x)
      BY <1>3 DEF Below
    <3>3. Below(S, x) \in SUBSET Below(S, z)
      BY <3>1 DEF Below
    <3>4. QED
      BY <3>2, <3>3
  <2>2. /\ Cardinality(Below(S, x)) <= Cardinality(Below(S, z))
        /\ Cardinality(Below(S, x)) # Cardinality(Below(S, z))
    BY <1>1, <2>1, FS_Subset
  <2>3. Cardinality(Below(S, x)) \in Nat /\ Cardinality(Below(S, z)) \in Nat
    BY <1>1, FS_CardinalityType
  <2>4. QED
    BY <2>2, <2>3
<1>4. QED
  BY <1>2, <1>3

\* Sorting keeps the elements, each once, and puts them in ascending order.
LEMMA SortedFacts ==
  ASSUME NEW S \in SUBSET Nat, IsFiniteSet(S)
  PROVE  /\ Sorted(S) \in Seq(S) /\ Len(Sorted(S)) = Cardinality(S) /\ Cardinality(S) \in Nat
         /\ \A x \in S : \E i \in 1 .. Cardinality(S) : Sorted(S)[i] = x
         /\ \A i, j \in 1 .. Cardinality(S) : i < j => Sorted(S)[i] < Sorted(S)[j]
<1> DEFINE size == Cardinality(S)
           place == [x \in S |-> Cardinality(Below(S, x)) + 1]
<1>0. size \in Nat
  BY FS_CardinalityType
<1>1. place \in [S -> 1 .. size]
  BY <1>0, BelowFacts
<1>2. \A x, z \in S : x < z => place[x] < place[z]
  BY BelowFacts
<1>3. \A x, z \in S : place[x] = place[z] => x = z
  <2> HIDE DEF place
  <2>1. \A x, z \in S : place[x] \in Nat /\ x \in Nat /\ z \in Nat
    BY <1>1
  <2>2. QED
    BY <1>2, <2>1
<1>4. \A i \in 1 .. size : \E x \in S : place[x] = i
  <2>1. IsFiniteSet(1 .. size) /\ Cardinality(1 .. size) = size
    BY <1>0, FS_Interval
  <2>2. SUFFICES ASSUME NEW i \in 1 .. size, \A x \in S : place[x] # i
                 PROVE  FALSE
    OBVIOUS
  <2>3. place \in [S -> (1 .. size) \ {i}]
    BY <1>1, <2>2
  <2>4. IsFiniteSet((1 .. size) \ {i}) /\ Cardinality((1 .. size) \ {i}) = size - 1
    BY <2>1, FS_RemoveElement, ZenonT(30)
  <2>5. \E x, z \in S : x # z /\ place[x] = place[z]
    <3> HIDE DEF place
    <3>1. size - 1 < size
      BY <1>0
    <3>2. QED
      BY <2>3, <2>4, <3>1, FS_PigeonHole
  <2>6. QED
    BY <2>5, <1>3
<1>5. \A x \in S : Cardinality({y \in S : y < x}) = place[x] - 1
  <2>1. \A x \in S : {y \in S : y < x} = Below(S, x) /\ Cardinality(Below(S, x)) \in Nat
    BY BelowFacts, <1>0 DEF Below
  <2>2. QED
    BY <2>1
<1>6. \A i \in 1 .. size : Sorted(S)[i] \in S /\ place[Sorted(S)[i]] = i
  <2> HIDE DEF place
  <2>1. TAKE i \in 1 .. size
  <2>2. Sorted(S)[i] = CHOOSE x \in S : Cardinality({y \in S : y < x}) = i - 1
    BY DEF Sorted
  <2>3. \A x \in S : Cardinality({y \in S : y < x}) = i - 1 <=> place[x] = i
    BY <1>0, <1>1, <1>5
  <2>4. QED
    BY <1>4, <2>2, <2>3, ZenonT(30)
<1>7. Sorted(S) \in [1 .. size -> S]
  BY <1>6 DEF Sorted
<1> HIDE DEF place
<1>8. Sorted(S) \in Seq(S) /\ Len(Sorted(S)) = size
  BY <1>0, <1>7
<1>9. \A x \in S : \E i \in 1 .. size : Sorted(S)[i] = x
  BY <1>1, <1>3, <1>6
<1>10. \A i, j \in 1 .. size : i < j => Sorted(S)[i] < Sorted(S)[j]
  <2>1. TAKE i, j \in 1 .. size
  <2>2. HAVE i < j
  <2>3. Sorted(S)[i] \in Nat /\ Sorted(S)[j] \in Nat /\ i \in Int /\ j \in Int
    <3>1. S \subseteq Nat /\ i \in Int /\ j \in Int
      BY <1>0
    <3>2. QED
      BY <1>6, <3>1
  <2>4. ~ Sorted(S)[j] < Sorted(S)[i]
    BY <1>2, <1>6, <2>2, <2>3
  <2>5. Sorted(S)[j] # Sorted(S)[i]
    BY <1>6, <2>2, <2>3
  <2>6. QED
    BY <2>3, <2>4, <2>5
<1>11. QED
  BY <1>0, <1>8, <1>9, <1>10

\* A set that is not empty has a least element and a greatest.
LEMMA LeastAndGreatest ==
  ASSUME NEW S \in SUBSET Nat, IsFiniteSet(S), S # {}
  PROVE  /\ Min(S) \in S /\ \A x \in S : Min(S) <= x
         /\ Max(S) \in S /\ \A x \in S : x <= Max(S)
<1> DEFINE s == Sorted(S)
           n == Cardinality(S)
<1>1. /\ s \in Seq(S) /\ Len(s) = n /\ n \in Nat
      /\ \A x \in S : \E i \in 1 .. n : s[i] = x
      /\ \A i, j \in 1 .. n : i < j => s[i] < s[j]
  BY SortedFacts
<1>2. n >= 1
  <2>1. PICK x \in S : TRUE
    OBVIOUS
  <2>2. PICK i \in 1 .. n : s[i] = x
    BY <1>1, <2>1
  <2>3. QED
    BY <1>1, <2>2
<1> HIDE DEF s, n
<1>3. s[1] \in S /\ s[n] \in S
  BY <1>1, <1>2
<1>4. \A x \in S : s[1] <= x /\ x <= s[n]
  <2>1. TAKE x \in S
  <2>2. PICK i \in 1 .. n : s[i] = x
    BY <1>1
  <2>3. s[1] \in Nat /\ s[n] \in Nat /\ x \in Nat
    BY <1>3
  <2>4. (i = 1 \/ 1 < i) /\ (i = n \/ i < n)
    BY <1>1
  <2>5. QED
    BY <1>1, <1>2, <2>2, <2>3, <2>4
<1>5. Min(S) \in S /\ \A x \in S : Min(S) <= x
  BY <1>3, <1>4 DEF Min
<1>6. \A x \in S : s[n] >= x
  BY <1>3, <1>4
<1>7. Max(S) \in S /\ \A x \in S : Max(S) >= x
  BY <1>3, <1>6 DEF Max
<1>8. \A x \in S : x <= Max(S)
  <2>1. \A x \in S : x \in Nat
    OBVIOUS
  <2>2. QED
    BY <1>7, <2>1
<1>9. QED
  BY <1>5, <1>7, <1>8

Whence == [child : Nat, at : Nat]

\* The harness's files: each child has one entry in each index, in the order in which the
\* children started, made before anything it wrote.
Indexed ==
  /\ children \in Seq(Pids)
  /\ alive \subseteq 1 .. Len(children)
  /\ log \in Seq([child : Nat, whole : BOOLEAN])
  /\ idx \in Seq(Whence) /\ cap \in Seq(Whence)
  /\ out \in Seq(Nat) /\ Len(out) <= MaxPrints
  /\ Len(idx) = Len(children) /\ Len(cap) = Len(children)
  /\ \A c \in 1 .. Len(children) : idx[c].child = c /\ cap[c].child = c
  /\ \A c \in 1 .. Len(children) : idx[c].at <= Len(log) /\ cap[c].at <= Len(out)
  /\ \A c, d \in 1 .. Len(children) : c <= d => idx[c].at <= idx[d].at /\ cap[c].at <= cap[d].at
  /\ \A i \in 1 .. Len(log) : log[i].child \in 1 .. Len(children) /\ idx[log[i].child].at < i

\* The inputs that processes of a pid have recorded.
Recorded(pid) == {i \in 1 .. Len(log) : Pid(log[i]) = pid}

ReaderType ==
  [pc : {"idle", "indexed", "done"}, pid : Pids \cup {0}, start : Nat, from : Nat, to : Nat, count : Nat,
   last : Nat, output : Seq(Nat), had : Nat, started : Nat]

\* What the reader took from the indexes goes on to be true of the files that grow: nothing
\* of its pid lies before the start, and its bounds are those of the pid's last process.
Heading ==
  reader.pc = "indexed" =>
    LET mine == {c \in 1 .. reader.started : children[c] = reader.pid} IN
      /\ reader.started <= Len(children) /\ reader.start <= Len(log)
      /\ \A c \in 1 .. Len(children) : children[c] = reader.pid => reader.start <= idx[c].at
      /\ reader.had <= Cardinality(Recorded(reader.pid))
      /\ mine = {} => reader.from = MaxPrints /\ reader.to = 0
      /\ mine # {} => \E last \in mine :
           /\ \A d \in mine : d <= last
           /\ reader.from = cap[last].at
           /\ reader.to = IF last < reader.started THEN cap[last + 1].at ELSE MaxPrints

TrackInv == Indexed /\ reader \in ReaderType /\ Heading

-----
\* Empty files have nothing to index.
LEMMA IndexedBegins == TrackInit => TrackInv
<1> SUFFICES ASSUME TrackInit PROVE TrackInv
  OBVIOUS
<1> USE DEF TrackInit
<1>1. Indexed
  BY TrackAssumption DEF Indexed
<1>2. reader \in ReaderType
  BY DEF ReaderType, ReaderIdle
<1>3. Heading
  BY DEF Heading, ReaderIdle
<1>4. QED
  BY <1>1, <1>2, <1>3 DEF TrackInv

\* A step of the harness only appends to its files.
Grows ==
  /\ Len(children) <= Len(children') /\ \A c \in 1 .. Len(children) : children'[c] = children[c]
  /\ Len(log) <= Len(log') /\ \A i \in 1 .. Len(log) : log'[i] = log[i]
  /\ \A c \in 1 .. Len(children) : idx'[c] = idx[c] /\ cap'[c] = cap[c]
  /\ \A c \in 1 .. Len(children') : c > Len(children) => idx'[c].at = Len(log)

\* Finite, and never fewer when the log grows.
LEMMA RecordedFacts ==
  ASSUME Indexed, NEW pid
  PROVE  /\ IsFiniteSet(Recorded(pid)) /\ Cardinality(Recorded(pid)) \in Nat
         /\ Indexed' /\ Grows => Cardinality(Recorded(pid)) <= Cardinality(Recorded(pid)')
<1>1. Len(log) \in Nat
  BY DEF Indexed
<1>2. IsFiniteSet(Recorded(pid)) /\ Cardinality(Recorded(pid)) \in Nat
  <2>1. IsFiniteSet(1 .. Len(log))
    BY <1>1, FS_Interval
  <2>2. QED
    BY <2>1, FS_Subset, FS_CardinalityType DEF Recorded
<1>3. ASSUME Indexed', Grows
      PROVE  Cardinality(Recorded(pid)) <= Cardinality(Recorded(pid)')
  <2>1. Len(log') \in Nat
    BY <1>3 DEF Indexed
  <2>2. IsFiniteSet(1 .. Len(log'))
    BY <2>1, FS_Interval
  <2>3. IsFiniteSet(Recorded(pid)')
    BY <2>2, FS_Subset DEF Recorded
  <2>4. Recorded(pid) \in SUBSET Recorded(pid)'
    BY <1>1, <1>3, <2>1, SMTT(30) DEF Recorded, Pid, Indexed, Grows
  <2>5. QED
    BY <2>3, <2>4, FS_Subset
<1>4. QED
  BY <1>2, <1>3

\* A new process begins its log where the last entry ended.
LEMMA StartChildStep ==
  ASSUME Indexed, StartChild
  PROVE  Indexed' /\ Grows
<1>1. PICK pid \in Pids : children' = Append(children, pid)
  BY DEF StartChild
<1> DEFINE child == Len(children) + 1
<1>2. /\ child \in Nat /\ Len(log) \in Nat /\ Len(out) \in Nat /\ log' = log /\ out' = out
      /\ idx' = Append(idx, [child |-> child, at |-> Len(log)])
      /\ cap' = Append(cap, [child |-> child, at |-> Len(out)])
      /\ alive' = {child}
  BY DEF StartChild, Indexed
<1>3. /\ children' \in Seq(Pids) /\ Len(children') = child
      /\ \A c \in 1 .. Len(children) : children'[c] = children[c]
  BY <1>1 DEF Indexed
<1>4. [child |-> child, at |-> Len(log)] \in Whence /\ [child |-> child, at |-> Len(out)] \in Whence
  BY <1>2 DEF Whence
<1>5. /\ idx' \in Seq(Whence) /\ Len(idx') = child
      /\ \A c \in 1 .. Len(children) : idx'[c] = idx[c]
      /\ idx'[child] = [child |-> child, at |-> Len(log)]
  <2> HIDE DEF Whence
  <2>1. idx \in Seq(Whence) /\ Len(idx) = Len(children)
    BY DEF Indexed
  <2>2. QED
    BY <1>2, <1>4, <2>1, AppendProperties
<1>6. /\ cap' \in Seq(Whence) /\ Len(cap') = child
      /\ \A c \in 1 .. Len(children) : cap'[c] = cap[c]
      /\ cap'[child] = [child |-> child, at |-> Len(out)]
  BY <1>2, <1>4, SMTT(30) DEF Indexed
<1>7. \A c \in 1 .. child : c = child \/ c \in 1 .. Len(children)
  BY <1>2
<1> HIDE DEF child
<1>8. \A c \in 1 .. Len(children) : idx[c] \in Whence /\ cap[c] \in Whence
  BY DEF Indexed
<1>9. \A c \in 1 .. child : /\ idx'[c].child = c /\ cap'[c].child = c
                            /\ idx'[c].at <= Len(log) /\ cap'[c].at <= Len(out)
  BY <1>2, <1>5, <1>6, <1>7 DEF Indexed
<1>10. \A c, d \in 1 .. child : c <= d => idx'[c].at <= idx'[d].at /\ cap'[c].at <= cap'[d].at
  <2>1. TAKE c, d \in 1 .. child
  <2>2. HAVE c <= d
  <2>3. CASE d = child
    BY <2>3, <1>5, <1>6, <1>9
  <2>4. CASE d \in 1 .. Len(children)
    <3>1. c \in 1 .. Len(children)
      BY <2>2, <2>4, <1>7, <1>2 DEF child
    <3>2. QED
      BY <2>2, <2>4, <3>1, <1>5, <1>6 DEF Indexed
  <2>5. QED
    BY <2>3, <2>4, <1>7
<1>11. \A i \in 1 .. Len(log) : log[i].child \in 1 .. child /\ idx'[log[i].child].at < i
  BY <1>2, <1>5 DEF Indexed, child
<1>12. Indexed'
  BY <1>2, <1>3, <1>5, <1>6, <1>9, <1>10, <1>11 DEF Indexed
<1>13. Grows
  BY <1>2, <1>3, <1>5, <1>6, <1>7 DEF Grows, child
<1>14. QED
  BY <1>12, <1>13

\* Appending a record of a child.
LEMMA RecordStep ==
  ASSUME Indexed, NEW child \in 1 .. Len(children), NEW whole \in BOOLEAN,
         log' = Append(log, [child |-> child, whole |-> whole]),
         alive' \subseteq alive, UNCHANGED <<children, idx, out, cap>>
  PROVE  Indexed' /\ Grows
<1>1. Len(log) \in Nat /\ Len(children) \in Nat
  BY DEF Indexed
<1>2. [child |-> child, whole |-> whole] \in [child : Nat, whole : BOOLEAN]
  BY <1>1
<1>3. /\ log' \in Seq([child : Nat, whole : BOOLEAN]) /\ Len(log') = Len(log) + 1
      /\ \A i \in 1 .. Len(log) : log'[i] = log[i]
      /\ log'[Len(log) + 1] = [child |-> child, whole |-> whole]
  BY <1>2 DEF Indexed
<1>4. \A i \in 1 .. Len(log') : i \in 1 .. Len(log) \/ i = Len(log) + 1
  BY <1>1, <1>3
<1>5. \A c \in 1 .. Len(children) : idx[c].at \in Nat /\ idx[c].at <= Len(log)
  <2>1. \A c \in 1 .. Len(children) : idx[c] \in Whence
    BY DEF Indexed
  <2>2. QED
    BY <2>1 DEF Indexed, Whence
<1>6. \A i \in 1 .. Len(log') : log'[i].child \in 1 .. Len(children) /\ idx[log'[i].child].at < i
  BY <1>1, <1>3, <1>4, <1>5 DEF Indexed
<1>7. \A c \in 1 .. Len(children) : idx[c].at <= Len(log')
  BY <1>1, <1>3, <1>5
<1>8. Indexed'
  BY <1>3, <1>6, <1>7 DEF Indexed
<1>9. Grows
  BY <1>1, <1>3 DEF Grows
<1>10. QED
  BY <1>8, <1>9

\* A process that prints adds to the captured output, under its own pid.
LEMMA PrintStep ==
  ASSUME Indexed, NEW child, PrintOutput(child)
  PROVE  Indexed' /\ Grows
<1>1. /\ child \in 1 .. Len(children) /\ Len(out) < MaxPrints /\ out' = Append(out, child)
      /\ UNCHANGED <<children, alive, log, idx, cap>>
  BY DEF PrintOutput, Indexed
<1>2. Len(out) \in Nat /\ Len(children) \in Nat /\ MaxPrints \in Nat
  BY TrackAssumption DEF Indexed
<1>3. out' \in Seq(Nat) /\ Len(out') = Len(out) + 1
  BY <1>1, <1>2 DEF Indexed
<1>4. \A c \in 1 .. Len(children) : cap[c].at \in Nat /\ cap[c].at <= Len(out')
  <2>1. \A c \in 1 .. Len(children) : cap[c] \in Whence
    BY DEF Indexed
  <2>2. \A c \in 1 .. Len(children) : cap[c].at \in Nat /\ cap[c].at <= Len(out)
    BY <2>1 DEF Indexed, Whence
  <2>3. QED
    BY <1>2, <1>3, <2>2
<1>5. Indexed'
  BY <1>1, <1>2, <1>3, <1>4 DEF Indexed
<1>6. Grows
  BY <1>1, <1>2 DEF Grows, Indexed
<1>7. QED
  BY <1>5, <1>6

\* Each step of the harness.
LEMMA HarnessStep ==
  ASSUME Indexed, Harness
  PROVE  Indexed' /\ Grows /\ reader' = reader
<1>1. CASE StartChild
  BY <1>1, StartChildStep DEF StartChild
<1>2. CASE ChildEnds
  <2>1. Indexed'
    BY <1>2 DEF ChildEnds, Indexed
  <2>2. Grows
    BY <1>2 DEF ChildEnds, Grows, Indexed
  <2>3. QED
    BY <1>2, <2>1, <2>2 DEF ChildEnds
<1>3. ASSUME NEW child \in 1 .. MaxChildren, RecordInput(child)
      PROVE  Indexed' /\ Grows /\ reader' = reader
  <2>1. /\ child \in 1 .. Len(children) /\ log' = Append(log, [child |-> child, whole |-> TRUE])
        /\ alive' \subseteq alive /\ UNCHANGED <<children, idx, out, cap, reader>>
    BY <1>3 DEF RecordInput, Indexed
  <2>2. QED
    BY <2>1, RecordStep
<1>4. ASSUME NEW child \in 1 .. MaxChildren, MachineStops(child)
      PROVE  Indexed' /\ Grows /\ reader' = reader
  <2>1. /\ child \in 1 .. Len(children) /\ log' = Append(log, [child |-> child, whole |-> FALSE])
        /\ alive' \subseteq alive /\ UNCHANGED <<children, idx, out, cap, reader>>
    BY <1>4 DEF MachineStops, Indexed
  <2>2. QED
    BY <2>1, RecordStep
<1>5. ASSUME NEW child \in 1 .. MaxChildren, PrintOutput(child)
      PROVE  Indexed' /\ Grows /\ reader' = reader
  BY <1>5, PrintStep DEF PrintOutput
<1>6. QED
  BY <1>1, <1>2, <1>3, <1>4, <1>5 DEF Harness

\* What the reader holds outlasts every step of the harness.
LEMMA HeadingStays ==
  ASSUME TrackInv, Indexed', Grows, reader' = reader
  PROVE  TrackInv'
<1>1. reader' \in ReaderType
  BY DEF TrackInv
<1>2. ASSUME reader.pc = "indexed"
      PROVE  Heading'
  <2> DEFINE mine == {c \in 1 .. reader.started : children[c] = reader.pid}
  <2>1. /\ reader.started <= Len(children) /\ reader.start <= Len(log)
        /\ \A c \in 1 .. Len(children) : children[c] = reader.pid => reader.start <= idx[c].at
        /\ reader.had <= Cardinality(Recorded(reader.pid))
        /\ mine = {} => reader.from = MaxPrints /\ reader.to = 0
        /\ mine # {} => \E last \in mine :
             /\ \A d \in mine : d <= last
             /\ reader.from = cap[last].at
             /\ reader.to = IF last < reader.started THEN cap[last + 1].at ELSE MaxPrints
    BY <1>2 DEF TrackInv, Heading
  <2>2. /\ reader.started \in Nat /\ reader.start \in Nat /\ reader.had \in Nat
        /\ Len(children) \in Nat /\ Len(children') \in Nat /\ Len(log) \in Nat /\ Len(log') \in Nat
    BY DEF TrackInv, Indexed, ReaderType
  <2>3. mine' = mine
    <3>1. 1 .. reader.started \subseteq 1 .. Len(children)
      BY <2>1, <2>2
    <3>2. \A c \in 1 .. reader.started : children'[c] = children[c]
      BY <3>1 DEF Grows
    <3>3. QED
      BY <3>2
  <2>4. \A c \in 1 .. Len(children') : children'[c] = reader.pid => reader.start <= idx'[c].at
    <3>1. TAKE c \in 1 .. Len(children')
    <3>2. HAVE children'[c] = reader.pid
    <3>3. CASE c \in 1 .. Len(children)
      BY <3>2, <3>3, <2>1 DEF Grows
    <3>4. CASE c > Len(children)
      BY <3>4, <2>1 DEF Grows
    <3>5. QED
      BY <3>3, <3>4, <2>2
  <2>5. reader.had <= Cardinality(Recorded(reader.pid)')
    <3>1. /\ Cardinality(Recorded(reader.pid)) <= Cardinality(Recorded(reader.pid)')
          /\ Cardinality(Recorded(reader.pid)) \in Nat
      BY RecordedFacts DEF TrackInv
    <3>2. Cardinality(Recorded(reader.pid)') \in Nat
      <4>1. IsFiniteSet(1 .. Len(log'))
        BY <2>2, FS_Interval
      <4>2. QED
        BY <4>1, FS_Subset, FS_CardinalityType DEF Recorded
    <3>3. QED
      BY <2>1, <2>2, <3>1, <3>2
  <2>6. ASSUME mine # {}
        PROVE  \E last \in mine :
             /\ \A d \in mine : d <= last
             /\ reader.from = cap'[last].at
             /\ reader.to = IF last < reader.started THEN cap'[last + 1].at ELSE MaxPrints
    <3>1. PICK last \in mine :
             /\ \A d \in mine : d <= last
             /\ reader.from = cap[last].at
             /\ reader.to = IF last < reader.started THEN cap[last + 1].at ELSE MaxPrints
      BY <2>1, <2>6
    <3>2. last \in 1 .. reader.started
      OBVIOUS
    <3>3. cap'[last] = cap[last]
      BY <2>1, <2>2, <3>2 DEF Grows
    <3>4. last < reader.started => cap'[last + 1] = cap[last + 1]
      BY <2>1, <2>2, <3>2 DEF Grows
    <3> HIDE DEF mine
    <3>5. QED
      BY <3>1, <3>3, <3>4
  <2>7. reader.started <= Len(children') /\ reader.start <= Len(log')
    BY <2>1, <2>2 DEF Grows
  <2> HIDE DEF mine
  <2>8. mine = {} => reader.from = MaxPrints /\ reader.to = 0
    BY <2>1
  <2>9. QED
    BY <2>3, <2>4, <2>5, <2>6, <2>7, <2>8 DEF Heading, mine
<1>3. ASSUME reader.pc # "indexed"
      PROVE  Heading'
  BY <1>3 DEF Heading
<1>4. QED
  BY <1>1, <1>2, <1>3 DEF TrackInv

-----------------------------------------------------------------------------
\* The entries of a pid: their places are the places of its processes.
LEMMA EntriesOfPid ==
  ASSUME Indexed, NEW pid
  PROVE  /\ {i \in 1 .. Len(idx) : Pid(idx[i]) = pid} = {c \in 1 .. Len(children) : children[c] = pid}
         /\ {i \in 1 .. Len(cap) : Pid(cap[i]) = pid} = {c \in 1 .. Len(children) : children[c] = pid}
         /\ {c \in 1 .. Len(children) : children[c] = pid} \in SUBSET Nat
         /\ IsFiniteSet({c \in 1 .. Len(children) : children[c] = pid})
<1>1. Len(children) \in Nat /\ Len(idx) = Len(children) /\ Len(cap) = Len(children)
  BY DEF Indexed
<1>2. \A c \in 1 .. Len(children) : Pid(idx[c]) = children[c] /\ Pid(cap[c]) = children[c]
  BY DEF Indexed, Pid
<1>3. IsFiniteSet(1 .. Len(children))
  BY <1>1, FS_Interval
<1>4. IsFiniteSet({c \in 1 .. Len(children) : children[c] = pid})
  BY <1>3, FS_Subset
<1>5. {i \in 1 .. Len(idx) : Pid(idx[i]) = pid} = {c \in 1 .. Len(children) : children[c] = pid}
  BY <1>1, <1>2
<1>6. {i \in 1 .. Len(cap) : Pid(cap[i]) = pid} = {c \in 1 .. Len(children) : children[c] = pid}
  BY <1>1, <1>2
<1>7. {c \in 1 .. Len(children) : children[c] = pid} \in SUBSET Nat
  BY <1>1
<1>8. QED
  BY <1>4, <1>5, <1>6, <1>7

\* Nothing that a process of the pid wrote lies before the offset where reading starts.
LEMMA StartFacts ==
  ASSUME Indexed, NEW pid
  PROVE  /\ StartOffset(pid) \in Nat /\ StartOffset(pid) <= Len(log)
         /\ \A c \in 1 .. Len(children) : children[c] = pid => StartOffset(pid) <= idx[c].at
<1> DEFINE those == {c \in 1 .. Len(children) : children[c] = pid}
<1>1. /\ {i \in 1 .. Len(idx) : Pid(idx[i]) = pid} = those
      /\ those \in SUBSET Nat /\ IsFiniteSet(those)
  BY EntriesOfPid
<1>2. \A c \in 1 .. Len(children) : idx[c].at \in Nat /\ idx[c].at <= Len(log)
  <2>1. \A c \in 1 .. Len(children) : idx[c] \in Whence
    BY DEF Indexed
  <2>2. QED
    BY <2>1 DEF Indexed, Whence
<1>3. DOMAIN idx = 1 .. Len(idx) /\ Len(log) \in Nat
  BY DEF Indexed
<1>4. CASE those = {}
  <2>1. StartOffset(pid) = 0
    BY <1>1, <1>3, <1>4 DEF StartOffset
  <2>2. QED
    BY <2>1, <1>2, <1>3
<1>5. CASE those # {}
  <2>1. \E i \in DOMAIN idx : Pid(idx[i]) = pid
    BY <1>1, <1>3, <1>5
  <2>2. SelectInSeq(idx, LAMBDA e : Pid(e) = pid) = Min(those)
    BY <1>1, <1>5 DEF SelectInSeq
  <2>3. StartOffset(pid) = idx[Min(those)].at
    BY <2>1, <2>2 DEF StartOffset
  <2>4. Min(those) \in those /\ \A c \in those : Min(those) <= c
    BY <1>1, <1>5, LeastAndGreatest
  <2>5. Min(those) \in 1 .. Len(children)
    BY <2>4
  <2>6. \A c \in those : idx[Min(those)].at <= idx[c].at
    BY <2>4, <2>5 DEF Indexed
  <2>7. QED
    BY <1>2, <2>3, <2>5, <2>6
<1>6. QED
  BY <1>4, <1>5

\* The pid's processes, and the last of them that has an entry.
Processes(pid) == {c \in 1 .. Len(children) : children[c] = pid}
LastProcess(pid) == SelectLastInSeq(cap, LAMBDA e : Pid(e) = pid)

\* The last process of a pid is the greatest of its entries.
LEMMA LastFacts ==
  ASSUME Indexed, NEW pid
  PROVE  /\ Processes(pid) = {} => LastProcess(pid) = 0
         /\ Processes(pid) # {} => /\ LastProcess(pid) \in Processes(pid)
                                  /\ \A d \in Processes(pid) : d <= LastProcess(pid)
<1>1. /\ {i \in 1 .. Len(cap) : Pid(cap[i]) = pid} = Processes(pid)
      /\ Processes(pid) \in SUBSET Nat /\ IsFiniteSet(Processes(pid))
  BY EntriesOfPid DEF Processes
<1>2. LastProcess(pid) = IF Processes(pid) # {} THEN Max(Processes(pid)) ELSE 0
  BY <1>1 DEF SelectLastInSeq, LastProcess
<1>3. Processes(pid) # {} => /\ Max(Processes(pid)) \in Processes(pid)
                             /\ \A d \in Processes(pid) : d <= Max(Processes(pid))
  BY <1>1, LeastAndGreatest
<1>4. QED
  BY <1>2, <1>3

\* The reader opens the file: what it is to read lies between the process' entry and the next.
LEMMA OpenTrackStep ==
  ASSUME TrackInv, NEW pid \in Pids, OpenTrack(pid)
  PROVE  TrackInv'
<1> DEFINE mine == Processes(pid)
           last == LastProcess(pid)
           from == IF last = 0 THEN MaxPrints ELSE cap[last].at
           to == IF last = 0 THEN 0 ELSE IF last < Len(cap) THEN cap[last + 1].at ELSE MaxPrints
           had == Cardinality({i \in DOMAIN log : Pid(log[i]) = pid})
<1>1. Indexed
  BY DEF TrackInv
<1>2. UNCHANGED <<children, alive, log, idx, out, cap>>
  BY DEF OpenTrack, written
<1>3. reader' = [ReaderIdle EXCEPT !.pc = "indexed", !.pid = pid, !.start = StartOffset(pid), !.from = from,
                                   !.to = to, !.started = Len(children), !.had = had]
  BY DEF OpenTrack, LastProcess
<1>4. /\ reader'.pc = "indexed" /\ reader'.pid = pid /\ reader'.start = StartOffset(pid)
      /\ reader'.from = from /\ reader'.to = to /\ reader'.count = 0 /\ reader'.last = 0
      /\ reader'.output = <<>> /\ reader'.had = had /\ reader'.started = Len(children)
      /\ reader' = [pc |-> "indexed", pid |-> pid, start |-> StartOffset(pid), from |-> from, to |-> to,
                    count |-> 0, last |-> 0, output |-> <<>>, had |-> had, started |-> Len(children)]
  <2> HIDE DEF from, to, had
  <2>1. QED
    BY <1>3 DEF ReaderIdle
<1>5. /\ StartOffset(pid) \in Nat /\ StartOffset(pid) <= Len(log)
      /\ \A c \in 1 .. Len(children) : children[c] = pid => StartOffset(pid) <= idx[c].at
  BY <1>1, StartFacts
<1>6. /\ mine = {} => last = 0
      /\ mine # {} => last \in mine /\ \A d \in mine : d <= last
  BY <1>1, LastFacts
<1>7. /\ Len(children) \in Nat /\ Len(cap) = Len(children) /\ MaxPrints \in Nat
      /\ \A c \in 1 .. Len(children) : cap[c].at \in Nat
  <2>1. \A c \in 1 .. Len(children) : cap[c] \in Whence
    BY <1>1 DEF Indexed
  <2>2. QED
    BY <1>1, <2>1, TrackAssumption, SMTT(30) DEF Indexed, Whence
<1>8. had = Cardinality(Recorded(pid)) /\ had \in Nat
  <2>1. DOMAIN log = 1 .. Len(log)
    BY <1>1 DEF Indexed
  <2>2. had = Cardinality(Recorded(pid))
    BY <2>1 DEF Recorded
  <2>3. QED
    BY <1>1, <2>2, RecordedFacts
<1>9. last = 0 \/ last \in 1 .. Len(children)
  BY <1>6 DEF Processes
<1> HIDE DEF last, had
<1>10. from \in Nat /\ to \in Nat
  <2>1. CASE last = 0
    BY <2>1, <1>7
  <2>2. CASE last \in 1 .. Len(children) /\ last < Len(children)
    <3>1. last + 1 \in 1 .. Len(children)
      BY <2>2, <1>7
    <3>2. QED
      BY <2>2, <3>1, <1>7
  <2>3. CASE last \in 1 .. Len(children) /\ ~ last < Len(children)
    BY <2>3, <1>7
  <2>4. QED
    BY <1>9, <2>1, <2>2, <2>3
<1>11. reader' \in ReaderType
  <2> HIDE DEF from, to
  <2>1. QED
    BY <1>4, <1>5, <1>7, <1>8, <1>10 DEF ReaderType
<1>12. mine = {} => from = MaxPrints /\ to = 0
  BY <1>6
<1>13. ASSUME mine # {}
       PROVE  /\ last \in mine /\ \A d \in mine : d <= last
              /\ from = cap[last].at
              /\ to = IF last < Len(children) THEN cap[last + 1].at ELSE MaxPrints
  <2>1. last \in mine /\ \A d \in mine : d <= last
    BY <1>6, <1>13
  <2>2. last # 0
    BY <2>1 DEF Processes
  <2>3. QED
    BY <2>1, <2>2, <1>7
<1>14. Indexed'
  BY <1>1, <1>2 DEF Indexed
<1>15. Recorded(pid)' = Recorded(pid)
  BY <1>2 DEF Recorded, Pid
<1>16. Heading'
  <2> HIDE DEF from, to
  <2>1. reader'.pid = pid /\ Recorded(reader.pid)' = Recorded(pid)
    BY <1>2, <1>4 DEF Recorded, Pid
  <2>2. {c \in 1 .. reader'.started : children'[c] = reader'.pid} = mine
    BY <1>2, <1>4 DEF Processes
  <2> HIDE DEF mine
  <2>3. /\ reader'.started <= Len(children') /\ reader'.start <= Len(log')
        /\ \A c \in 1 .. Len(children') : children'[c] = reader'.pid => reader'.start <= idx'[c].at
        /\ reader'.had <= Cardinality(Recorded(reader.pid)')
    BY <1>2, <1>4, <1>5, <1>7, <1>8, <2>1
  <2>4. /\ mine = {} => reader'.from = MaxPrints /\ reader'.to = 0
        /\ mine # {} => \E l \in mine :
             /\ \A d \in mine : d <= l
             /\ reader'.from = cap'[l].at
             /\ reader'.to = IF l < reader'.started THEN cap'[l + 1].at ELSE MaxPrints
    BY <1>2, <1>4, <1>12, <1>13
  <2>5. QED
    BY <2>2, <2>3, <2>4 DEF Heading
<1>17. QED
  BY <1>11, <1>14, <1>16 DEF TrackInv

\* What is read of a log: whole records, from the start to the first that is cut short.
LEMMA ReadableFacts ==
  ASSUME Indexed, NEW start \in Nat, start <= Len(log)
  PROVE  \E end \in start .. Len(log) :
           /\ Readable(start) = start + 1 .. end
           /\ \A i \in start + 1 .. end : log[i].whole
           /\ end < Len(log) => ~log[end + 1].whole
<1> DEFINE cut == {i \in start + 1 .. Len(log) : ~log[i].whole}
           first == CHOOSE i \in cut : \A j \in cut : i <= j
<1>1. Len(log) \in Nat
  BY DEF Indexed
<1>2. CASE cut = {}
  <2>1. Readable(start) = start + 1 .. Len(log)
    BY <1>2 DEF Readable
  <2>2. QED
    BY <1>1, <1>2, <2>1
<1>3. CASE cut # {}
  <2>1. Readable(start) = start + 1 .. first - 1
    BY <1>3 DEF Readable
  <2>2. cut \in SUBSET Nat /\ IsFiniteSet(cut)
    <3>1. start + 1 .. Len(log) \subseteq Nat /\ IsFiniteSet(start + 1 .. Len(log))
      BY <1>1, FS_Interval
    <3>2. QED
      BY <3>1, FS_Subset
  <2>3. first \in cut /\ \A j \in cut : first <= j
    <3> HIDE DEF cut
    <3>1. Min(cut) \in cut /\ \A j \in cut : Min(cut) <= j
      BY <1>3, <2>2, LeastAndGreatest
    <3>2. QED
      BY <3>1
  <2> HIDE DEF first
  <2>4. /\ first \in start + 1 .. Len(log) /\ ~log[first].whole
        /\ \A i \in start + 1 .. first - 1 : log[i].whole
    <3>1. first \in start + 1 .. Len(log) /\ ~log[first].whole
      BY <2>3
    <3>2. \A i \in start + 1 .. first - 1 : i \in start + 1 .. Len(log) /\ ~ first <= i
      BY <1>1, <3>1
    <3>3. QED
      BY <2>3, <3>1, <3>2
  <2>5. first - 1 \in start .. Len(log) /\ first - 1 + 1 = first
    BY <1>1, <2>4
  <2>6. QED
    BY <2>1, <2>4, <2>5
<1>4. QED
  BY <1>2, <1>3

\* What a summary says of the records of its pid.
LEMMA SummaryFacts ==
  ASSUME TrackInv, ReadTrack
  PROVE  /\ reader'.count \in Nat /\ reader'.last \in Nat
         /\ WholeLog => reader.had <= reader'.count
         /\ reader'.count <= Cardinality(Recorded(reader.pid))
         /\ reader'.last # 0 => reader'.last \in Recorded(reader.pid) /\ log[reader'.last].whole
         /\ WholeLog => (reader'.count > 0 <=> reader'.last # 0)
<1> DEFINE pid == reader.pid
           start == reader.start
           own == InputsOf(pid, start)
           now == Recorded(pid)
<1>1. /\ Indexed /\ reader \in ReaderType /\ reader.pc = "indexed"
      /\ start \in Nat /\ start <= Len(log) /\ reader.had \in Nat
      /\ \A c \in 1 .. Len(children) : children[c] = pid => start <= idx[c].at
      /\ reader.had <= Cardinality(now)
  BY DEF TrackInv, Heading, ReadTrack, ReaderType
<1>2. PICK extra \in IF Garbled(pid, start) THEN {0, 1} ELSE {0} :
        /\ reader'.count = Cardinality(own) + extra
        /\ reader'.last = IF own = {} THEN 0 ELSE CHOOSE i \in own : \A j \in own : j <= i
  BY <1>1 DEF ReadTrack, ReaderType
<1>3. PICK end \in start .. Len(log) :
           /\ Readable(start) = start + 1 .. end
           /\ \A i \in start + 1 .. end : log[i].whole
           /\ end < Len(log) => ~log[end + 1].whole
  BY <1>1, ReadableFacts
<1>4. Len(log) \in Nat /\ IsFiniteSet(now) /\ Cardinality(now) \in Nat
  <2>1. Len(log) \in Nat
    BY <1>1 DEF Indexed
  <2>2. QED
    BY <1>1, <2>1, RecordedFacts
<1> HIDE DEF pid, start
<1>5. own = {i \in start + 1 .. end : Pid(log[i]) = pid}
  BY <1>3 DEF InputsOf
<1>6. own \in SUBSET now /\ \A i \in own : log[i].whole
  BY <1>1, <1>3, <1>4, <1>5 DEF Recorded
<1>7. own \in SUBSET Nat /\ IsFiniteSet(own) /\ Cardinality(own) \in Nat /\ Cardinality(own) <= Cardinality(now)
  <2>1. IsFiniteSet(own) /\ Cardinality(own) <= Cardinality(now)
    BY <1>4, <1>6, FS_Subset
  <2>2. QED
    BY <1>1, <1>5, <2>1, FS_CardinalityType
<1> HIDE DEF own, now
<1>8. Garbled(pid, start) =>
        /\ Cardinality(own) + 1 <= Cardinality(now)
        /\ ~WholeLog
  <2>1. HAVE Garbled(pid, start)
  <2>2. Cardinality(start + 1 .. end) = end - start
    <3>1. start + 1 \in Int /\ end \in Int /\ start \in Int /\ start <= end
      BY <1>1, <1>3, <1>4
    <3>2. Cardinality(start + 1 .. end) = IF start + 1 > end THEN 0 ELSE end - (start + 1) + 1
      BY <3>1, FS_Interval
    <3>3. QED
      BY <3>1, <3>2
  <2>3. start + Cardinality(Readable(start)) + 1 = end + 1
    BY <1>1, <1>3, <2>2
  <2>4. end + 1 < Len(log) /\ Pid(log[end + 1]) = pid
    BY <2>1, <2>3 DEF Garbled
  <2>5. end + 1 \in now /\ end + 1 \notin own
    BY <1>1, <1>3, <1>4, <1>5, <2>4 DEF now, Recorded
  <2>6. IsFiniteSet(own \cup {end + 1}) /\ Cardinality(own \cup {end + 1}) = Cardinality(own) + 1
    BY <1>7, <2>5, FS_AddElement
  <2>7. own \cup {end + 1} \in SUBSET now
    BY <1>6, <2>5
  <2>8. Cardinality(own) + 1 <= Cardinality(now)
    BY <1>4, <2>6, <2>7, FS_Subset
  <2>9. ~WholeLog
    <3>1. end + 1 \in DOMAIN log /\ ~log[end + 1].whole
      BY <1>1, <1>3, <1>4, <2>4 DEF Indexed
    <3>2. QED
      BY <3>1 DEF WholeLog
  <2>10. QED
    BY <2>8, <2>9
<1>9. WholeLog => own = now
  <2>1. HAVE WholeLog
  <2>2. end = Len(log)
    <3>1. SUFFICES ASSUME end # Len(log) PROVE FALSE
      OBVIOUS
    <3>2. end < Len(log) /\ end + 1 \in 1 .. Len(log)
      BY <1>1, <1>3, <1>4, <3>1
    <3>3. end + 1 \in DOMAIN log
      BY <1>1, <3>2 DEF Indexed
    <3>4. QED
      BY <1>3, <2>1, <3>2, <3>3 DEF WholeLog
  <2>3. \A i \in now : i \in own
    <3>1. TAKE i \in now
    <3>2. i \in 1 .. Len(log) /\ children[log[i].child] = pid
      BY DEF now, Recorded, Pid
    <3>3. log[i].child \in 1 .. Len(children) /\ idx[log[i].child].at < i
      BY <1>1, <3>2 DEF Indexed
    <3>4. start <= idx[log[i].child].at /\ idx[log[i].child].at \in Nat
      <4>1. idx[log[i].child] \in Whence
        BY <1>1, <3>3 DEF Indexed
      <4>2. QED
        BY <1>1, <3>2, <3>3, <4>1 DEF Whence
    <3>5. i \in start + 1 .. end
      BY <1>1, <1>4, <2>2, <3>2, <3>3, <3>4
    <3>6. QED
      BY <1>5, <3>5 DEF now, Recorded
  <2>4. QED
    BY <1>6, <2>3
<1>10. own # {} => reader'.last \in own
  <2>1. HAVE own # {}
  <2>2. Max(own) \in own /\ \A j \in own : j <= Max(own)
    BY <1>7, <2>1, LeastAndGreatest
  <2>3. QED
    BY <1>2, <2>1, <2>2
<1>11. own = {} => reader'.last = 0
  BY <1>2
<1>12. extra \in {0, 1} /\ (extra = 1 => Garbled(pid, start))
  BY <1>2
<1>13. reader'.count = Cardinality(own) + extra
  BY <1>2
<1>14. reader'.count \in Nat /\ reader'.last \in Nat
  <2>1. reader'.last \in Nat
    <3>1. \A i \in own : i \in Nat
      BY <1>7
    <3>2. QED
      BY <1>10, <1>11, <3>1
  <2>2. reader'.count \in Nat
    BY <1>7, <1>12, <1>13
  <2>3. QED
    BY <2>1, <2>2
<1>15. WholeLog => reader.had <= reader'.count
  BY <1>1, <1>4, <1>7, <1>9, <1>12, <1>13
<1>16. reader'.count <= Cardinality(now)
  BY <1>4, <1>7, <1>8, <1>12, <1>13
<1>17. reader'.last # 0 => reader'.last \in now /\ log[reader'.last].whole
  BY <1>6, <1>10, <1>11
<1>18. WholeLog => (reader'.count > 0 <=> reader'.last # 0)
  <2>1. HAVE WholeLog
  <2>2. extra = 0
    BY <1>8, <1>12, <2>1
  <2>3. Cardinality(own) > 0 <=> own # {}
    BY <1>7, FS_EmptySet
  <2>4. own # {} => reader'.last # 0
    <3>1. 0 \notin own
      BY <1>1, <1>5
    <3>2. QED
      BY <1>10, <3>1
  <2>5. QED
    BY <1>7, <1>11, <1>13, <2>2, <2>3, <2>4
<1>19. QED
  BY <1>14, <1>15, <1>16, <1>17, <1>18 DEF now, pid

\* A piece of a sequence, from after one place to another.
LEMMA PieceFacts ==
  ASSUME NEW s \in Seq(Nat), NEW m \in Nat, NEW n \in Nat, m <= n, n <= Len(s)
  PROVE  SubSeq(s, m + 1, n) \in Seq(Nat) /\ Len(SubSeq(s, m + 1, n)) = n - m
<1>1. Len(s) \in Nat
  OBVIOUS
<1>2. m + 1 .. n \subseteq 1 .. Len(s)
  BY <1>1
<1>3. \A i \in m + 1 .. n : s[i] \in Nat
  BY <1>2
<1>4. Len(SubSeq(s, m + 1, n)) = IF m + 1 <= n THEN n - (m + 1) + 1 ELSE 0
  BY <1>3, SubSeqProperties
<1>5. SubSeq(s, m + 1, n) \in Seq(Nat)
  BY <1>3, SubSeqProperties
<1>6. QED
  BY <1>4, <1>5

\* The output read is that of the pid's last process.
LEMMA OutputFacts ==
  ASSUME TrackInv, ReadTrack
  PROVE  /\ reader'.output \in Seq(Nat)
         /\ LET mine == {c \in 1 .. reader.started : children[c] = reader.pid}
                last == CHOOSE c \in mine : \A d \in mine : d <= c
                shown == Len(reader'.output)
            IN  IF mine = {} THEN shown = 0
                ELSE /\ reader'.output = SubSeq(out, cap[last].at + 1, cap[last].at + shown)
                     /\ cap[last].at + shown >= IF last < Len(cap) THEN cap[last + 1].at ELSE Len(out)
<1> DEFINE mine == {c \in 1 .. reader.started : children[c] = reader.pid}
           most == CHOOSE c \in mine : \A d \in mine : d <= c
           end == IF reader.to < Len(out) THEN reader.to ELSE Len(out)
<1>1. /\ Indexed /\ reader \in ReaderType
      /\ reader.started \in Nat /\ reader.from \in Nat /\ reader.to \in Nat
      /\ reader.started <= Len(children)
      /\ mine = {} => reader.from = MaxPrints /\ reader.to = 0
      /\ mine # {} => \E last \in mine :
           /\ \A d \in mine : d <= last
           /\ reader.from = cap[last].at
           /\ reader.to = IF last < reader.started THEN cap[last + 1].at ELSE MaxPrints
  BY DEF TrackInv, Heading, ReadTrack, ReaderType
<1>2. reader'.output = SubSeq(out, reader.from + 1, end)
  BY <1>1 DEF ReadTrack, ReaderType
<1>3. /\ out \in Seq(Nat) /\ Len(out) \in Nat /\ Len(out) <= MaxPrints /\ MaxPrints \in Nat
      /\ Len(children) \in Nat /\ Len(cap) = Len(children)
      /\ \A c \in 1 .. Len(children) : cap[c].at \in Nat /\ cap[c].at <= Len(out)
      /\ \A c, d \in 1 .. Len(children) : c <= d => cap[c].at <= cap[d].at
  <2>1. \A c \in 1 .. Len(children) : cap[c] \in Whence
    BY <1>1 DEF Indexed
  <2>2. \A c \in 1 .. Len(children) : cap[c].at \in Nat
    BY <2>1 DEF Whence
  <2>3. QED
    BY <1>1, <2>2, TrackAssumption DEF Indexed
<1>4. end \in Nat /\ end <= Len(out)
  BY <1>1, <1>3
<1> HIDE DEF end
<1>5. reader.from + 1 \in 1 .. Len(out) + 1 \/ end = 0
  <2>1. CASE mine = {}
    BY <1>1, <1>3, <2>1 DEF end
  <2>2. CASE mine # {}
    BY <1>1, <1>3, <2>2
  <2>3. QED
    BY <2>1, <2>2
<1>6. CASE mine = {}
  <2>1. end = 0 /\ reader.from = MaxPrints
    BY <1>1, <1>3, <1>6 DEF end
  <2>2. reader'.output = <<>>
    BY <1>1, <1>2, <1>3, <2>1, SubSeqEmpty
  <2>3. reader'.output \in Seq(Nat) /\ Len(reader'.output) = 0
    BY <2>2
  <2>4. QED
    BY <1>6, <2>3
<1>7. CASE mine # {}
  <2>1. PICK last \in mine :
           /\ \A d \in mine : d <= last
           /\ reader.from = cap[last].at
           /\ reader.to = IF last < reader.started THEN cap[last + 1].at ELSE MaxPrints
    BY <1>1, <1>7
  <2>2. last \in 1 .. reader.started /\ last \in 1 .. Len(children)
    BY <1>1, <1>3
  <2>3. most = last
    <3>1. \A c \in mine : c \in Nat
      BY <1>1
    <3>2. \A c \in mine : (\A d \in mine : d <= c) => c = last
      BY <2>1, <3>1
    <3> HIDE DEF mine
    <3>3. most \in mine /\ \A d \in mine : d <= most
      BY <2>1
    <3>4. QED
      BY <3>2, <3>3
  <2> HIDE DEF mine, most
  <2>4. CASE last < reader.started
    <3>1. last + 1 \in 1 .. Len(children) /\ last < Len(cap)
      BY <1>1, <1>3, <2>2, <2>4
    <3>2. cap[last].at <= cap[last + 1].at /\ cap[last + 1].at <= Len(out)
      BY <1>3, <2>2, <3>1
    <3>3. end = cap[last + 1].at
      BY <1>3, <2>1, <2>4, <3>1, <3>2 DEF end
    <3>4. /\ reader'.output \in Seq(Nat) /\ Len(reader'.output) = end - cap[last].at
          /\ reader'.output = SubSeq(out, cap[last].at + 1, end)
      <4>1. cap[last].at \in Nat /\ cap[last].at <= end
        BY <1>3, <2>2, <3>2, <3>3
      <4>2. reader'.output = SubSeq(out, cap[last].at + 1, end)
        BY <1>2, <2>1
      <4>3. /\ SubSeq(out, cap[last].at + 1, end) \in Seq(Nat)
            /\ Len(SubSeq(out, cap[last].at + 1, end)) = end - cap[last].at
        BY <1>3, <1>4, <4>1, PieceFacts
      <4>4. QED
        BY <4>2, <4>3
    <3>5. cap[last].at + Len(reader'.output) = end
      BY <1>3, <1>4, <2>2, <3>4
    <3>6. /\ reader'.output = SubSeq(out, cap[last].at + 1, cap[last].at + Len(reader'.output))
          /\ cap[last].at + Len(reader'.output) >= IF last < Len(cap) THEN cap[last + 1].at ELSE Len(out)
      <4>1. end >= IF last < Len(cap) THEN cap[last + 1].at ELSE Len(out)
        BY <1>4, <3>1, <3>3
      <4>2. QED
        BY <3>4, <3>5, <4>1
    <3>7. QED
      BY <1>7, <2>3, <3>4, <3>6 DEF mine, most
  <2>5. CASE ~ last < reader.started
    <3>1. end = Len(out)
      BY <1>3, <2>1, <2>5 DEF end
    <3>2. /\ reader'.output \in Seq(Nat) /\ Len(reader'.output) = end - cap[last].at
          /\ reader'.output = SubSeq(out, cap[last].at + 1, end)
      <4>1. cap[last].at \in Nat /\ cap[last].at <= end
        BY <1>3, <2>2, <3>1
      <4>2. reader'.output = SubSeq(out, cap[last].at + 1, end)
        BY <1>2, <2>1
      <4>3. /\ SubSeq(out, cap[last].at + 1, end) \in Seq(Nat)
            /\ Len(SubSeq(out, cap[last].at + 1, end)) = end - cap[last].at
        BY <1>3, <1>4, <4>1, PieceFacts
      <4>4. QED
        BY <4>2, <4>3
    <3>3. cap[last].at + Len(reader'.output) = end
      BY <1>3, <1>4, <2>2, <3>2
    <3>4. end >= IF last < Len(cap) THEN cap[last + 1].at ELSE Len(out)
      <4>1. CASE last < Len(cap)
        <5>1. last + 1 \in 1 .. Len(children)
          BY <1>3, <2>2, <4>1
        <5>2. cap[last + 1].at \in Nat /\ cap[last + 1].at <= Len(out)
          BY <1>3, <5>1
        <5>3. QED
          BY <1>3, <3>1, <4>1, <5>2
      <4>2. CASE ~ last < Len(cap)
        BY <1>3, <3>1, <4>2
      <4>3. QED
        BY <4>1, <4>2
    <3>5. /\ reader'.output = SubSeq(out, cap[last].at + 1, cap[last].at + Len(reader'.output))
          /\ cap[last].at + Len(reader'.output) >= IF last < Len(cap) THEN cap[last + 1].at ELSE Len(out)
      BY <3>2, <3>3, <3>4
    <3>6. QED
      BY <1>7, <2>3, <3>2, <3>5 DEF mine, most
  <2>6. QED
    BY <2>4, <2>5
<1>8. QED
  BY <1>6, <1>7

\* Reading and forgetting what was read disturb nothing.
LEMMA ReadTrackStep ==
  ASSUME TrackInv, ReadTrack \/ CloseTrack
  PROVE  TrackInv'
<1>1. UNCHANGED <<children, alive, log, idx, out, cap>>
  BY DEF ReadTrack, CloseTrack, written
<1>2. Indexed'
  BY <1>1 DEF TrackInv, Indexed
<1>3. reader' \in ReaderType /\ reader'.pc # "indexed"
  <2>1. CASE ReadTrack
    <3>1. \E count, last, output :
            reader' = [reader EXCEPT !.pc = "done", !.count = count, !.last = last, !.output = output]
      <4> DEFINE own == InputsOf(reader.pid, reader.start)
                 end == IF reader.to < Len(out) THEN reader.to ELSE Len(out)
                 latest == IF own = {} THEN 0 ELSE CHOOSE i \in own : \A j \in own : j <= i
                 piece == SubSeq(out, reader.from + 1, end)
      <4>1. PICK extra \in IF Garbled(reader.pid, reader.start) THEN {0, 1} ELSE {0} :
              reader' = [reader EXCEPT !.pc = "done", !.count = Cardinality(own) + extra, !.last = latest,
                                       !.output = piece]
        BY <2>1 DEF ReadTrack
      <4> HIDE DEF own, latest, piece
      <4>2. QED
        BY <4>1
    <3>2. /\ reader'.count \in Nat /\ reader'.last \in Nat
      BY <2>1, SummaryFacts
    <3>3. reader'.output \in Seq(Nat)
      BY <2>1, OutputFacts
    <3>4. reader \in ReaderType
      BY DEF TrackInv
    <3>5. QED
      BY <3>1, <3>2, <3>3, <3>4 DEF ReaderType
  <2>2. CASE CloseTrack
    BY <2>2 DEF CloseTrack, ReaderIdle, ReaderType
  <2>3. QED
    BY <2>1, <2>2
<1>4. QED
  BY <1>2, <1>3 DEF TrackInv, Heading

\* The reproducers that were made: each for an artifact with a track.
ScriptsTyped == artifacts \subseteq CrashNumbers /\ scripts \in Seq(Tracked)

\* A script that has a number keeps it.
LEMMA ReproducersStep ==
  ASSUME ScriptsTyped, Reproducers
  PROVE  ScriptsTyped' /\ IsPrefix(scripts, scripts')
<1>1. ASSUME NEW a \in CrashNumbers, NewArtifact(a)
      PROVE  ScriptsTyped' /\ IsPrefix(scripts, scripts')
  <2>1. artifacts' \subseteq CrashNumbers /\ scripts' = scripts
    BY <1>1 DEF NewArtifact, ScriptsTyped
  <2>2. QED
    BY <2>1 DEF ScriptsTyped, IsPrefix
<1>2. ASSUME GenerateScripts
      PROVE  ScriptsTyped' /\ IsPrefix(scripts, scripts')
  <2> DEFINE order == Numbered
             fails == {i \in DOMAIN order : i > Len(scripts) /\ order[i] \notin InTrack}
             end == IF fails = {} THEN Len(order) ELSE (CHOOSE i \in fails : \A j \in fails : i <= j) - 1
             more == SubSeq(order, Len(scripts) + 1, end)
  <2>1. scripts' = scripts \o more /\ artifacts' = artifacts
    BY <1>2 DEF GenerateScripts
  <2>2. /\ artifacts \cap Tracked \in SUBSET Nat /\ IsFiniteSet(artifacts \cap Tracked)
        /\ artifacts \cap Tracked \subseteq Tracked
    BY TrackAssumption, FS_Subset DEF ScriptsTyped
  <2>3. order \in Seq(Tracked) /\ Len(order) \in Nat /\ DOMAIN order = 1 .. Len(order)
    BY <2>2, SortedFacts DEF Numbered
  <2>4. Len(scripts) \in Nat /\ scripts \in Seq(Tracked)
    BY DEF ScriptsTyped
  <2> HIDE DEF order
  <2>5. end \in Int /\ end <= Len(order)
    <3>1. CASE fails = {}
      BY <2>3, <3>1
    <3>2. CASE fails # {}
      <4>1. fails \in SUBSET Nat /\ IsFiniteSet(fails)
        <5>1. IsFiniteSet(1 .. Len(order)) /\ 1 .. Len(order) \subseteq Nat
          BY <2>3, FS_Interval
        <5>2. QED
          BY <2>3, <5>1, FS_Subset
      <4>2. Min(fails) \in fails /\ \A j \in fails : Min(fails) <= j
        BY <3>2, <4>1, LeastAndGreatest
      <4>3. (CHOOSE i \in fails : \A j \in fails : i <= j) \in 1 .. Len(order)
        BY <2>3, <4>2
      <4> HIDE DEF fails
      <4>4. QED
        BY <2>3, <3>2, <4>3
    <3>3. QED
      BY <3>1, <3>2
  <2> HIDE DEF end
  <2>6. more \in Seq(Tracked)
    <3>1. \A i \in Len(scripts) + 1 .. end : i \in 1 .. Len(order)
      BY <2>3, <2>4, <2>5
    <3>2. \A i \in Len(scripts) + 1 .. end : order[i] \in Tracked
      BY <2>3, <3>1
    <3>3. QED
      BY <2>4, <2>5, <3>2, SubSeqProperties
  <2> HIDE DEF more
  <2>7. /\ scripts' \in Seq(Tracked) /\ Len(scripts) <= Len(scripts')
        /\ \A i \in 1 .. Len(scripts) : scripts'[i] = scripts[i]
    BY <2>1, <2>4, <2>6
  <2>8. SubSeq(scripts, 1, Len(scripts)) = SubSeq(scripts', 1, Len(scripts))
    BY <2>4, <2>7
  <2>9. QED
    BY <2>1, <2>7, <2>8 DEF ScriptsTyped, IsPrefix
<1>3. QED
  BY <1>1, <1>2 DEF Reproducers

TrackAll == TrackInv /\ ScriptsTyped

\* The files are empty at first.
LEMMA TrackBegins == TrackInit => TrackAll
<1> SUFFICES ASSUME TrackInit
             PROVE  TrackAll
  OBVIOUS
<1>1. ScriptsTyped
  BY DEF TrackInit, ScriptsTyped
<1>2. QED
  BY <1>1, IndexedBegins DEF TrackAll

\* Every step of processes, readers and reproducers keeps the files indexed.
LEMMA TrackGoesOn == TrackAll /\ [Harness \/ TrackReader \/ Reproducers]_trackVars => TrackAll'
<1> SUFFICES ASSUME TrackAll, [Harness \/ TrackReader \/ Reproducers]_trackVars
             PROVE  TrackAll'
  OBVIOUS
<1> USE DEF TrackAll
<1>1. UNCHANGED made => ScriptsTyped'
  BY DEF made, ScriptsTyped
<1>2. UNCHANGED <<written, reader>> => TrackInv'
  <2>1. HAVE UNCHANGED <<written, reader>>
  <2>2. Indexed'
    BY <2>1 DEF written, TrackInv, Indexed
  <2>3. Heading'
    BY <2>1 DEF written, TrackInv, Heading, Recorded, Pid
  <2>4. QED
    BY <2>1, <2>2, <2>3 DEF TrackInv
<1>3. CASE Harness
  <2>1. UNCHANGED made
    BY <1>3 DEF Harness, StartChild, ChildEnds, RecordInput, PrintOutput, MachineStops
  <2>2. QED
    BY <1>1, <1>3, <2>1, HarnessStep, HeadingStays DEF TrackInv
<1>4. CASE TrackReader
  <2>1. UNCHANGED made
    BY <1>4 DEF TrackReader, OpenTrack, ReadTrack, CloseTrack
  <2>2. QED
    BY <1>1, <1>4, <2>1, OpenTrackStep, ReadTrackStep DEF TrackReader
<1>5. CASE Reproducers
  <2>1. UNCHANGED <<written, reader>>
    BY <1>5 DEF Reproducers, NewArtifact, GenerateScripts
  <2>2. QED
    BY <1>2, <1>5, <2>1, ReproducersStep
<1>6. CASE UNCHANGED trackVars
  BY <1>1, <1>2, <1>6 DEF trackVars, written, made
<1>7. QED
  BY <1>3, <1>4, <1>5, <1>6

\* The files are indexed, and a reader has read a beginning of them, in every reachable state.
LEMMA TrackInvariant == TrackSpec => []TrackAll
BY TrackBegins, TrackGoesOn, PTL DEF TrackSpec

\* Every reachable state of a worker's track, its readers and its reproducers is well typed.
THEOREM TrackTypeCorrect == TrackSpec => []TrackTypeOK
<1>1. TrackAll => TrackTypeOK
  <2> SUFFICES ASSUME TrackAll
               PROVE  TrackTypeOK
    OBVIOUS
  <2>1. Indexed /\ reader \in ReaderType /\ ScriptsTyped
    BY DEF TrackAll, TrackInv
  <2>2. /\ DOMAIN children = 1 .. Len(children) /\ DOMAIN log = 1 .. Len(log)
        /\ DOMAIN idx = 1 .. Len(children) /\ DOMAIN cap = 1 .. Len(children)
    BY <2>1 DEF Indexed
  <2>3. \A c \in 1 .. Len(children) : idx[c].at \in 0 .. Len(log) /\ cap[c].at \in 0 .. Len(out)
    <3>1. \A c \in 1 .. Len(children) : idx[c] \in Whence /\ cap[c] \in Whence
      BY <2>1 DEF Indexed
    <3>2. \A c \in 1 .. Len(children) : idx[c].at \in Nat /\ cap[c].at \in Nat
      BY <3>1 DEF Whence
    <3>3. Len(log) \in Nat /\ Len(out) \in Nat
      BY <2>1 DEF Indexed
    <3>4. QED
      BY <2>1, <3>2, <3>3 DEF Indexed
  <2>4. children \in Seq(Pids) /\ alive \subseteq DOMAIN children
    BY <2>1, <2>2 DEF Indexed
  <2>5. \A i \in DOMAIN log : log[i].child \in DOMAIN children
    BY <2>1, <2>2 DEF Indexed
  <2>6. reader.pc \in {"idle", "indexed", "done"}
    BY <2>1 DEF ReaderType
  <2>7. QED
    BY <2>1, <2>2, <2>3, <2>4, <2>5, <2>6 DEF TrackTypeOK, ScriptsTyped
<1>2. QED
  BY <1>1, TrackInvariant, PTL

\* Only ReadTrack answers.
LEMMA ReadsAreReadTrack ==
  ASSUME [Harness \/ TrackReader \/ Reproducers]_trackVars, Reads
  PROVE  ReadTrack
<1>1. reader.pc = "indexed" /\ reader'.pc = "done" /\ reader' # reader
  BY DEF Reads
<1>2. ~ Harness
  BY <1>1 DEF Harness, StartChild, ChildEnds, RecordInput, PrintOutput, MachineStops
<1>3. ~ Reproducers
  BY <1>1 DEF Reproducers, NewArtifact, GenerateScripts
<1>4. \A pid \in Pids : ~ OpenTrack(pid)
  BY <1>1 DEF OpenTrack
<1>5. ~ CloseTrack
  BY <1>1 DEF CloseTrack
<1>6. ~ UNCHANGED trackVars
  BY <1>1 DEF trackVars
<1>7. QED
  BY <1>2, <1>3, <1>4, <1>5, <1>6 DEF TrackReader

\* The summary of a pid counts what its processes had recorded, and nothing else, while the
\* log grows (get_pid_track_summary()).
THEOREM SummariesCount == TrackSpec => SummaryCountsThePid
<1>1. ASSUME TrackAll, [Harness \/ TrackReader \/ Reproducers]_trackVars, Reads
      PROVE  LET now == {i \in DOMAIN log : Pid(log[i]) = reader.pid} IN
                /\ WholeLog => reader.had <= reader'.count
                /\ reader'.count <= Cardinality(now)
                /\ reader'.last # 0 => reader'.last \in now /\ log[reader'.last].whole
                /\ WholeLog => (reader'.count > 0 <=> reader'.last # 0)
  <2>1. ReadTrack /\ TrackInv
    BY <1>1, ReadsAreReadTrack DEF TrackAll
  <2>2. DOMAIN log = 1 .. Len(log)
    BY <2>1 DEF TrackInv, Indexed
  <2>3. QED
    BY <2>1, <2>2, SummaryFacts DEF Recorded
<1>2. TrackAll /\ [Harness \/ TrackReader \/ Reproducers]_trackVars =>
        [Reads => LET now == {i \in DOMAIN log : Pid(log[i]) = reader.pid} IN
                /\ WholeLog => reader.had <= reader'.count
                /\ reader'.count <= Cardinality(now)
                /\ reader'.last # 0 => reader'.last \in now /\ log[reader'.last].whole
                /\ WholeLog => (reader'.count > 0 <=> reader'.last # 0)]_reader
  BY <1>1
<1>3. QED
  BY <1>2, TrackInvariant, PTL DEF TrackSpec, SummaryCountsThePid

\* The output shown for a pid is that of the last process that had it (get_pid_output()).
THEOREM OutputIsTheLast == TrackSpec => OutputOfTheLastProcess
<1>1. ASSUME TrackAll, [Harness \/ TrackReader \/ Reproducers]_trackVars, Reads
      PROVE  LET mine == {c \in 1 .. reader.started : children[c] = reader.pid}
                 last == CHOOSE c \in mine : \A d \in mine : d <= c
                 shown == Len(reader'.output)
             IN  IF mine = {} THEN shown = 0
                 ELSE /\ reader'.output = SubSeq(out, cap[last].at + 1, cap[last].at + shown)
                      /\ cap[last].at + shown >= IF last < Len(cap) THEN cap[last + 1].at ELSE Len(out)
  <2>1. ReadTrack /\ TrackInv
    BY <1>1, ReadsAreReadTrack DEF TrackAll
  <2>2. QED
    BY <2>1, OutputFacts
<1>2. TrackAll /\ [Harness \/ TrackReader \/ Reproducers]_trackVars =>
        [Reads => LET mine == {c \in 1 .. reader.started : children[c] = reader.pid}
                      last == CHOOSE c \in mine : \A d \in mine : d <= c
                      shown == Len(reader'.output)
                  IN  IF mine = {} THEN shown = 0
                      ELSE /\ reader'.output = SubSeq(out, cap[last].at + 1, cap[last].at + shown)
                           /\ cap[last].at + shown >= IF last < Len(cap) THEN cap[last + 1].at ELSE Len(out)]_reader
  BY <1>1
<1>3. QED
  BY <1>2, TrackInvariant, PTL DEF TrackSpec, OutputOfTheLastProcess

\* A numbered reproducer stays what it is (generate_all_track_scripts()).
THEOREM NumbersAreKept == TrackSpec => ReproducersStay
<1>1. TrackAll /\ [Harness \/ TrackReader \/ Reproducers]_trackVars => [IsPrefix(scripts, scripts')]_scripts
  <2> SUFFICES ASSUME TrackAll, [Harness \/ TrackReader \/ Reproducers]_trackVars, scripts' # scripts
               PROVE  IsPrefix(scripts, scripts')
    OBVIOUS
  <2>1. Reproducers
    BY DEF Harness, StartChild, ChildEnds, RecordInput, PrintOutput, MachineStops,
           TrackReader, OpenTrack, ReadTrack, CloseTrack, made, trackVars
  <2>2. QED
    BY <2>1, ReproducersStep DEF TrackAll
<1>2. QED
  BY <1>1, TrackInvariant, PTL DEF TrackSpec, ReproducersStay

-----------------------------------------------------------------------------
(***************************************************************************)
(* The minimizer: candidate sets and their chunks                          *)
(***************************************************************************)

\* Products with a natural number are ordered like their other factors.
LEMMA TimesGrows ==
  ASSUME NEW a \in Nat, NEW b \in Nat, NEW s \in Nat, a <= b
  PROVE  a * s <= b * s /\ a * s \in Nat /\ b * s \in Nat
<1>1. b * s - a * s = (b - a) * s
  OBVIOUS
<1>2. (b - a) * s \in Nat
  OBVIOUS
<1>3. a * s \in Nat /\ b * s \in Nat
  OBVIOUS
<1>4. QED
  BY <1>1, <1>2, <1>3

\* Where the i-th of `count` chunks of `len` elements begins.
ChunkStart(len, count, i) ==
  (i - 1) * (len \div count) + (IF i - 1 < len % count THEN i - 1 ELSE len % count)

\* The first chunk begins at the first element, each begins after the one before it, and
\* the last ends with the last element.
LEMMA BeginFacts ==
  ASSUME NEW len \in Nat, NEW count \in Nat \ {0}, count <= len
  PROVE  /\ ChunkStart(len, count, 1) = 0
         /\ ChunkStart(len, count, count + 1) = len
         /\ \A i \in 1 .. count + 1 : ChunkStart(len, count, i) \in Nat
         /\ \A i \in 1 .. count : ChunkStart(len, count, i) < ChunkStart(len, count, i + 1)
         /\ \A i, j \in 1 .. count + 1 : i <= j => ChunkStart(len, count, i) <= ChunkStart(len, count, j)
<1> DEFINE size == len \div count
           over == len % count
<1>1. /\ size \in Nat /\ over \in 0 .. count - 1 /\ len = count * size + over
  OBVIOUS
<1>2. size >= 1
  <2>1. size = 0 => len = over
    BY <1>1
  <2>2. QED
    BY <1>1, <2>1
<1>3. \A i : ChunkStart(len, count, i) = (i - 1) * size + (IF i - 1 < over THEN i - 1 ELSE over)
  BY DEF ChunkStart
<1> HIDE DEF size, over
<1>4. ChunkStart(len, count, 1) = 0
  BY <1>1, <1>3
<1>5. ChunkStart(len, count, count + 1) = len
  BY <1>1, <1>3
<1>6. \A i \in 1 .. count + 1 : (i - 1) * size \in Nat /\ ChunkStart(len, count, i) \in Nat
  <2>1. TAKE i \in 1 .. count + 1
  <2>2. i - 1 \in Nat
    OBVIOUS
  <2>3. (i - 1) * size \in Nat
    BY <1>1, <2>2
  <2>4. QED
    BY <1>1, <1>3, <2>2, <2>3
<1>7. \A i \in 1 .. count : ChunkStart(len, count, i) < ChunkStart(len, count, i + 1)
  <2>1. TAKE i \in 1 .. count
  <2>2. i * size = (i - 1) * size + size
    BY <1>1
  <2>3. i + 1 - 1 = i
    OBVIOUS
  <2>4. ChunkStart(len, count, i + 1) = i * size + (IF i < over THEN i ELSE over)
    BY <1>3, <2>3
  <2>5. (i - 1) * size \in Nat
    BY <1>6
  <2>6. QED
    BY <1>1, <1>2, <1>3, <2>2, <2>4, <2>5
<1>8. \A i, j \in 1 .. count + 1 : i <= j => ChunkStart(len, count, i) <= ChunkStart(len, count, j)
  <2>1. TAKE i, j \in 1 .. count + 1
  <2>2. HAVE i <= j
  <2>3. (i - 1) * size <= (j - 1) * size /\ (i - 1) * size \in Nat /\ (j - 1) * size \in Nat
    BY <1>1, <2>2, TimesGrows
  <2>4. QED
    BY <1>1, <1>3, <2>2, <2>3
<1>9. QED
  BY <1>4, <1>5, <1>6, <1>7, <1>8

\* Chunks are parts of their candidates: none is empty, no two overlap, and together they
\* are all of them (chunkify()).
LEMMA ChunkFacts ==
  ASSUME NEW items \in SUBSET Sections, items # {}, NEW n \in Nat \ {0}
  PROVE  /\ Chunkify(items, n) \in Seq(SUBSET items)
         /\ \A i \in 1 .. Len(Chunkify(items, n)) : Chunkify(items, n)[i] # {}
         /\ \A i, j \in 1 .. Len(Chunkify(items, n)) : i # j => Chunkify(items, n)[i] \cap Chunkify(items, n)[j] = {}
         /\ \A x \in items : \E i \in 1 .. Len(Chunkify(items, n)) : x \in Chunkify(items, n)[i]
<1> DEFINE sorted == Sorted(items)
           len == Len(sorted)
           count == IF n < len THEN n ELSE len
           chunk(i) == {sorted[k] : k \in ChunkStart(len, count, i) + 1 .. ChunkStart(len, count, i + 1)}
<1>1. items \in SUBSET Nat /\ IsFiniteSet(items)
  <2>1. Sections \subseteq Nat /\ IsFiniteSet(Sections)
    BY MinimizerAssumption, FS_Interval DEF Sections
  <2>2. QED
    BY <2>1, FS_Subset
<1>2. /\ sorted \in Seq(items) /\ len = Cardinality(items) /\ len \in Nat
      /\ \A x \in items : \E i \in 1 .. len : sorted[i] = x
      /\ \A i, j \in 1 .. len : i < j => sorted[i] < sorted[j]
  BY <1>1, SortedFacts
<1>3. Chunkify(items, n) = [i \in 1 .. count |-> chunk(i)]
  BY DEF Chunkify, ChunkStart
<1>0. \A k \in 1 .. len : sorted[k] \in items /\ sorted[k] \in Nat
  <2> HIDE DEF sorted
  <2>1. TAKE k \in 1 .. len
  <2>2. sorted[k] \in items
    BY <1>2, ElementOfSeq
  <2>3. QED
    BY <1>1, <2>2
<1> HIDE DEF sorted, len
<1>4. len >= 1
  <2>1. PICK x \in items : TRUE
    OBVIOUS
  <2>2. PICK i \in 1 .. len : sorted[i] = x
    BY <1>2, <2>1
  <2>3. QED
    BY <1>2, <2>2
<1>5. count \in Nat \ {0} /\ count <= len
  BY <1>2, <1>4
<1> HIDE DEF count
<1> DEFINE begin(i) == ChunkStart(len, count, i)
<1>6. /\ begin(1) = 0 /\ begin(count + 1) = len
      /\ \A i \in 1 .. count + 1 : begin(i) \in Nat
      /\ \A i \in 1 .. count : begin(i) < begin(i + 1)
      /\ \A i, j \in 1 .. count + 1 : i <= j => begin(i) <= begin(j)
  BY <1>2, <1>5, BeginFacts
<1>7. \A i \in 1 .. count : chunk(i) = {sorted[k] : k \in begin(i) + 1 .. begin(i + 1)}
  OBVIOUS
<1> HIDE DEF begin, chunk
<1>8. \A i \in 1 .. count : /\ begin(i) \in Nat /\ begin(i + 1) \in Nat
                            /\ begin(i) < begin(i + 1) /\ begin(i + 1) <= len
  <2>1. TAKE i \in 1 .. count
  <2>2. i \in 1 .. count + 1 /\ i + 1 \in 1 .. count + 1 /\ count + 1 \in 1 .. count + 1 /\ i + 1 <= count + 1
    BY <1>5
  <2>3. QED
    BY <1>6, <2>2
<1>9. \A i \in 1 .. count : chunk(i) \in SUBSET items /\ chunk(i) # {}
  <2>1. TAKE i \in 1 .. count
  <2>2. \A k \in begin(i) + 1 .. begin(i + 1) : k \in 1 .. len
    BY <1>2, <1>8
  <2>3. \A k \in begin(i) + 1 .. begin(i + 1) : sorted[k] \in items
    BY <1>0, <2>2
  <2>4. begin(i) + 1 \in begin(i) + 1 .. begin(i + 1)
    BY <1>8
  <2>5. QED
    BY <1>7, <2>3, <2>4
<1>10. \A i, j \in 1 .. count : i < j => chunk(i) \cap chunk(j) = {}
  <2>1. TAKE i, j \in 1 .. count
  <2>2. HAVE i < j
  <2>3. begin(i + 1) <= begin(j)
    <3>1. i + 1 \in 1 .. count + 1 /\ j \in 1 .. count + 1 /\ i + 1 <= j
      BY <1>5, <2>2
    <3>2. QED
      BY <1>6, <3>1
  <2>4. SUFFICES ASSUME NEW k \in begin(i) + 1 .. begin(i + 1), NEW m \in begin(j) + 1 .. begin(j + 1),
                        sorted[k] = sorted[m]
                 PROVE  FALSE
    BY <1>7
  <2>5. k \in 1 .. len /\ m \in 1 .. len /\ k < m
    BY <1>2, <1>8, <2>3, SMTT(30)
  <2>6. sorted[k] < sorted[m] /\ sorted[k] \in Nat
    BY <1>0, <1>2, <2>5
  <2>7. QED
    BY <2>4, <2>6
<1>11. \A x \in items : \E i \in 1 .. count : x \in chunk(i)
  <2>1. TAKE x \in items
  <2>2. PICK k \in 1 .. len : sorted[k] = x
    BY <1>2
  <2> DEFINE past == {i \in 1 .. count + 1 : k <= begin(i)}
  <2>3. past \in SUBSET Nat /\ IsFiniteSet(past) /\ count + 1 \in past
    <3>1. IsFiniteSet(1 .. count + 1)
      BY <1>5, FS_Interval
    <3>2. IsFiniteSet(past)
      BY <3>1, FS_Subset
    <3>3. count + 1 \in past
      BY <1>2, <1>5, <1>6
    <3>4. QED
      BY <3>2, <3>3
  <2>4. Min(past) \in past /\ \A i \in past : Min(past) <= i
    <3> HIDE DEF past
    <3>1. QED
      BY <2>3, LeastAndGreatest
  <2> DEFINE i == Min(past) - 1
  <2>5. Min(past) \in 1 .. count + 1 /\ k <= begin(Min(past)) /\ Min(past) # 1
    BY <1>2, <1>6, <2>4
  <2>6. i \in 1 .. count /\ i + 1 = Min(past)
    BY <1>5, <2>5
  <2>7. ~ k <= begin(i)
    <3>1. SUFFICES ASSUME k <= begin(i) PROVE FALSE
      OBVIOUS
    <3>2. i \in past
      BY <1>5, <2>6, <3>1
    <3>3. QED
      BY <1>5, <2>4, <2>5, <3>2
  <2> HIDE DEF i, past
  <2>8. k \in begin(i) + 1 .. begin(i + 1)
    BY <1>2, <1>8, <2>5, <2>6, <2>7
  <2>9. QED
    BY <1>7, <2>2, <2>6, <2>8
<1>12. \A i, j \in 1 .. count : i # j => chunk(i) \cap chunk(j) = {}
  <2>1. \A i, j \in 1 .. count : i # j => i < j \/ j < i
    BY <1>5
  <2>2. QED
    BY <1>10, <2>1
<1> DEFINE chunks == [i \in 1 .. count |-> chunk(i)]
<1>13. /\ chunks \in Seq(SUBSET items) /\ Len(chunks) = count
       /\ \A i \in 1 .. count : chunks[i] = chunk(i)
  BY <1>5, <1>9
<1>14. Chunkify(items, n) = chunks
  BY <1>3
<1> HIDE DEF chunks
<1>15. QED
  BY <1>9, <1>11, <1>12, <1>13, <1>14

-----------------------------------------------------------------------------
(***************************************************************************)
(* The minimizer: types                                                    *)
(***************************************************************************)

Script == [kept : SUBSET Sections, wraps : [Sections -> Seq({"exec", "try"})],
           cut : 0 .. Statements, bare : BOOLEAN,
           text : {"unrun", "crashed", "stripped", "altered"}]

Later == {"unwrap", "statements", "strip", "done"}

MinimizerTyped ==
  /\ target \in Targets /\ option \in Options
  /\ stage \in Stages
  /\ script \in Script
  /\ at \in Nat \ {0} /\ changed \in BOOLEAN
  /\ accepted \subseteq {"exec", "try"}
  /\ seen \subseteq SUBSET Sections
  /\ files \in [{"reproducer", "min"} -> SUBSET Script]
  /\ stage = "verify" => at = 1 /\ ~changed /\ script.kept = Sections

\* The candidate sets left are apart from the required sections and from each other.
Parted(w) ==
  /\ w \in [required : SUBSET Sections, todo : Seq(SUBSET Sections)]
  /\ \A i \in 1 .. Len(w.todo) : w.todo[i] # {} /\ w.todo[i] \cap w.required = {}
  /\ \A i, j \in 1 .. Len(w.todo) : i # j => w.todo[i] \cap w.todo[j] = {}

Covered(todo) == UNION {todo[i] : i \in 1 .. Len(todo)}

\* What the assumption on the constants says of one target and one choice of options.
LEMMA ConstantFacts ==
  ASSUME NEW t \in Targets, NEW o \in Options
  PROVE  /\ N \in Nat \ {0} /\ Statements \in Nat
         /\ Sections \in SUBSET Nat /\ IsFiniteSet(Sections) /\ N \in Sections
         /\ t.needs \in SUBSET SUBSET Sections /\ t.masked \in SUBSET SUBSET Sections
         /\ o.factor \in Nat \ {0, 1}
         /\ o.bisect \in BOOLEAN /\ o.verify \in BOOLEAN /\ o.artifact \in BOOLEAN
         /\ o.flaky \in BOOLEAN /\ o.faulty \in BOOLEAN
<1>1. t \in Target /\ o \in Option /\ N \in Nat \ {0} /\ Statements \in Nat
  BY MinimizerAssumption
<1>2. Sections \in SUBSET Nat /\ IsFiniteSet(Sections) /\ N \in Sections
  BY <1>1, FS_Interval DEF Sections
<1>3. QED
  BY <1>1, <1>2 DEF Target, Option

\* The sections left, in order: Kept is what reduce_sections() iterates over.
LEMMA KeptFacts ==
  ASSUME MinimizerTyped
  PROVE  /\ Kept \in Seq(script.kept) /\ Len(Kept) \in Nat
         /\ \A i \in 1 .. Len(Kept) : Kept[i] \in script.kept /\ Kept[i] \in Sections
         /\ \A section \in script.kept : \E i \in 1 .. Len(Kept) : Kept[i] = section
<1>1. script.kept \in SUBSET Sections
  BY DEF MinimizerTyped, Script
<1>2. script.kept \in SUBSET Nat /\ IsFiniteSet(script.kept)
  BY <1>1, ConstantFacts, FS_Subset DEF MinimizerTyped
<1>3. /\ Kept \in Seq(script.kept) /\ Len(Kept) \in Nat
      /\ \A section \in script.kept : \E i \in 1 .. Len(Kept) : Kept[i] = section
  BY <1>2, SortedFacts DEF Kept
<1>4. \A i \in 1 .. Len(Kept) : Kept[i] \in script.kept
  BY <1>3, ElementOfSeq
<1>5. QED
  BY <1>1, <1>3, <1>4

\* A run ends in a crash only if its sections crash; if the crash is steady, it then
\* always does.
LEMMA TryFacts ==
  ASSUME MinimizerTyped, NEW kept \in SUBSET Sections, NEW crash \in BOOLEAN, Try(kept, crash)
  PROVE  /\ crash => Crashes(kept)
         /\ ~crash /\ ~option.flaky => ~Crashes(kept)
         /\ crash => seen' = seen \cup {kept}
         /\ seen \subseteq seen' /\ seen' \subseteq SUBSET Sections
<1>1. PICK run \in Runs(kept) : /\ crash = (run = "signal")
                                /\ seen' = IF run = "signal" THEN seen \cup {kept} ELSE seen
  BY DEF Try, IsCrash
<1>2. run = "signal" => Crashes(kept)
  BY <1>1 DEF Runs
<1>3. run # "signal" /\ ~option.flaky => ~Crashes(kept)
  BY <1>1 DEF Runs
<1>4. seen \subseteq SUBSET Sections
  BY DEF MinimizerTyped
<1>5. QED
  BY <1>1, <1>2, <1>3, <1>4

Place == IF option.artifact THEN "reproducer" ELSE "min"

\* Writing a script adds no other to the files, and without write errors it is where it
\* belongs.
LEMMA PersistFacts ==
  ASSUME MinimizerTyped, NEW s \in Script, Persist(s)
  PROVE  /\ files' \in [{"reproducer", "min"} -> SUBSET Script]
         /\ \A place \in {"reproducer", "min"} : files'[place] \subseteq files[place] \cup {s}
         /\ ~option.faulty => files' = [files EXCEPT ![Place] = {s}]
<1> DEFINE Files == [{"reproducer", "min"} -> SUBSET Script]
           first == Attempts(files, Place, s)
<1>1. files \in Files /\ Place \in {"reproducer", "min"}
  BY DEF MinimizerTyped, Place
<1>2. ASSUME NEW fs \in Files, NEW place \in {"reproducer", "min"}, NEW try \in Attempts(fs, place, s)
      PROVE  /\ try.files \in Files
             /\ \A p \in {"reproducer", "min"} : try.files[p] \subseteq fs[p] \cup {s}
             /\ ~option.faulty => try.ok /\ try.files = [fs EXCEPT ![place] = {s}]
  <2>1. \/ try = [ok |-> TRUE, files |-> [fs EXCEPT ![place] = {s}]]
        \/ option.faulty /\ try = [ok |-> FALSE, files |-> fs]
        \/ option.faulty /\ try = [ok |-> FALSE, files |-> [fs EXCEPT ![place] = {}]]
    BY <1>2 DEF Attempts
  <2>2. [fs EXCEPT ![place] = {s}] \in Files /\ [fs EXCEPT ![place] = {}] \in Files
    BY <1>2
  <2>3. \A p \in {"reproducer", "min"} : /\ [fs EXCEPT ![place] = {s}][p] \subseteq fs[p] \cup {s}
                                         /\ [fs EXCEPT ![place] = {}][p] \subseteq fs[p] \cup {s}
    BY <1>2
  <2>4. CASE try = [ok |-> TRUE, files |-> [fs EXCEPT ![place] = {s}]]
    <3>1. try.ok = TRUE /\ try.files = [fs EXCEPT ![place] = {s}]
      BY <2>4
    <3>2. QED
      BY <2>2, <2>3, <3>1
  <2>5. CASE option.faulty /\ (try.files = fs \/ try.files = [fs EXCEPT ![place] = {}])
    BY <1>2, <2>2, <2>3, <2>5
  <2>6. option.faulty /\ try = [ok |-> FALSE, files |-> fs] => try.files = fs
    OBVIOUS
  <2>7. option.faulty /\ try = [ok |-> FALSE, files |-> [fs EXCEPT ![place] = {}]] =>
          try.files = [fs EXCEPT ![place] = {}]
    OBVIOUS
  <2>8. QED
    BY <2>1, <2>4, <2>5, <2>6, <2>7
<1>3. PICK one \in Attempts(files, Place, s) :
        IF one.ok \/ ~option.artifact THEN files' = one.files
        ELSE \E second \in Attempts(one.files, "min", s) : files' = second.files
  BY DEF Persist, Place
<1>4. /\ one.files \in Files
      /\ \A p \in {"reproducer", "min"} : one.files[p] \subseteq files[p] \cup {s}
      /\ ~option.faulty => one.ok /\ one.files = [files EXCEPT ![Place] = {s}]
  BY <1>1, <1>2
<1>5. CASE one.ok \/ ~option.artifact
  BY <1>3, <1>4, <1>5
<1>6. CASE ~(one.ok \/ ~option.artifact)
  <2>1. PICK second \in Attempts(one.files, "min", s) : files' = second.files
    BY <1>3, <1>6
  <2>2. /\ second.files \in Files
        /\ \A p \in {"reproducer", "min"} : second.files[p] \subseteq one.files[p] \cup {s}
    BY <1>2, <1>4
  <2>3. option.faulty
    BY <1>4, <1>6
  <2>4. QED
    BY <1>4, <2>1, <2>2, <2>3
<1>7. QED
  BY <1>5, <1>6

\* Taking wrappers off leaves wrappers.
LEMMA UnwrapFacts ==
  ASSUME NEW wraps \in Seq({"exec", "try"})
  PROVE  WithoutExec(wraps) \subseteq Seq({"exec", "try"}) /\ WithoutTry(wraps) \subseteq Seq({"exec", "try"})
<1> DEFINE W == {"exec", "try"}
<1>1. wraps # <<>> => Tail(wraps) \in Seq(W)
  OBVIOUS
<1>2. Len(wraps) > 1 => <<"try">> \o SubSeq(wraps, 3, Len(wraps)) \in Seq(W)
  <2>1. HAVE Len(wraps) > 1
  <2>2. SubSeq(wraps, 3, Len(wraps)) \in Seq(W)
    <3>1. Len(wraps) \in Nat /\ \A i \in 3 .. Len(wraps) : wraps[i] \in W
      OBVIOUS
    <3>2. QED
      BY <2>1, <3>1, SubSeqProperties
  <2>3. <<"try">> \in Seq(W)
    OBVIOUS
  <2>4. QED
    BY <2>2, <2>3, ConcatProperties
<1> HIDE DEF W
<1>3. WithoutTry(wraps) \subseteq Seq(W)
  BY <1>1 DEF WithoutTry
<1>4. WithoutExec(wraps) \subseteq Seq(W)
  <2>1. CASE wraps # <<>> /\ Head(wraps) = "exec"
    <3>1. ~(Len(wraps) > 1 /\ wraps[1] = "try" /\ wraps[2] = "exec")
      BY <2>1
    <3>2. WithoutExec(wraps) = {Tail(wraps)}
      BY <2>1, <3>1 DEF WithoutExec
    <3>3. QED
      BY <1>1, <2>1, <3>2
  <2>2. CASE ~(wraps # <<>> /\ Head(wraps) = "exec")
    <3>1. CASE Len(wraps) > 1 /\ wraps[1] = "try" /\ wraps[2] = "exec"
      <4>1. WithoutExec(wraps) = {<<"try">> \o SubSeq(wraps, 3, Len(wraps))}
        BY <2>2, <3>1 DEF WithoutExec
      <4>2. QED
        BY <1>2, <3>1, <4>1
    <3>2. CASE ~(Len(wraps) > 1 /\ wraps[1] = "try" /\ wraps[2] = "exec")
      <4>1. WithoutExec(wraps) = {}
        BY <2>2, <3>2 DEF WithoutExec
      <4>2. QED
        BY <4>1
    <3>3. QED
      BY <3>1, <3>2
  <2>3. QED
    BY <2>1, <2>2
<1>5. QED
  BY <1>3, <1>4 DEF W

\* What is tried for a set of candidates is a part of it.
LEMMA TrialFacts ==
  ASSUME NEW o \in Options, NEW t \in Targets, o = option,
         NEW candidates \in SUBSET Sections, candidates # {}
  PROVE  Trials(candidates) \in Seq(SUBSET candidates)
<1> DEFINE P == SUBSET candidates
           chunks == Chunkify(candidates, option.factor)
           rest == [i \in DOMAIN chunks |-> candidates \ chunks[i]]
<1>1. option.factor \in Nat \ {0}
  BY ConstantFacts
<1>2. chunks \in Seq(P)
  BY <1>1, ChunkFacts
<1>3. <<{}>> \in Seq(P) /\ <<>> \in Seq(P)
  <2>1. {} \in P
    OBVIOUS
  <2> HIDE DEF P
  <2>2. QED
    BY <2>1
<1>4. Trials(candidates) = IF Cardinality(candidates) = 1 THEN <<{}>>
                           ELSE <<{}>> \o Reverse(chunks) \o (IF Len(chunks) > 2 THEN rest ELSE <<>>)
  BY DEF Trials
<1>5. rest \in Seq(P)
  <2>1. \A i \in DOMAIN chunks : candidates \ chunks[i] \in P
    OBVIOUS
  <2>2. DOMAIN chunks = 1 .. Len(chunks) /\ Len(chunks) \in Nat
    <3> HIDE DEF chunks, P
    <3>1. QED
      BY <1>2, LenProperties
  <2> HIDE DEF chunks, P
  <2>3. QED
    BY <2>1, <2>2
<1>6. Reverse(chunks) \in Seq(P)
  <2> HIDE DEF chunks, P
  <2>1. Len(chunks) \in Nat /\ \A i \in 1 .. Len(chunks) : chunks[i] \in P
    BY <1>2, ElementOfSeq, LenProperties
  <2>2. \A i \in 1 .. Len(chunks) : (Len(chunks) - i) + 1 \in 1 .. Len(chunks)
    BY <2>1
  <2>3. \A i \in 1 .. Len(chunks) : chunks[(Len(chunks) - i) + 1] \in P
    BY <2>1, <2>2
  <2>4. QED
    BY <2>1, <2>3 DEF Reverse
<1> HIDE DEF chunks, rest, P
<1>7. Trials(candidates) \in Seq(P)
  BY <1>3, <1>4, <1>5, <1>6, ConcatProperties
<1>8. QED
  BY <1>7 DEF P

\* A set of candidates may be replaced by parts of it that are apart, or be required.
LEMMA HeadReplaced ==
  ASSUME NEW w, Parted(w), w.todo # <<>>,
         NEW pieces \in Seq(SUBSET Sections),
         \A i \in 1 .. Len(pieces) : pieces[i] # {} /\ pieces[i] \subseteq Head(w.todo),
         \A i, j \in 1 .. Len(pieces) : i # j => pieces[i] \cap pieces[j] = {}
  PROVE  /\ Parted([w EXCEPT !.todo = pieces \o Tail(w.todo)])
         /\ Covered(pieces \o Tail(w.todo)) = Covered(pieces) \cup Covered(Tail(w.todo))
         /\ Parted([required |-> w.required \cup Head(w.todo), todo |-> Tail(w.todo)])
         /\ Covered(w.todo) = Head(w.todo) \cup Covered(Tail(w.todo))
         /\ Head(w.todo) # {} /\ Head(w.todo) \in SUBSET Sections
<1> DEFINE P == SUBSET Sections
           todo == w.todo
           rest == Tail(todo)
           new == pieces \o rest
<1>1. todo \in Seq(P) /\ w.required \in P /\ w \in [required : P, todo : Seq(P)]
  BY DEF Parted
<1>2. /\ \A i \in 1 .. Len(todo) : todo[i] # {} /\ todo[i] \cap w.required = {}
      /\ \A i, j \in 1 .. Len(todo) : i # j => todo[i] \cap todo[j] = {}
  BY DEF Parted
<1> HIDE DEF P, todo
<1>3. /\ Len(todo) \in Nat /\ Len(todo) >= 1 /\ rest \in Seq(P) /\ Len(rest) = Len(todo) - 1
      /\ Head(todo) = todo[1] /\ \A i \in 1 .. Len(rest) : rest[i] = todo[i + 1]
  BY <1>1, HeadTailProperties DEF todo
<1> HIDE DEF rest
<1>4. pieces \in Seq(P) /\ Len(pieces) \in Nat
  BY DEF P
<1>5. /\ new \in Seq(P) /\ Len(new) = Len(pieces) + Len(rest)
      /\ \A i \in 1 .. Len(new) : new[i] = IF i <= Len(pieces) THEN pieces[i] ELSE rest[i - Len(pieces)]
  <2>1. /\ pieces \o rest \in Seq(P) /\ Len(pieces \o rest) = Len(pieces) + Len(rest)
        /\ \A i \in 1 .. Len(pieces) + Len(rest) :
             (pieces \o rest)[i] = IF i <= Len(pieces) THEN pieces[i] ELSE rest[i - Len(pieces)]
    <3>1. pieces \in Seq(P) /\ rest \in Seq(P)
      BY <1>3, <1>4
    <3> HIDE DEF P
    <3>2. QED
      BY ONLY <3>1, ConcatProperties
  <2>2. QED
    BY <2>1
<1> HIDE DEF new
<1>6. \A i \in 1 .. Len(rest) : /\ i + 1 \in 1 .. Len(todo) /\ i + 1 # 1 /\ 1 \in 1 .. Len(todo)
                                /\ rest[i] = todo[i + 1]
  BY <1>3
<1>7. /\ Head(todo) # {} /\ Head(todo) \in P /\ Head(todo) \cap w.required = {}
      /\ \A i \in 1 .. Len(rest) : rest[i] # {} /\ rest[i] \cap w.required = {} /\ rest[i] \cap Head(todo) = {}
      /\ \A i, j \in 1 .. Len(rest) : i # j => rest[i] \cap rest[j] = {}
  <2>1. /\ Head(todo) # {} /\ Head(todo) \cap w.required = {}
    BY <1>2, <1>3
  <2>2. Head(todo) \in P
    BY <1>1, <1>3, ElementOfSeq
  <2>3. \A i \in 1 .. Len(rest) : rest[i] # {} /\ rest[i] \cap w.required = {} /\ rest[i] \cap Head(todo) = {}
    BY <1>2, <1>3, <1>6
  <2>4. \A i, j \in 1 .. Len(rest) : i # j => i + 1 # j + 1
    BY <1>3
  <2>5. \A i, j \in 1 .. Len(rest) : i # j => rest[i] \cap rest[j] = {}
    BY <1>2, <1>6, <2>4
  <2>6. QED
    BY <2>1, <2>2, <2>3, <2>5
<1>8. \A i \in 1 .. Len(new) :
         \/ i \in 1 .. Len(pieces) /\ new[i] = pieces[i]
         \/ i - Len(pieces) \in 1 .. Len(rest) /\ new[i] = rest[i - Len(pieces)]
  <2>1. TAKE i \in 1 .. Len(new)
  <2>2. Len(pieces) \in Nat /\ Len(rest) \in Nat /\ Len(new) = Len(pieces) + Len(rest)
    BY <1>3, <1>4, <1>5
  <2>3. i \in 1 .. Len(pieces) \/ (i - Len(pieces) \in 1 .. Len(rest) /\ ~(i <= Len(pieces)))
    BY <2>2
  <2>4. i \in 1 .. Len(pieces) => i <= Len(pieces)
    BY <2>2
  <2>5. new[i] = IF i <= Len(pieces) THEN pieces[i] ELSE rest[i - Len(pieces)]
    BY <1>5
  <2>6. QED
    BY <2>3, <2>4, <2>5
<1>9. \A i \in 1 .. Len(pieces) : pieces[i] # {} /\ pieces[i] \subseteq Head(todo)
  BY DEF todo
<1>10. Parted([w EXCEPT !.todo = new])
  <2> DEFINE v == [w EXCEPT !.todo = new]
  <2>1. v \in [required : SUBSET Sections, todo : Seq(SUBSET Sections)] /\ v.todo = new /\ v.required = w.required
    BY <1>1, <1>5 DEF P
  <2>2. \A i \in 1 .. Len(new) : new[i] # {} /\ new[i] \cap w.required = {}
    BY <1>7, <1>8, <1>9
  <2>3. \A i, j \in 1 .. Len(new) : i # j => new[i] \cap new[j] = {}
    <3>1. TAKE i, j \in 1 .. Len(new)
    <3>2. HAVE i # j
    <3>3. i - Len(pieces) # j - Len(pieces)
      BY <1>3, <1>4, <1>5, <3>2
    <3>4. CASE i \in 1 .. Len(pieces) /\ new[i] = pieces[i]
      BY <1>7, <1>8, <1>9, <3>2, <3>4
    <3>5. CASE i - Len(pieces) \in 1 .. Len(rest) /\ new[i] = rest[i - Len(pieces)]
      BY <1>7, <1>8, <1>9, <3>3, <3>5
    <3>6. QED
      BY <1>8, <3>4, <3>5
  <2> HIDE DEF v
  <2>4. QED
    BY <2>1, <2>2, <2>3 DEF Parted
<1>11. Covered(new) = Covered(pieces) \cup Covered(rest)
  <2>1. \A x : x \in Covered(new) => x \in Covered(pieces) \cup Covered(rest)
    BY <1>8 DEF Covered
  <2>2. \A i \in 1 .. Len(pieces) : i \in 1 .. Len(new) /\ new[i] = pieces[i]
    BY <1>3, <1>4, <1>5
  <2>3. \A i \in 1 .. Len(rest) : i + Len(pieces) \in 1 .. Len(new) /\ new[i + Len(pieces)] = rest[i]
    BY <1>3, <1>4, <1>5
  <2>4. \A x : x \in Covered(pieces) => x \in Covered(new)
    BY <2>2 DEF Covered
  <2>5. \A x : x \in Covered(rest) => x \in Covered(new)
    BY <2>3, ZenonT(30) DEF Covered
  <2>6. QED
    BY <2>1, <2>4, <2>5
<1>12. Parted([required |-> w.required \cup Head(todo), todo |-> rest])
  <2> DEFINE v == [required |-> w.required \cup Head(todo), todo |-> rest]
  <2>1. v \in [required : SUBSET Sections, todo : Seq(SUBSET Sections)] /\ v.todo = rest
        /\ v.required = w.required \cup Head(todo)
    BY <1>1, <1>3, <1>7 DEF P
  <2>2. \A i \in 1 .. Len(rest) : rest[i] # {} /\ rest[i] \cap (w.required \cup Head(todo)) = {}
    BY <1>7
  <2> HIDE DEF v
  <2>3. QED
    BY <1>7, <2>1, <2>2 DEF Parted
<1>13. Covered(todo) = Head(todo) \cup Covered(rest)
  <2>1. \A i \in 1 .. Len(todo) : i = 1 \/ (i - 1 \in 1 .. Len(rest) /\ rest[i - 1] = todo[i])
    BY <1>3
  <2>2. 1 \in 1 .. Len(todo)
    BY <1>3
  <2>3. \A x : x \in Covered(todo) => x \in Head(todo) \cup Covered(rest)
    <3>1. SUFFICES ASSUME NEW i \in 1 .. Len(todo), NEW x \in todo[i]
                   PROVE  x \in Head(todo) \/ \E j \in 1 .. Len(rest) : x \in rest[j]
      BY DEF Covered
    <3>2. QED
      BY <1>3, <2>1
  <2>4. \A x : x \in Head(todo) => x \in Covered(todo)
    BY <1>3, <2>2 DEF Covered
  <2>5. \A x : x \in Covered(rest) => x \in Covered(todo)
    BY <1>6 DEF Covered
  <2>6. QED
    BY <2>3, <2>4, <2>5
<1>14. QED
  BY <1>7, <1>10, <1>11, <1>12, <1>13 DEF new, rest, todo, P

\* Every action leaves the target and the command line alone, and only a settled or
\* shortened script is written.
LEMMA LaterSteps ==
  ASSUME MinimizerTyped,
         Unwrap \/ UnwrapAgain \/ UnwrapDone \/ CutStatement \/ StatementsDone \/ StripComments
  PROVE  /\ stage \in Later /\ stage' \in Later
         /\ script' \in Script /\ script'.kept = script.kept /\ (SeenCrashing(script) => SeenCrashing(script)')
         /\ files' = files \/ Persist(script')
         /\ stage' = "done" => Persist(script')
         /\ UNCHANGED <<target, option, work, seen>>
         /\ at' \in Nat \ {0} /\ changed' \in BOOLEAN /\ accepted' \subseteq {"exec", "try"}
<1>1. /\ script \in Script /\ at \in Nat \ {0} /\ changed \in BOOLEAN /\ accepted \subseteq {"exec", "try"}
      /\ script.cut \in Nat /\ Statements \in Nat /\ at + 1 \in Nat \ {0}
  BY ConstantFacts DEF MinimizerTyped, Script
<1>2. CASE Unwrap
  <2> DEFINE section == Kept[at]
             accept(label, w) == /\ script' = [script EXCEPT !.wraps[section] = w, !.text = "crashed"]
                                 /\ accepted' = accepted \cup {label}
                                 /\ changed' = TRUE /\ UNCHANGED at
  <2>1. /\ stage = "unwrap" /\ at <= Len(Kept) /\ UNCHANGED <<Chosen, stage, work, seen, files>>
        /\ \/ \E w \in WithoutExec(script.wraps[section]) : accept("exec", w)
           \/ \E w \in WithoutTry(script.wraps[section]) : accept("try", w)
           \/ at' = at + 1 /\ UNCHANGED <<script, changed, accepted>>
    BY <1>2 DEF Unwrap
  <2>2. section \in Sections
    <3>0. Len(Kept) \in Nat /\ at \in Nat \ {0} /\ at <= Len(Kept)
      BY <1>1, <2>1, KeptFacts
    <3>1. at \in 1 .. Len(Kept)
      BY <3>0
    <3>2. QED
      BY <3>1, KeptFacts
  <2>3. script.wraps[section] \in Seq({"exec", "try"})
    BY <1>1, <2>2 DEF Script
  <2>4. /\ WithoutExec(script.wraps[section]) \subseteq Seq({"exec", "try"})
        /\ WithoutTry(script.wraps[section]) \subseteq Seq({"exec", "try"})
    BY <2>3, UnwrapFacts
  <2>5. ASSUME NEW label \in {"exec", "try"}, NEW w \in Seq({"exec", "try"}), accept(label, w)
        PROVE  /\ script' \in Script /\ script'.kept = script.kept /\ script'.text = "crashed"
               /\ at' = at /\ changed' = TRUE /\ accepted' \subseteq {"exec", "try"}
    <3>1. script' = [script EXCEPT !.wraps = [script.wraps EXCEPT ![section] = w], !.text = "crashed"]
      BY <1>1, <2>5 DEF Script
    <3>2. [script.wraps EXCEPT ![section] = w] \in [Sections -> Seq({"exec", "try"})]
      BY <1>1, <2>2, <2>5 DEF Script
    <3>3. QED
      BY <1>1, <2>5, <3>1, <3>2 DEF Script
  <2>6. /\ script' \in Script /\ script'.kept = script.kept /\ (SeenCrashing(script) => SeenCrashing(script)')
        /\ at' \in Nat \ {0} /\ changed' \in BOOLEAN /\ accepted' \subseteq {"exec", "try"}
    <3>1. CASE \E w \in WithoutExec(script.wraps[section]) : accept("exec", w)
      BY <1>1, <2>4, <2>5, <3>1 DEF SeenCrashing
    <3>2. CASE \E w \in WithoutTry(script.wraps[section]) : accept("try", w)
      BY <1>1, <2>4, <2>5, <3>2 DEF SeenCrashing
    <3>3. CASE at' = at + 1 /\ UNCHANGED <<script, changed, accepted>>
      BY <1>1, <3>3
    <3>4. QED
      BY <2>1, <3>1, <3>2, <3>3
  <2>7. QED
    BY <2>1, <2>6 DEF Later, Chosen
<1>3. CASE UnwrapAgain
  <2>1. /\ stage = "unwrap" /\ at' = 1 /\ changed' = FALSE
        /\ UNCHANGED <<Chosen, stage, script, work, accepted, seen, files>>
    BY <1>3 DEF UnwrapAgain
  <2>2. /\ stage \in Later /\ stage' \in Later /\ stage' # "done"
        /\ UNCHANGED <<target, option, script, work, accepted, seen, files>>
    BY <2>1 DEF Later, Chosen
  <2>3. SeenCrashing(script) => SeenCrashing(script)'
    BY <2>2
  <2>4. at' \in Nat \ {0}
    BY <2>1
  <2>5. changed' \in BOOLEAN
    BY <2>1, Zenon
  <2>6. QED
    BY <1>1, <2>2, <2>3, <2>4, <2>5
<1>4. CASE UnwrapDone
  <2>1. /\ stage = "unwrap" /\ stage' \in {"statements", "strip"} /\ at' = 1
        /\ UNCHANGED <<Chosen, script, work, changed, accepted, seen>>
    BY <1>4 DEF UnwrapDone
  <2>2. files' = files \/ Persist(script)
    BY <1>4 DEF UnwrapDone
  <2>3. Persist(script) => Persist(script')
    BY <2>1 DEF Persist
  <2>4. QED
    BY <1>1, <2>1, <2>2, <2>3 DEF Later, Chosen
<1>5. CASE CutStatement
  <2>1. /\ stage = "statements" /\ UNCHANGED <<Chosen, stage, work, changed, accepted, seen>>
        /\ \/ \E cut \in script.cut + 1 .. Statements :
                LET shorter == [script EXCEPT !.cut = cut, !.text = "crashed"]
                IN  script' = shorter /\ Persist(shorter) /\ at' = 1
           \/ at' = at + 1 /\ UNCHANGED <<script, files>>
    BY <1>5 DEF CutStatement
  <2>2. CASE \E cut \in script.cut + 1 .. Statements :
               LET shorter == [script EXCEPT !.cut = cut, !.text = "crashed"]
               IN  script' = shorter /\ Persist(shorter) /\ at' = 1
    <3>1. PICK cut \in script.cut + 1 .. Statements :
            /\ script' = [script EXCEPT !.cut = cut, !.text = "crashed"]
            /\ Persist([script EXCEPT !.cut = cut, !.text = "crashed"]) /\ at' = 1
      BY <2>2
    <3>5. Persist(script')
      BY <3>1 DEF Persist
    <3>2. cut \in 0 .. Statements
      BY <1>1
    <3>3. script' \in Script /\ script'.kept = script.kept /\ script'.text = "crashed"
      BY <1>1, <3>1, <3>2 DEF Script
    <3>6. stage = "statements" /\ stage' = "statements" /\ at' = 1 /\ UNCHANGED <<target, option, work, seen, changed, accepted>>
      BY <2>1, <3>1 DEF Chosen
    <3>7. SeenCrashing(script) => SeenCrashing(script)'
      BY <3>3 DEF SeenCrashing
    <3>8. at' \in Nat \ {0} /\ changed' \in BOOLEAN /\ accepted' \subseteq {"exec", "try"}
      BY <1>1, <3>6
    <3>9. stage \in Later /\ stage' \in Later /\ stage' # "done"
      BY <3>6 DEF Later
    <3>4. QED
      BY <3>3, <3>5, <3>6, <3>7, <3>8, <3>9
  <2>3. CASE at' = at + 1 /\ UNCHANGED <<script, files>>
    BY <1>1, <2>1, <2>3 DEF Later, Chosen
  <2>4. QED
    BY <2>1, <2>2, <2>3
<1>6. CASE StatementsDone
  <2>1. /\ stage = "statements" /\ stage' = "strip"
        /\ UNCHANGED <<Chosen, script, work, at, changed, accepted, seen>>
        /\ (files' = files \/ Persist(script))
    BY <1>6 DEF StatementsDone
  <2>2. Persist(script) => Persist(script')
    BY <2>1 DEF Persist
  <2>3. QED
    BY <1>1, <2>1, <2>2 DEF Later, Chosen
<1>7. CASE StripComments
  <2>1. /\ stage = "strip" /\ stage' = "done" /\ UNCHANGED <<Chosen, work, at, changed, accepted, seen>>
    BY <1>7 DEF StripComments
  <2>2. PICK text \in Stripped(script) :
          script' = [script EXCEPT !.bare = TRUE, !.text = text] /\ Persist(script')
    BY <1>7 DEF StripComments
  <2>3. /\ text \in {"unrun", "crashed", "stripped", "altered"}
        /\ text \in {"crashed", "stripped"} \/ text = script.text
           \/ (text = "altered" /\ script.kept \cap Literals # {})
    BY <1>1, <2>2 DEF Stripped, Script
  <2>4. /\ script' \in Script /\ script'.kept = script.kept
        /\ script'.bare = TRUE /\ script'.text = text
    BY <1>1, <2>2, <2>3 DEF Script
  <2>5. SeenCrashing(script) => SeenCrashing(script)'
    BY <1>1, <2>3, <2>4 DEF SeenCrashing
  <2>6. QED
    BY <1>1, <2>1, <2>2, <2>4, <2>5 DEF Later, Chosen
<1>8. QED
  BY <1>2, <1>3, <1>4, <1>5, <1>6, <1>7

\* What the sections are settled at.
LEMMA Settles ==
  ASSUME MinimizerTyped, Parted(work), SectionsDone
  PROVE  /\ stage = "reduce" /\ stage' = "unwrap"
         /\ IF option.bisect THEN work.todo = <<>> ELSE at > Len(Kept) /\ ~changed
         /\ script' \in Script /\ Persist(script')
         /\ script'.kept = IF option.bisect THEN work.required ELSE script.kept
         /\ script'.text = IF script'.kept \in seen THEN "crashed" ELSE "unrun"
         /\ work' = [required |-> {}, todo |-> <<>>] /\ seen' = {} /\ at' = 1 /\ changed' = FALSE
         /\ UNCHANGED <<target, option, accepted>>
<1> DEFINE kept == IF option.bisect THEN work.required ELSE script.kept
<1>1. script \in Script /\ kept \in SUBSET Sections
  BY DEF MinimizerTyped, Parted, Script
<1>2. script' = [script EXCEPT !.kept = kept, !.text = IF kept \in seen THEN "crashed" ELSE "unrun"] /\ Persist(script')
  BY DEF SectionsDone
<1>3. (kept \in seen) \in BOOLEAN
  OBVIOUS
<1> HIDE DEF kept
<1>4. script' \in Script /\ script'.kept = kept /\ script'.text = IF kept \in seen THEN "crashed" ELSE "unrun"
  BY <1>1, <1>2, <1>3 DEF Script
<1>5. QED
  BY <1>2, <1>4 DEF SectionsDone, Chosen, kept

\* The next chunk moves to what is required: the chunks still part the sections.
LEMMA HeadTaken ==
  ASSUME NEW w, Parted(w), w.todo # <<>>
  PROVE  /\ Parted([required |-> w.required \cup Head(w.todo), todo |-> Tail(w.todo)])
         /\ Covered(w.todo) = Head(w.todo) \cup Covered(Tail(w.todo))
         /\ Head(w.todo) # {} /\ Head(w.todo) \in SUBSET Sections
<1>1. <<>> \in Seq(SUBSET Sections) /\ \A i \in 1 .. Len(<<>>) : FALSE
  OBVIOUS
<1>2. PICK none \in Seq(SUBSET Sections) : \A i \in 1 .. Len(none) : FALSE
  BY <1>1
<1>3. QED
  BY <1>2, HeadReplaced

\* The actions on the sections leave the rest alone.
LEMMA ReduceSteps ==
  ASSUME MinimizerTyped, Parted(work), RemoveOne \/ PassAgain \/ TryKeeping \/ Recurse
  PROVE  /\ stage = "reduce" /\ UNCHANGED <<target, option, stage, accepted, files>>
         /\ script' \in Script /\ at' \in Nat \ {0} /\ changed' \in BOOLEAN
         /\ seen \subseteq seen' /\ seen' \subseteq SUBSET Sections
         /\ Parted(work')
         /\ option.bisect => UNCHANGED script
         /\ ~option.bisect => UNCHANGED work /\ ~(TryKeeping \/ Recurse)
         /\ TryKeeping => option.bisect /\
              \E kept \in SUBSET Sections, todo \in Seq(SUBSET Sections) :
                 \/ UNCHANGED work
                 \/ /\ Crashes(kept)
                    /\ kept \subseteq work.required \cup Covered(todo)
                    /\ work' = [required |-> work.required, todo |-> todo]
         /\ Recurse => option.bisect /\
              work.required \cup Covered(work.todo) \subseteq work'.required \cup Covered(work'.todo)
<1>1. /\ script \in Script /\ at \in Nat \ {0} /\ changed \in BOOLEAN /\ seen \subseteq SUBSET Sections
      /\ at + 1 \in Nat \ {0} /\ 1 \in Nat \ {0} /\ option \in Options /\ target \in Targets
  BY DEF MinimizerTyped
<1>2. option.factor \in Nat \ {0} /\ option.bisect \in BOOLEAN
  BY <1>1, ConstantFacts
<1>3. CASE RemoveOne
  <2>1. /\ stage = "reduce" /\ ~option.bisect /\ at <= Len(Kept)
        /\ UNCHANGED <<target, option, stage, work, accepted, files>>
    BY <1>3 DEF RemoveOne, Chosen
  <2>2. PICK crash \in BOOLEAN :
          /\ Try(script.kept \ {Kept[at]}, crash)
          /\ IF crash THEN /\ script' = [script EXCEPT !.kept = @ \ {Kept[at]}]
                           /\ changed' = TRUE
                           /\ UNCHANGED at
                      ELSE at' = at + 1 /\ UNCHANGED <<script, changed>>
    BY <1>3 DEF RemoveOne
  <2>3. script.kept \ {Kept[at]} \in SUBSET Sections
    BY <1>1 DEF Script
  <2>4. seen \subseteq seen' /\ seen' \subseteq SUBSET Sections
    BY <2>2, <2>3, TryFacts
  <2>5. script' \in Script /\ at' \in Nat \ {0} /\ changed' \in BOOLEAN
    BY <1>1, <2>2, <2>3 DEF Script
  <2>6. ~(TryKeeping \/ Recurse)
    BY <2>1 DEF TryKeeping, Recurse, Bisecting
  <2>7. Parted(work')
    BY <2>1
  <2>8. QED
    BY <2>1, <2>4, <2>5, <2>6, <2>7
<1>4. CASE PassAgain
  <2>1. /\ stage = "reduce" /\ ~option.bisect /\ at' = 1 /\ changed' = FALSE
        /\ UNCHANGED <<target, option, stage, script, work, accepted, seen, files>>
    BY <1>4 DEF PassAgain, Chosen
  <2>2. changed' \in BOOLEAN
    BY <2>1, Zenon
  <2>3. ~(TryKeeping \/ Recurse)
    BY <2>1 DEF TryKeeping, Recurse, Bisecting
  <2>4. Parted(work')
    BY <2>1
  <2>5. QED
    BY <1>1, <2>1, <2>2, <2>3, <2>4
<1>5. CASE TryKeeping
  <2> DEFINE candidates == Head(work.todo)
             trials == Trials(candidates)
             todo == (IF trials[at] = {} THEN <<>> ELSE <<trials[at]>>) \o Tail(work.todo)
  <2>1. /\ stage = "reduce" /\ option.bisect /\ work.todo # <<>> /\ at <= Len(trials)
        /\ UNCHANGED <<target, option, stage, script, changed, accepted, files>>
    BY <1>5 DEF TryKeeping, Bisecting, Chosen
  <2>2. PICK crash \in BOOLEAN :
          /\ Try(work.required \cup trials[at], crash)
          /\ IF crash THEN work' = [work EXCEPT !.todo = todo] /\ at' = 1
                      ELSE at' = at + 1 /\ UNCHANGED work
    BY <1>5 DEF TryKeeping
  <2>3. candidates # {} /\ candidates \in SUBSET Sections
    BY <2>1, HeadTaken
  <2>4. trials[at] \in SUBSET candidates
    <3>1. trials \in Seq(SUBSET candidates)
      BY <1>1, <2>3, TrialFacts
    <3>2. Len(trials) \in Nat
      BY <3>1
    <3>3. at \in 1 .. Len(trials)
      BY <1>1, <2>1, <3>2
    <3> HIDE DEF trials, candidates
    <3>4. QED
      BY <3>1, <3>3, ElementOfSeq
  <2> DEFINE piece == IF trials[at] = {} THEN <<>> ELSE <<trials[at]>>
  <2>5. /\ piece \in Seq(SUBSET Sections)
        /\ \A i \in 1 .. Len(piece) : piece[i] # {} /\ piece[i] \subseteq candidates
        /\ \A i, j \in 1 .. Len(piece) : i # j => piece[i] \cap piece[j] = {}
        /\ trials[at] \subseteq Covered(piece)
    <3> HIDE DEF trials, candidates
    <3>1. CASE trials[at] = {}
      BY <3>1
    <3>2. CASE trials[at] # {}
      <4>1. piece = <<trials[at]>> /\ Len(piece) = 1 /\ piece[1] = trials[at]
        BY <3>2
      <4>2. trials[at] \in SUBSET Sections
        BY <2>3, <2>4
      <4> HIDE DEF piece
      <4>3. piece \in Seq(SUBSET Sections)
        BY <4>1, <4>2
      <4>4. \A i \in 1 .. Len(piece) : i = 1
        BY <4>1
      <4>5. trials[at] \subseteq Covered(piece)
        BY <4>1 DEF Covered
      <4>6. QED
        BY <2>4, <3>2, <4>1, <4>3, <4>4, <4>5
    <3>3. QED
      BY <3>1, <3>2
  <2>6. /\ Parted([work EXCEPT !.todo = todo])
        /\ Covered(todo) = Covered(piece) \cup Covered(Tail(work.todo))
    <3>1. todo = piece \o Tail(work.todo)
      OBVIOUS
    <3> HIDE DEF todo, piece, candidates
    <3>2. QED
      BY <2>1, <2>5, <3>1, HeadReplaced DEF candidates
  <2> HIDE DEF piece, todo, trials, candidates
  <2>7. /\ work \in [required : SUBSET Sections, todo : Seq(SUBSET Sections)]
    BY DEF Parted
  <2>8. todo \in Seq(SUBSET Sections) /\ [work EXCEPT !.todo = todo] = [required |-> work.required, todo |-> todo]
    <3>1. [work EXCEPT !.todo = todo].todo = todo
      BY <2>7
    <3>2. QED
      BY <2>6, <2>7, <3>1 DEF Parted
  <2>9. work.required \cup trials[at] \in SUBSET Sections
    BY <2>3, <2>4, <2>7
  <2>10. crash => Crashes(work.required \cup trials[at])
    BY <2>2, <2>9, TryFacts
  <2>11. seen \subseteq seen' /\ seen' \subseteq SUBSET Sections
    BY <2>2, <2>9, TryFacts
  <2>12. Parted(work')
    <3>1. CASE crash
      BY <2>2, <2>6, <3>1
    <3>2. CASE ~crash
      BY <2>2, <3>2
    <3>3. QED
      BY <3>1, <3>2
  <2>13. work.required \cup trials[at] \subseteq work.required \cup Covered(todo)
    BY <2>5, <2>6
  <2>14. \E kept \in SUBSET Sections, t \in Seq(SUBSET Sections) :
            \/ UNCHANGED work
            \/ /\ Crashes(kept)
               /\ kept \subseteq work.required \cup Covered(t)
               /\ work' = [required |-> work.required, todo |-> t]
    <3>1. CASE crash
      <4>1. work' = [required |-> work.required, todo |-> todo]
        BY <2>2, <2>8, <3>1
      <4>2. Crashes(work.required \cup trials[at])
        BY <2>10, <3>1
      <4>3. QED
        BY <2>8, <2>9, <2>13, <4>1, <4>2
    <3>2. CASE ~crash
      BY <2>2, <2>8, <2>9, <3>2
    <3>3. QED
      BY <3>1, <3>2
  <2>15. at' \in Nat \ {0}
    BY <1>1, <2>2
  <2>16. script' \in Script /\ changed' \in BOOLEAN
    BY <1>1, <2>1
  <2>17. ~Recurse
    <3>1. Len(trials) \in Nat
      BY <1>1, <2>3, TrialFacts DEF trials
    <3>2. SUFFICES ASSUME Recurse PROVE FALSE
      OBVIOUS
    <3>3. at > Len(trials)
      BY <3>2 DEF Recurse, trials, candidates
    <3>4. QED
      BY <1>1, <2>1, <3>1, <3>3
  <2>18. QED
    BY <2>1, <2>11, <2>12, <2>14, <2>15, <2>16, <2>17
<1>6. CASE Recurse
  <2> DEFINE candidates == Head(work.todo)
             chunks == Chunkify(candidates, option.factor)
  <2>1. /\ stage = "reduce" /\ option.bisect /\ work.todo # <<>> /\ at' = 1
        /\ work' = IF Cardinality(candidates) = 1
                   THEN [required |-> work.required \cup candidates, todo |-> Tail(work.todo)]
                   ELSE [work EXCEPT !.todo = chunks \o Tail(work.todo)]
        /\ UNCHANGED <<target, option, stage, script, changed, accepted, seen, files>>
    BY <1>6 DEF Recurse, Bisecting, Chosen
  <2>2. /\ candidates # {} /\ candidates \in SUBSET Sections
        /\ Parted([required |-> work.required \cup candidates, todo |-> Tail(work.todo)])
        /\ Covered(work.todo) = candidates \cup Covered(Tail(work.todo))
    BY <2>1, HeadTaken
  <2>3. /\ chunks \in Seq(SUBSET candidates)
        /\ \A i \in 1 .. Len(chunks) : chunks[i] # {}
        /\ \A i, j \in 1 .. Len(chunks) : i # j => chunks[i] \cap chunks[j] = {}
        /\ \A x \in candidates : \E i \in 1 .. Len(chunks) : x \in chunks[i]
    <3> HIDE DEF candidates
    <3>1. QED
      BY <1>2, <2>2, ChunkFacts
  <2> HIDE DEF chunks
  <2>4. /\ chunks \in Seq(SUBSET Sections)
        /\ \A i \in 1 .. Len(chunks) : chunks[i] \subseteq candidates
        /\ candidates \subseteq Covered(chunks)
    <3> HIDE DEF candidates
    <3>1. \A i \in 1 .. Len(chunks) : chunks[i] \in SUBSET candidates /\ chunks[i] \in SUBSET Sections
      BY <2>2, <2>3, ElementOfSeq
    <3>2. chunks \in Seq(SUBSET Sections)
      BY <2>3, <3>1, SeqMonotonic
    <3>3. QED
      BY <2>3, <3>1, <3>2 DEF Covered
  <2>5. /\ Parted([work EXCEPT !.todo = chunks \o Tail(work.todo)])
        /\ Covered(chunks \o Tail(work.todo)) = Covered(chunks) \cup Covered(Tail(work.todo))
    BY <2>1, <2>3, <2>4, HeadReplaced
  <2> HIDE DEF candidates
  <2>6. work \in [required : SUBSET Sections, todo : Seq(SUBSET Sections)]
    BY DEF Parted
  <2>7. /\ Parted(work')
        /\ work.required \cup Covered(work.todo) \subseteq work'.required \cup Covered(work'.todo)
    <3>1. CASE Cardinality(candidates) = 1
      <4>1. work' = [required |-> work.required \cup candidates, todo |-> Tail(work.todo)]
        BY <2>1, <3>1
      <4>2. work'.required = work.required \cup candidates /\ work'.todo = Tail(work.todo)
        BY <4>1
      <4>3. QED
        BY <2>2, <4>1, <4>2
    <3>2. CASE Cardinality(candidates) # 1
      <4>1. work' = [work EXCEPT !.todo = chunks \o Tail(work.todo)]
        BY <2>1, <3>2
      <4>2. work'.required = work.required /\ work'.todo = chunks \o Tail(work.todo)
        BY <2>6, <4>1
      <4>3. QED
        BY <2>2, <2>4, <2>5, <4>1, <4>2
    <3>3. QED
      BY <3>1, <3>2
  <2>8. script' \in Script /\ at' \in Nat \ {0} /\ changed' \in BOOLEAN
        /\ seen \subseteq seen' /\ seen' \subseteq SUBSET Sections
    BY <1>1, <2>1
  <2>9. ~TryKeeping
    <3>1. Trials(candidates) \in Seq(SUBSET candidates)
      BY <1>1, <2>2, TrialFacts
    <3>2. Len(Trials(candidates)) \in Nat
      BY <3>1
    <3>3. SUFFICES ASSUME TryKeeping PROVE FALSE
      OBVIOUS
    <3>4. at <= Len(Trials(candidates)) /\ at > Len(Trials(candidates))
      BY <1>6, <3>3 DEF TryKeeping, Recurse, candidates
    <3>5. QED
      BY <1>1, <3>2, <3>4
  <2>10. QED
    BY <2>1, <2>7, <2>8, <2>9
<1>7. QED
  BY <1>3, <1>4, <1>5, <1>6

-----------------------------------------------------------------------------
(***************************************************************************)
(* The minimizer: its invariant                                            *)
(***************************************************************************)

\* What ReproducerCrashes says of one script.
Reproduces(s) ==
  /\ option.verify /\ ~option.bisect => SeenCrashing(s)
  /\ option.verify /\ option.bisect => \E need \in target.needs : need \subseteq s.kept

\* While sections are dropped: the script left was seen crashing; or what is required and
\* what is left to reduce include sections that crash.
StillCrashes ==
  stage = "reduce" /\ option.verify =>
    /\ ~option.bisect => script.kept \in seen
    /\ option.bisect => \E need \in target.needs : need \subseteq work.required \cup Covered(work.todo)

\* In a pass that has removed nothing, the sections before the next were tried in vain.
TriedAll ==
  ~option.bisect /\ ~option.flaky =>
    /\ stage = "reduce" /\ ~changed =>
         \A i \in 1 .. Len(Kept) : i < at => ~Crashes(script.kept \ {Kept[i]})
    /\ stage \in Later => \A section \in script.kept : ~Crashes(script.kept \ {section})

Other == IF option.artifact THEN "min" ELSE "reproducer"

InItsPlace ==
  ~option.faulty => files[Other] = {} /\ (stage = "done" => files[Place] = {script})

MinimizerInv ==
  /\ MinimizerTyped /\ Parted(work)
  /\ StillCrashes
  /\ stage \in Later => Reproduces(script)
  /\ \A s \in Scripts : Reproduces(s)
  /\ TriedAll
  /\ InItsPlace

\* The first run looks at the whole script; then all of it is one chunk.
LEMMA VerifyFacts ==
  ASSUME MinimizerTyped, Parted(work), Verify
  PROVE  /\ stage = "verify" /\ stage' \in {"reduce", "refused"} /\ at' = 1
         /\ UNCHANGED <<target, option, script, changed, accepted, files>> /\ at' = at
         /\ seen' \subseteq SUBSET Sections
         /\ Parted(work')
         /\ work'.required \cup Covered(work'.todo) = Sections
         /\ option.verify /\ stage' = "reduce" => Crashes(Sections) /\ Sections \in seen'
<1>1. /\ stage = "verify" /\ at = 1 /\ UNCHANGED <<target, option, script, at, changed, accepted, files>>
      /\ work' = [required |-> {N}, todo |-> IF N > 1 THEN <<Sections \ {N}>> ELSE <<>>]
  BY DEF Verify, Chosen, MinimizerTyped
<1>2. /\ stage' \in {"reduce", "refused"} /\ seen' \subseteq SUBSET Sections
      /\ option.verify /\ stage' = "reduce" => Crashes(Sections) /\ Sections \in seen'
  <2>1. CASE option.verify
    <3>1. PICK crash \in BOOLEAN : Try(Sections, crash) /\ stage' = IF crash THEN "reduce" ELSE "refused"
      BY <2>1 DEF Verify
    <3>2. Sections \in SUBSET Sections
      OBVIOUS
    <3>3. /\ crash => Crashes(Sections) /\ seen' = seen \cup {Sections}
          /\ seen' \subseteq SUBSET Sections
      BY <3>1, <3>2, TryFacts
    <3>4. stage' = "reduce" => crash
      BY <3>1
    <3>5. QED
      BY <3>1, <3>3, <3>4
  <2>2. CASE ~option.verify
    BY <2>2 DEF Verify, MinimizerTyped
  <2>3. QED
    BY <2>1, <2>2
<1>3. N \in Nat \ {0} /\ N \in Sections /\ Sections \ {N} \in SUBSET Sections
  BY ConstantFacts DEF MinimizerTyped
<1> DEFINE todo == IF N > 1 THEN <<Sections \ {N}>> ELSE <<>>
<1>4. /\ Parted([required |-> {N}, todo |-> todo])
      /\ {N} \cup Covered(todo) = Sections
  <2> DEFINE v == [required |-> {N}, todo |-> todo]
  <2>1. CASE N > 1
    <3>1. /\ todo = <<Sections \ {N}>> /\ Len(todo) = 1 /\ todo[1] = Sections \ {N}
          /\ todo \in Seq(SUBSET Sections)
      BY <1>3, <2>1
    <3>2. \A i \in 1 .. Len(todo) : i = 1
      BY <3>1
    <3>3. 1 \in Sections \ {N}
      BY <1>3, <2>1 DEF Sections
    <3> HIDE DEF todo
    <3>4. v \in [required : SUBSET Sections, todo : Seq(SUBSET Sections)] /\ v.todo = todo /\ v.required = {N}
      BY <1>3, <3>1
    <3>5. Covered(todo) = Sections \ {N}
      BY <3>1, <3>2 DEF Covered
    <3> HIDE DEF v
    <3>6. Parted(v)
      BY <3>1, <3>2, <3>3, <3>4 DEF Parted
    <3>7. QED
      BY <1>3, <3>5, <3>6 DEF v
  <2>2. CASE ~(N > 1)
    <3>1. N = 1 /\ Sections = {N}
      BY <1>3, <2>2 DEF Sections
    <3>2. todo \in Seq(SUBSET Sections) /\ \A i \in 1 .. Len(todo) : FALSE
      BY <2>2
    <3> HIDE DEF todo
    <3>3. v \in [required : SUBSET Sections, todo : Seq(SUBSET Sections)] /\ v.todo = todo
      BY <1>3, <3>2
    <3>4. Covered(todo) = {}
      BY <3>2 DEF Covered
    <3> HIDE DEF v
    <3>5. Parted(v)
      BY <3>2, <3>3 DEF Parted
    <3>6. QED
      BY <3>1, <3>4, <3>5 DEF v
  <2>3. QED
    BY <1>3, <2>1, <2>2
<1>5. work' = [required |-> {N}, todo |-> todo]
  BY <1>1
<1> HIDE DEF todo
<1>6. work'.required = {N} /\ work'.todo = todo
  BY <1>5
<1>7. QED
  BY <1>1, <1>2, <1>4, <1>5, <1>6

\* Every action keeps the types and the candidate sets apart.
LEMMA MinimizerTypeStep ==
  ASSUME MinimizerTyped, Parted(work), Minimize
  PROVE  MinimizerTyped' /\ Parted(work')
<1>1. CASE Verify
  <2>1. stage' # "verify" /\ stage' \in Stages
    BY <1>1, VerifyFacts DEF Stages
  <2>2. QED
    BY <1>1, <2>1, VerifyFacts DEF MinimizerTyped
<1>2. CASE RemoveOne \/ PassAgain \/ TryKeeping \/ Recurse
  BY <1>2, ReduceSteps DEF MinimizerTyped
<1>3. CASE SectionsDone
  <2>1. /\ stage' = "unwrap" /\ script' \in Script /\ Persist(script') /\ at' = 1 /\ changed' = FALSE
        /\ work' = [required |-> {}, todo |-> <<>>] /\ seen' = {} /\ UNCHANGED <<target, option, accepted>>
    BY <1>3, Settles
  <2>2. files' \in [{"reproducer", "min"} -> SUBSET Script]
    BY <2>1, PersistFacts
  <2>3. Parted(work')
    <3>1. \A i \in 1 .. Len(<<>>) : FALSE
      OBVIOUS
    <3>2. QED
      BY <2>1, <3>1 DEF Parted
  <2>4. changed' \in BOOLEAN
    BY <2>1, Zenon
  <2>5. stage' \in Stages /\ stage' # "verify" /\ at' \in Nat \ {0} /\ seen' \subseteq SUBSET Sections
    BY <2>1 DEF Stages
  <2>6. QED
    BY <2>1, <2>2, <2>3, <2>4, <2>5 DEF MinimizerTyped
<1>4. CASE Unwrap \/ UnwrapAgain \/ UnwrapDone \/ CutStatement \/ StatementsDone \/ StripComments
  <2>1. /\ stage' \in Later /\ script' \in Script /\ UNCHANGED <<target, option, work, seen>>
        /\ at' \in Nat \ {0} /\ changed' \in BOOLEAN /\ accepted' \subseteq {"exec", "try"}
        /\ files' = files \/ Persist(script')
    BY <1>4, LaterSteps
  <2>2. files' \in [{"reproducer", "min"} -> SUBSET Script]
    BY <2>1, PersistFacts DEF MinimizerTyped
  <2>3. stage' \in Stages /\ stage' # "verify"
    BY <2>1 DEF Later, Stages
  <2>4. QED
    BY <2>1, <2>2, <2>3 DEF MinimizerTyped
<1>5. QED
  BY <1>1, <1>2, <1>3, <1>4 DEF Minimize

\* One at a time: a section is dropped when the rest still crashes, and else the next is tried.
LEMMA RemoveOneFacts ==
  ASSUME MinimizerTyped, RemoveOne
  PROVE  /\ stage = "reduce" /\ ~option.bisect /\ at \in 1 .. Len(Kept)
         /\ UNCHANGED <<target, option, stage, work, accepted, files>>
         /\ \/ changed' = TRUE /\ script'.kept = script.kept \ {Kept[at]} /\ script'.kept \in seen'
            \/ /\ UNCHANGED <<script, changed>> /\ at' = at + 1 /\ seen \subseteq seen'
               /\ ~option.flaky => ~Crashes(script.kept \ {Kept[at]})
<1>1. script \in Script /\ at \in Nat \ {0}
  BY DEF MinimizerTyped
<1>2. /\ stage = "reduce" /\ ~option.bisect /\ at <= Len(Kept)
      /\ UNCHANGED <<target, option, stage, work, accepted, files>>
  BY DEF RemoveOne, Chosen
<1>3. PICK crash \in BOOLEAN :
        /\ Try(script.kept \ {Kept[at]}, crash)
        /\ IF crash THEN /\ script' = [script EXCEPT !.kept = @ \ {Kept[at]}]
                         /\ changed' = TRUE
                         /\ UNCHANGED at
                    ELSE at' = at + 1 /\ UNCHANGED <<script, changed>>
  BY DEF RemoveOne
<1>4. script.kept \ {Kept[at]} \in SUBSET Sections
  BY <1>1 DEF Script
<1>5. /\ ~crash /\ ~option.flaky => ~Crashes(script.kept \ {Kept[at]})
      /\ crash => script.kept \ {Kept[at]} \in seen'
      /\ seen \subseteq seen'
  BY <1>3, <1>4, TryFacts
<1>6. Len(Kept) \in Nat
  BY KeptFacts
<1>7. at \in 1 .. Len(Kept)
  BY <1>1, <1>2, <1>6
<1>8. CASE crash
  <2>1. changed' = TRUE /\ script' = [script EXCEPT !.kept = @ \ {Kept[at]}]
    BY <1>3, <1>8
  <2>2. script'.kept = script.kept \ {Kept[at]}
    BY <1>1, <2>1 DEF Script
  <2>3. QED
    BY <1>2, <1>5, <1>7, <1>8, <2>1, <2>2
<1>9. CASE ~crash
  BY <1>2, <1>3, <1>5, <1>7, <1>9
<1>10. QED
  BY <1>8, <1>9

\* A step writes its own script and no other.
LEMMA NoOtherScript ==
  ASSUME MinimizerTyped, MinimizerTyped', files' = files \/ Persist(script')
  PROVE  \A s \in Scripts' : s \in Scripts \/ s = script'
<1>1. files \in [{"reproducer", "min"} -> SUBSET Script] /\ files' \in [{"reproducer", "min"} -> SUBSET Script]
      /\ script' \in Script
  BY DEF MinimizerTyped
<1>2. \A place \in {"reproducer", "min"} : files'[place] \subseteq files[place] \cup {script'}
  BY <1>1, PersistFacts
<1>3. SUFFICES ASSUME NEW place \in DOMAIN files', NEW s \in files'[place]
               PROVE  s \in Scripts \/ s = script'
  BY DEF Scripts
<1>4. place \in {"reproducer", "min"} /\ DOMAIN files = {"reproducer", "min"}
  BY <1>1
<1>5. QED
  BY <1>2, <1>3, <1>4 DEF Scripts

\* What reproduces goes on doing so: the target and the command line do not change.
LEMMA ReproducesStays ==
  ASSUME target' = target, option' = option
  PROVE  \A s : Reproduces(s) => Reproduces(s)'
BY DEF Reproduces

\* Bisection: the crash needs only what is required and the chunks to come.
LEMMA StillCrashesStep ==
  ASSUME MinimizerInv, Minimize
  PROVE  StillCrashes'
<1>1. MinimizerTyped /\ Parted(work) /\ StillCrashes
  BY DEF MinimizerInv
<1>2. CASE Verify
  <2>1. SUFFICES ASSUME stage' = "reduce", option'.verify
                 PROVE  /\ script'.kept \in seen'
                        /\ \E need \in target'.needs : need \subseteq work'.required \cup Covered(work'.todo)
    BY DEF StillCrashes
  <2>2. script' = script /\ target' = target /\ option' = option /\ script.kept = Sections
    BY <1>1, <1>2, VerifyFacts DEF MinimizerTyped
  <2>3. /\ Crashes(Sections) /\ Sections \in seen'
        /\ work'.required \cup Covered(work'.todo) = Sections
    BY <1>1, <1>2, <2>1, <2>2, VerifyFacts
  <2>4. QED
    BY <2>2, <2>3 DEF Crashes
<1>3. CASE RemoveOne \/ PassAgain \/ TryKeeping \/ Recurse
  <2>1. /\ UNCHANGED <<target, option, stage>> /\ stage = "reduce" /\ seen \subseteq seen'
        /\ option.bisect => UNCHANGED script
        /\ ~option.bisect => UNCHANGED work /\ ~(TryKeeping \/ Recurse)
        /\ Parted(work')
    BY <1>1, <1>3, ReduceSteps
  <2>2. SUFFICES ASSUME option.verify
                 PROVE  /\ ~option.bisect => script'.kept \in seen'
                        /\ option.bisect =>
                             \E need \in target.needs : need \subseteq work'.required \cup Covered(work'.todo)
    BY <2>1 DEF StillCrashes
  <2>3. /\ ~option.bisect => script.kept \in seen
        /\ option.bisect => \E need \in target.needs : need \subseteq work.required \cup Covered(work.todo)
    BY <1>1, <2>1, <2>2 DEF StillCrashes
  <2>4. CASE ~option.bisect
    <3>1. CASE RemoveOne
      BY <1>1, <2>1, <2>3, <2>4, <3>1, RemoveOneFacts
    <3>2. CASE PassAgain
      BY <2>1, <2>3, <2>4, <3>2 DEF PassAgain
    <3>3. QED
      BY <1>3, <2>1, <2>4, <3>1, <3>2
  <2>5. CASE option.bisect
    <3>1. PICK need \in target.needs : need \subseteq work.required \cup Covered(work.todo)
      BY <2>3, <2>5
    <3>2. CASE TryKeeping
      <4>1. PICK kept \in SUBSET Sections, todo \in Seq(SUBSET Sections) :
                 \/ UNCHANGED work
                 \/ /\ Crashes(kept)
                    /\ kept \subseteq work.required \cup Covered(todo)
                    /\ work' = [required |-> work.required, todo |-> todo]
        BY <1>1, <3>2, ReduceSteps
      <4>2. CASE UNCHANGED work
        BY <2>5, <3>1, <4>2
      <4>3. CASE /\ Crashes(kept)
                 /\ kept \subseteq work.required \cup Covered(todo)
                 /\ work' = [required |-> work.required, todo |-> todo]
        <5>1. PICK other \in target.needs : other \subseteq kept
          BY <4>3 DEF Crashes
        <5>2. work'.required = work.required /\ work'.todo = todo
          BY <4>3
        <5>3. other \subseteq work'.required \cup Covered(work'.todo)
          BY <4>3, <5>1, <5>2
        <5>4. QED
          BY <2>5, <5>3
      <4>4. QED
        BY <4>1, <4>2, <4>3
    <3>3. CASE Recurse
      <4>1. work.required \cup Covered(work.todo) \subseteq work'.required \cup Covered(work'.todo)
        BY <1>1, <3>3, ReduceSteps
      <4>2. QED
        BY <2>5, <3>1, <4>1
    <3>4. ~(RemoveOne \/ PassAgain)
      BY <2>5 DEF RemoveOne, PassAgain
    <3>5. QED
      BY <1>3, <3>2, <3>3, <3>4
  <2>6. QED
    BY <2>4, <2>5
<1>4. CASE SectionsDone
  BY <1>1, <1>4, Settles DEF StillCrashes
<1>5. CASE Unwrap \/ UnwrapAgain \/ UnwrapDone \/ CutStatement \/ StatementsDone \/ StripComments
  <2>1. stage' \in Later
    BY <1>1, <1>5, LaterSteps
  <2>2. QED
    BY <2>1 DEF StillCrashes, Later
<1>6. QED
  BY <1>2, <1>3, <1>4, <1>5 DEF Minimize

\* What is written was seen to crash, and still has all that the crash needs.
LEMMA ReproducesStep ==
  ASSUME MinimizerInv, Minimize
  PROVE  /\ stage' \in Later => Reproduces(script)'
         /\ \A s \in Scripts' : Reproduces(s)'
<1>1. /\ MinimizerTyped /\ Parted(work) /\ StillCrashes /\ MinimizerTyped'
      /\ \A s \in Scripts : Reproduces(s)
      /\ stage \in Later => Reproduces(script)
  BY MinimizerTypeStep DEF MinimizerInv
<1>2. ASSUME target' = target, option' = option, files' = files, ~(stage' \in Later)
      PROVE  /\ stage' \in Later => Reproduces(script)'
             /\ \A s \in Scripts' : Reproduces(s)'
  <2>1. \A s \in Scripts' : s \in Scripts
    BY <1>2 DEF Scripts
  <2>2. QED
    BY <1>1, <1>2, <2>1, ReproducesStays
<1>3. ASSUME target' = target, option' = option, files' = files \/ Persist(script'), Reproduces(script)'
      PROVE  /\ stage' \in Later => Reproduces(script)'
             /\ \A s \in Scripts' : Reproduces(s)'
  <2>1. \A s \in Scripts' : s \in Scripts \/ s = script'
    BY <1>1, <1>3, NoOtherScript
  <2>2. \A s : Reproduces(s) => Reproduces(s)'
    BY <1>3, ReproducesStays
  <2>3. \A s : s = script' /\ Reproduces(script)' => Reproduces(s)'
    BY DEF Reproduces
  <2>4. QED
    BY <1>1, <1>3, <2>1, <2>2, <2>3
<1>4. CASE Verify
  <2>1. UNCHANGED <<target, option, files>> /\ stage' \notin Later
    BY <1>1, <1>4, VerifyFacts DEF Later
  <2>2. QED
    BY <1>2, <2>1
<1>5. CASE RemoveOne \/ PassAgain \/ TryKeeping \/ Recurse
  <2>1. UNCHANGED <<target, option, files>> /\ stage' \notin Later
    BY <1>1, <1>5, ReduceSteps DEF Later
  <2>2. QED
    BY <1>2, <2>1
<1>6. CASE SectionsDone
  <2>1. /\ stage = "reduce" /\ Persist(script') /\ UNCHANGED <<target, option>>
        /\ script'.kept = IF option.bisect THEN work.required ELSE script.kept
        /\ script'.text = IF script'.kept \in seen THEN "crashed" ELSE "unrun"
        /\ option.bisect => work.todo = <<>>
    BY <1>1, <1>6, Settles
  <2>2. option.verify /\ ~option.bisect => SeenCrashing(script)'
    BY <1>1, <2>1 DEF StillCrashes, SeenCrashing
  <2>3. option.verify /\ option.bisect => \E need \in target.needs : need \subseteq script'.kept
    <3>1. HAVE option.verify /\ option.bisect
    <3>2. Covered(work.todo) = {}
      BY <2>1, <3>1 DEF Covered
    <3>3. QED
      BY <1>1, <2>1, <3>1, <3>2 DEF StillCrashes
  <2>4. Reproduces(script)'
    BY <2>1, <2>2, <2>3 DEF Reproduces
  <2>5. QED
    BY <1>3, <2>1, <2>4
<1>7. CASE Unwrap \/ UnwrapAgain \/ UnwrapDone \/ CutStatement \/ StatementsDone \/ StripComments
  <2>1. /\ stage \in Later /\ UNCHANGED <<target, option>>
        /\ script'.kept = script.kept /\ (SeenCrashing(script) => SeenCrashing(script)')
        /\ files' = files \/ Persist(script')
    BY <1>1, <1>7, LaterSteps
  <2>2. Reproduces(script)'
    BY <1>1, <2>1 DEF Reproduces
  <2>3. QED
    BY <1>3, <2>1, <2>2
<1>8. QED
  BY <1>4, <1>5, <1>6, <1>7 DEF Minimize

\* One at a time: what was passed by in a round without a change is needed.
LEMMA TriedAllStep ==
  ASSUME MinimizerInv, Minimize
  PROVE  TriedAll'
<1>1. MinimizerTyped /\ Parted(work) /\ TriedAll
  BY DEF MinimizerInv
<1>2. SUFFICES ASSUME ~option.bisect, ~option.flaky, UNCHANGED <<target, option>>
               PROVE  /\ stage' = "reduce" /\ ~changed' =>
                           \A i \in 1 .. Len(Kept') : i < at' => ~Crashes(script'.kept \ {Kept'[i]})
                      /\ stage' \in Later =>
                           \A section \in script'.kept : ~Crashes(script'.kept \ {section})
  <2>1. UNCHANGED <<target, option>>
    BY <1>1, VerifyFacts, ReduceSteps, Settles, LaterSteps DEF Minimize
  <2>2. QED
    BY <2>1 DEF TriedAll, Crashes
<1>3. /\ stage = "reduce" /\ ~changed =>
           \A i \in 1 .. Len(Kept) : i < at => ~Crashes(script.kept \ {Kept[i]})
      /\ stage \in Later => \A section \in script.kept : ~Crashes(script.kept \ {section})
  BY <1>1, <1>2 DEF TriedAll
<1>4. at \in Nat \ {0} /\ Len(Kept) \in Nat
  BY <1>1, KeptFacts DEF MinimizerTyped
<1>5. CASE Verify \/ PassAgain
  <2>1. at' = 1 /\ stage' \notin Later
    BY <1>1, <1>5, VerifyFacts DEF PassAgain, Later
  <2>2. \A i \in 1 .. Len(Kept') : ~(i < 1)
    OBVIOUS
  <2>3. QED
    BY <2>1, <2>2
<1>6. CASE RemoveOne
  <2>1. /\ stage' \notin Later
        /\ \/ changed' = TRUE
           \/ /\ UNCHANGED <<script, changed>> /\ at' = at + 1 /\ stage = "reduce"
              /\ ~Crashes(script.kept \ {Kept[at]})
    BY <1>1, <1>2, <1>6, RemoveOneFacts DEF Later
  <2>2. CASE changed' = TRUE
    BY <2>1, <2>2
  <2>3. CASE /\ UNCHANGED <<script, changed>> /\ at' = at + 1 /\ stage = "reduce"
             /\ ~Crashes(script.kept \ {Kept[at]})
    <3>1. Kept' = Kept
      BY <2>3 DEF Kept
    <3>2. \A i \in 1 .. Len(Kept) : i < at' => i < at \/ i = at
      BY <1>4, <2>3
    <3>3. ~changed' => ~changed
      BY <2>3
    <3>4. QED
      BY <1>3, <2>1, <2>3, <3>1, <3>2, <3>3
  <2>4. QED
    BY <2>1, <2>2, <2>3
<1>7. ~(TryKeeping \/ Recurse)
  BY <1>2 DEF TryKeeping, Recurse, Bisecting
<1>8. CASE SectionsDone
  <2>1. /\ stage = "reduce" /\ stage' = "unwrap" /\ at > Len(Kept) /\ ~changed
        /\ script'.kept = script.kept
    BY <1>1, <1>2, <1>8, Settles
  <2>2. \A i \in 1 .. Len(Kept) : i < at
    BY <1>4, <2>1
  <2>3. \A i \in 1 .. Len(Kept) : ~Crashes(script.kept \ {Kept[i]})
    BY <1>3, <2>1, <2>2
  <2>4. \A section \in script.kept : ~Crashes(script.kept \ {section})
    BY <1>1, <2>3, KeptFacts
  <2>5. QED
    BY <2>1, <2>4
<1>9. CASE Unwrap \/ UnwrapAgain \/ UnwrapDone \/ CutStatement \/ StatementsDone \/ StripComments
  <2>1. stage \in Later /\ stage' \in Later /\ script'.kept = script.kept
    BY <1>1, <1>9, LaterSteps
  <2>2. stage' # "reduce"
    BY <2>1 DEF Later
  <2>3. QED
    BY <1>3, <2>1, <2>2
<1>10. QED
  BY <1>5, <1>6, <1>7, <1>8, <1>9 DEF Minimize

\* The result is written where it belongs before the minimizer is done.
LEMMA InItsPlaceStep ==
  ASSUME MinimizerInv, Minimize
  PROVE  InItsPlace'
<1>1. MinimizerTyped /\ Parted(work) /\ InItsPlace
  BY DEF MinimizerInv
<1>2. ASSUME UNCHANGED option, stage' = "done" => Persist(script'), files' = files \/ Persist(script'),
             script' \in Script
      PROVE  InItsPlace'
  <2>1. SUFFICES ASSUME ~option.faulty
                 PROVE  files'[Other] = {} /\ (stage' = "done" => files'[Place] = {script'})
    BY <1>2 DEF InItsPlace, Other, Place
  <2>2. files[Other] = {} /\ files \in [{"reproducer", "min"} -> SUBSET Script]
        /\ Place \in {"reproducer", "min"} /\ Other \in {"reproducer", "min"} /\ Place # Other
    BY <1>1, <2>1 DEF InItsPlace, MinimizerTyped, Place, Other
  <2>3. Persist(script') => files' = [files EXCEPT ![Place] = {script'}]
    BY <1>1, <1>2, <2>1, PersistFacts
  <2>4. CASE files' = files /\ stage' # "done"
    BY <2>2, <2>4
  <2>5. CASE Persist(script')
    BY <2>2, <2>3, <2>5
  <2>6. QED
    BY <1>2, <2>4, <2>5
<1>3. CASE Verify
  <2>1. UNCHANGED <<option, files>> /\ stage' # "done" /\ files' = files
    BY <1>1, <1>3, VerifyFacts
  <2>2. QED
    BY <1>1, <2>1 DEF InItsPlace, Other, Place
<1>4. CASE RemoveOne \/ PassAgain \/ TryKeeping \/ Recurse
  <2>1. UNCHANGED <<option, files>> /\ stage' # "done"
    BY <1>1, <1>4, ReduceSteps
  <2>2. QED
    BY <1>1, <2>1 DEF InItsPlace, Other, Place
<1>5. CASE SectionsDone
  <2>1. UNCHANGED option /\ Persist(script') /\ script' \in Script
    BY <1>1, <1>5, Settles
  <2>2. QED
    BY <1>2, <2>1
<1>6. CASE Unwrap \/ UnwrapAgain \/ UnwrapDone \/ CutStatement \/ StatementsDone \/ StripComments
  <2>1. /\ UNCHANGED option /\ script' \in Script /\ (files' = files \/ Persist(script'))
        /\ stage' = "done" => Persist(script')
    BY <1>1, <1>6, LaterSteps
  <2>2. QED
    BY <1>2, <2>1
<1>7. QED
  BY <1>3, <1>4, <1>5, <1>6 DEF Minimize

\* All of this, in every reachable state.
LEMMA MinimizerInvHolds == MinimizerSpec => []MinimizerInv
<1>1. MinimizerInit => MinimizerInv
  <2>1. SUFFICES ASSUME MinimizerInit PROVE MinimizerInv
    OBVIOUS
  <2>2. PICK wraps \in Wrappings :
          script = [kept |-> Sections, wraps |-> wraps, cut |-> 0, bare |-> FALSE, text |-> "unrun"]
    BY <2>1 DEF MinimizerInit
  <2>3. /\ target \in Targets /\ option \in Options /\ stage = "verify"
        /\ work = [required |-> {}, todo |-> <<>>]
        /\ at = 1 /\ changed = FALSE /\ accepted = {} /\ seen = {}
        /\ files = [reproducer |-> {}, min |-> {}]
    BY <2>1 DEF MinimizerInit
  <2>4. script \in Script /\ script.kept = Sections
    <3>1. wraps \in [Sections -> Seq({"exec", "try"})] /\ Statements \in Nat
      BY MinimizerAssumption
    <3>2. QED
      BY <2>2, <3>1 DEF Script
  <2>5. files \in [{"reproducer", "min"} -> SUBSET Script] /\ Scripts = {}
    <3>1. DOMAIN files = {"reproducer", "min"} /\ files["reproducer"] = {} /\ files["min"] = {}
      BY <2>3
    <3>2. files \in [{"reproducer", "min"} -> SUBSET Script]
      BY <2>3
    <3>3. QED
      BY <3>1, <3>2 DEF Scripts
  <2>6. changed \in BOOLEAN /\ ~changed
    BY <2>3, Zenon
  <2>7. MinimizerTyped
    BY <2>3, <2>4, <2>5, <2>6 DEF MinimizerTyped, Stages
  <2>8. Parted(work)
    <3>1. \A i \in 1 .. Len(<<>>) : FALSE
      OBVIOUS
    <3>2. QED
      BY <2>3, <3>1 DEF Parted
  <2>9. StillCrashes /\ TriedAll /\ stage \notin Later
    BY <2>3 DEF StillCrashes, TriedAll, Later
  <2>10. InItsPlace
    BY <2>3 DEF InItsPlace, Other
  <2>11. QED
    BY <2>5, <2>7, <2>8, <2>9, <2>10 DEF MinimizerInv
<1>2. MinimizerInv /\ [Minimize]_minimizerVars => MinimizerInv'
  <2>1. SUFFICES ASSUME MinimizerInv, [Minimize]_minimizerVars PROVE MinimizerInv'
    OBVIOUS
  <2>2. CASE Minimize
    <3>1. MinimizerTyped' /\ Parted(work')
      BY <2>1, <2>2, MinimizerTypeStep DEF MinimizerInv
    <3>2. Parted(work)'
      BY <3>1 DEF Parted
    <3>3. /\ StillCrashes' /\ TriedAll' /\ InItsPlace'
          /\ stage' \in Later => Reproduces(script)'
          /\ \A s \in Scripts' : Reproduces(s)'
      BY <2>1, <2>2, StillCrashesStep, ReproducesStep, TriedAllStep, InItsPlaceStep
    <3>4. QED
      BY <3>1, <3>2, <3>3 DEF MinimizerInv, Later
  <2>3. CASE UNCHANGED minimizerVars
    <3>1. UNCHANGED <<target, option, stage, script, work, at, changed, accepted, seen, files>>
      BY <2>3 DEF minimizerVars
    <3>2. MinimizerTyped' /\ Parted(work)'
      BY <2>1, <3>1 DEF MinimizerInv, MinimizerTyped, Parted
    <3>3. StillCrashes'
      BY <2>1, <3>1 DEF MinimizerInv, StillCrashes, Covered
    <3>4. stage' \in Later => Reproduces(script)'
      BY <2>1, <3>1 DEF MinimizerInv, Reproduces
    <3>5. \A s \in Scripts' : Reproduces(s)'
      BY <2>1, <3>1 DEF MinimizerInv, Reproduces, Scripts
    <3>6. TriedAll'
      BY <2>1, <3>1 DEF MinimizerInv, TriedAll, Crashes, Kept
    <3>7. InItsPlace'
      BY <2>1, <3>1 DEF MinimizerInv, InItsPlace, Other, Place
    <3>8. QED
      BY <3>1, <3>2, <3>3, <3>4, <3>5, <3>6, <3>7 DEF MinimizerInv, Later
  <2>4. QED
    BY <2>1, <2>2, <2>3
<1>3. QED
  BY <1>1, <1>2, PTL DEF MinimizerSpec

\* Whatever the run crashes on and however often the writes fail, the minimizer's
\* variables stay in their types: no section is tried that is not in the script, and no
\* candidate set holds a section already required.
THEOREM MinimizerTypeCorrect == MinimizerSpec => []MinimizerTypeOK
<1>1. MinimizerInv => MinimizerTypeOK
  <2>1. SUFFICES ASSUME MinimizerTyped, Parted(work) PROVE MinimizerTypeOK
    BY DEF MinimizerInv
  <2>2. /\ script.kept \subseteq Sections /\ script.cut \in 0 .. Statements
        /\ script.text \in {"unrun", "crashed", "stripped", "altered"}
    BY <2>1 DEF MinimizerTyped, Script
  <2>3. work.required \subseteq Sections /\ work.todo \in Seq(SUBSET Sections)
    BY <2>1 DEF Parted
  <2>4. DOMAIN work.todo = 1 .. Len(work.todo)
    BY <2>3
  <2>5. \A i \in DOMAIN work.todo : work.todo[i] \subseteq Sections
    BY <2>3, <2>4, ElementOfSeq
  <2>6. \A i \in DOMAIN work.todo : work.todo[i] \subseteq Sections \ work.required
    BY <2>1, <2>4, <2>5 DEF Parted
  <2>7. QED
    BY <2>1, <2>2, <2>3, <2>6 DEF MinimizerTyped, MinimizerTypeOK
<1>2. QED
  BY <1>1, MinimizerInvHolds, PTL

\* The script that is written over the last reproducer still crashes: reduced one section
\* at a time, its text was seen crashing, but for the last one, which is never run: it has
\* the tokens of one that was, or if a literal of a section that is left depends on its
\* blank lines perhaps others; by halves, it keeps sections that crash together.
THEOREM MinimizedStillCrashes == MinimizerSpec => []ReproducerCrashes
<1>1. MinimizerInv => ReproducerCrashes
  BY DEF MinimizerInv, ReproducerCrashes, Reproduces
<1>2. QED
  BY <1>1, MinimizerInvHolds, PTL

\* Reducing a steady crash one section at a time ends only when no section can go,
\* whatever order the sections depend on each other in.
THEOREM MinimizedIsMinimal == MinimizerSpec => []NothingMoreToDrop
<1>1. MinimizerInv => NothingMoreToDrop
  BY DEF MinimizerInv, TriedAll, NothingMoreToDrop, Later, MinimizerTyped, Stages
<1>2. QED
  BY <1>1, MinimizerInvHolds, PTL

\* Without write errors the final script is the only one left, in the artifact if there is
\* one.
THEOREM MinimizedIsWritten == MinimizerSpec => []ResultIsWritten
<1>1. MinimizerInv => ResultIsWritten
  <2>1. SUFFICES ASSUME MinimizerTyped, InItsPlace, stage = "done", ~option.faulty
                 PROVE  files = IF option.artifact THEN [reproducer |-> {script}, min |-> {}]
                                                   ELSE [reproducer |-> {}, min |-> {script}]
    BY DEF MinimizerInv, ResultIsWritten
  <2>2. files \in [{"reproducer", "min"} -> SUBSET Script] /\ files[Other] = {} /\ files[Place] = {script}
    BY <2>1 DEF MinimizerTyped, InItsPlace
  <2>3. QED
    BY <2>2 DEF Other, Place
<1>2. QED
  BY <1>1, MinimizerInvHolds, PTL
=============================================================================
