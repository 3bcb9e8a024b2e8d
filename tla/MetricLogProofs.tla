--------------------------- MODULE MetricLogProofs ---------------------------
(***************************************************************************)
(* Proofs about MetricLog for every value of its constants.                *)
(***************************************************************************)
EXTENDS MetricLog, DataFacts, TLAPS

-----------------------------------------------------------------------------
(***************************************************************************)
(* Types.                                                                  *)
(***************************************************************************)
Tasks == {"off", "collect", "write", "lines", "sleep", "due", "ended"}
FileRec == [name : Nat \X Nat, lines : Seq(Line), idx : Seq(Nat \X Nat)]

TaskTypeOK ==
  /\ now \in Seconds /\ task \in Tasks
  /\ buckets \in [Resources -> SUBSET Seconds]
  /\ lastFetch \in [Resources -> -1 .. MaxTime]
  /\ visited \in 0 .. Len(NodeOrder)
  /\ batch \in [Seconds -> Seq(Line)]
  /\ overran \in BOOLEAN /\ dropped \in SUBSET Line

WriterTypeOK ==
  /\ out \in BOOLEAN /\ firstWrite \in BOOLEAN
  /\ lastSecond \in -1 .. MaxTime
  /\ written \in SUBSET Line

-----------------------------------------------------------------------------
(***************************************************************************)
(* Good files.                                                             *)
(***************************************************************************)
\* The index of one file is sound.
SoundIndex(f) ==
  \A i \in 1 .. Len(f.idx) :
    /\ f.idx[i][2] <= Len(f.lines)
    /\ i > 1 => f.idx[i - 1][1] <= f.idx[i][1] /\ f.idx[i - 1][2] <= f.idx[i][2]
    /\ \A j \in 1 .. Len(f.lines) :
         IF j > f.idx[i][2] THEN f.lines[j].second >= f.idx[i][1]
                            ELSE f.lines[j].second <= f.idx[i][1]

\* A file that reaches no further than second e, with lines of w.
Bounded(f, e, w) ==
  /\ f.name[1] <= Day(e)
  /\ \A j \in 1 .. Len(f.lines) : f.lines[j] \in w
  /\ \A j \in 1 .. Len(f.idx) : f.idx[j][1] <= e

Before(n, m) == n[1] < m[1] \/ (n[1] = m[1] /\ n[2] < m[2])

\* The names come in order.
Named(fs) ==
  \A i, j \in 1 .. Len(fs) : i < j => Before(fs[i].name, fs[j].name)

\* So do the lines, each of which is there once.
Sorted(fs) ==
  \A i, j \in 1 .. Len(fs) :
    \A a \in 1 .. Len(fs[i].lines), b \in 1 .. Len(fs[j].lines) :
      i < j \/ (i = j /\ a < b) =>
        /\ fs[i].lines[a] # fs[j].lines[b]
        /\ fs[i].lines[a].second <= fs[j].lines[b].second

\* And the index entries with respect to the lines of the files that follow.
Indexed(fs) ==
  \A i, j \in 1 .. Len(fs) : i < j =>
    \A a \in 1 .. Len(fs[i].idx), b \in 1 .. Len(fs[j].lines) :
      fs[i].idx[a][1] <= fs[j].lines[b].second

Good(fs, e, w) ==
  /\ fs \in Seq(FileRec)
  /\ \A i \in 1 .. Len(fs) : SoundIndex(fs[i]) /\ Bounded(fs[i], e, w)
  /\ Named(fs) /\ Sorted(fs) /\ Indexed(fs)

-----------------------------------------------------------------------------
(***************************************************************************)
(* The invariant.                                                          *)
(***************************************************************************)
Unfetched(r) == {s \in buckets[r] : s > lastFetch[r]}

\* A line in the map is under its second, of a second that is over.
BatchInv ==
  \A s \in Pending :
    s < now /\ \A i \in 1 .. Len(batch[s]) : batch[s][i].second = s

\* What holds in the places of the loop.
PhaseInv ==
  /\ task # "collect" => visited = 0
  /\ task \in {"off", "sleep", "due", "ended"} => Pending = {}
  /\ task \in {"write", "lines"} => Pending # {}
  /\ task = "lines" => out /\ lastSecond <= Second
  /\ task = "off" => ~out /\ \A r \in Resources : buckets[r] = {}
  /\ task # "off" => lastSecond \in 0 .. now

\* The nodes count no second that is to come and have handed out none that is not over.
NodesInv ==
  \A r \in Resources : lastFetch[r] < now /\ \A s \in buckets[r] : s <= now

\* Before the first write all seconds are as young as the writer.
YoungInv ==
  task # "off" /\ ~out =>
    /\ \A r \in Resources : \A s \in buckets[r] : lastSecond <= s
    /\ \A s \in Pending : lastSecond <= s

TaskInv == TaskTypeOK /\ WriterTypeOK /\ BatchInv /\ PhaseInv /\ NodesInv /\ YoungInv

\* The second up to which the files may reach.
Edge == CASE task = "off" -> now
           [] task = "lines" -> Second
           [] OTHER -> lastSecond

\* Without an overrun the rounds are of growing seconds.
RoundsInv ==
  ~overran =>
    /\ dropped = {}
    /\ task # "off" => \A r \in Resources : \A s \in Unfetched(r) : lastSecond <= s
    /\ \A s \in Pending : lastSecond <= s
    /\ task = "collect" =>
         \A i \in 1 .. visited : \A s \in Unfetched(NodeOrder[i]) : now <= s
    /\ task \in {"write", "lines"} =>
         \A r \in Resources : \A s \in Unfetched(r) : \A p \in Pending : p < s

\* A line that was collected is collected once only.
FetchInv ==
  /\ \A s \in Pending : \A i \in 1 .. Len(batch[s]) :
       /\ s <= lastFetch[batch[s][i].resource] /\ batch[s][i] \notin written
       /\ \A j \in 1 .. Len(batch[s]) : i # j => batch[s][i] # batch[s][j]
  /\ \A l \in written : l.second \notin Unfetched(l.resource)

\* The files are good, and everything ever written is of the past.
LogInv ==
  /\ Good(files, Edge, written) /\ (out => files # <<>>)
  /\ \A l \in written : l.second < now /\ l.second <= Edge

\* What the task and the writer have; a search leaves it alone.
logVars == <<now, nodes, round, writer, disk, past>>

-----------------------------------------------------------------------------
(***************************************************************************)
(* Numbers.                                                                *)
(***************************************************************************)
LEMMA MinProperties ==
  ASSUME NEW T \in SUBSET Nat, T # {}
  PROVE  Min(T) \in T /\ \A s \in T : Min(T) <= s
BY LeastElement DEF Min

\* The greatest element of a bounded set.
LEMMA MaxProperties ==
  ASSUME NEW N \in Nat, NEW T \in SUBSET (-1 .. N), T # {}
  PROVE  Max(T) \in T /\ \A s \in T : s <= Max(T)
<1> DEFINE U == {N - s : s \in T}
<1>1. U \in SUBSET Nat /\ U # {}
  OBVIOUS
<1>2. PICK m \in U : \A k \in U : m <= k
  <2> HIDE DEF U
  <2> QED
    BY <1>1, LeastElement
<1>3. N - m \in T /\ \A s \in T : N - m >= s
  <2>1. PICK s \in T : m = N - s
    BY <1>2
  <2>2. N - m = s
    BY <2>1
  <2>3. ASSUME NEW k \in T PROVE N - m >= k
    <3>1. N - k \in U
      OBVIOUS
    <3>2. m <= N - k
      BY <1>2, <3>1
    <3> QED
      BY <2>1, <3>2
  <2> QED
    BY <2>2, <2>3
<1>4. Max(T) \in T /\ \A s \in T : Max(T) >= s
  BY <1>3 DEF Max
<1> QED
  BY <1>4

\* The day of a second, and that days follow the seconds.
LEMMA DayOrder ==
  ASSUME NEW s \in Nat, NEW e \in Nat, s <= e
  PROVE  Day(s) \in Nat /\ Day(e) \in Nat /\ Day(s) <= Day(e)
<1> DEFINE d == DayLength
           q == s \div d
           p == e \div d
<1>1. d \in Nat /\ d > 0
  BY MetricLogAssumption
<1>2. /\ q \in Nat /\ p \in Nat /\ s % d \in 0 .. d - 1 /\ e % d \in 0 .. d - 1
      /\ s = d * q + (s % d) /\ e = d * p + (e % d)
  BY <1>1
<1>3. q <= p
  <2> HIDE DEF q, p, d
  <2> SUFFICES ASSUME p + 1 <= q PROVE FALSE
    BY <1>2
  <2>1. d * q \in Nat /\ d * p \in Nat
    BY <1>1, <1>2
  <2>2. PICK k \in Nat : q = p + 1 + k
    <3>1. q - p - 1 \in Nat /\ q = p + 1 + (q - p - 1)
      BY <1>2
    <3> QED
      BY <3>1
  <2>3. d * q = d * p + d + d * k
    BY <1>1, <1>2, <2>2
  <2>4. d * k \in Nat
    BY <1>1
  <2>5. d * q > d * p + d - 1
    BY <1>1, <2>1, <2>3, <2>4
  <2> QED
    BY <1>1, <1>2, <2>1, <2>5
<1> QED
  BY <1>2, <1>3 DEF Day

-----------------------------------------------------------------------------
(***************************************************************************)
(* What MetricWriter does to the files.                                    *)
(***************************************************************************)
\* The new name follows all others.
LEMMA NextNameLater ==
  ASSUME NEW fs \in Seq(FileRec), NEW e \in Nat, Named(fs),
         \A i \in 1 .. Len(fs) : fs[i].name[1] <= Day(e)
  PROVE  /\ NextFileNameOfDay(fs, e) \in Nat \X Nat
         /\ \A i \in 1 .. Len(fs) : Before(fs[i].name, NextFileNameOfDay(fs, e))
<1> DEFINE same == {i \in 1 .. Len(fs) : fs[i].name[1] = Day(e)}
           next == NextFileNameOfDay(fs, e)
<1>1. /\ Len(fs) \in Nat /\ Day(e) \in Nat
      /\ \A i \in 1 .. Len(fs) : fs[i].name \in Nat \X Nat
                                 /\ fs[i].name[1] \in Nat /\ fs[i].name[2] \in Nat
  <2>1. Len(fs) \in Nat /\ e <= e
    OBVIOUS
  <2>2. ASSUME NEW i \in 1 .. Len(fs) PROVE fs[i].name \in Nat \X Nat
    <3>1. fs[i] \in FileRec
      OBVIOUS
    <3> QED
      BY <3>1 DEF FileRec
  <2>3. \A n \in Nat \X Nat : n[1] \in Nat /\ n[2] \in Nat
    OBVIOUS
  <2> QED
    BY <2>1, <2>2, <2>3, DayOrder
<1>2. CASE same = {}
  <2>1. next = <<Day(e), 0>>
    BY <1>2 DEF NextFileNameOfDay
  <2>2. ASSUME NEW i \in 1 .. Len(fs) PROVE fs[i].name[1] < Day(e)
    BY <1>1, <1>2
  <2> QED
    BY <1>1, <2>1, <2>2 DEF Before
<1>3. CASE same # {}
  <2> DEFINE m == Max(same)
  <2>1. m \in same /\ \A i \in same : i <= m
    <3>1. same \in SUBSET (-1 .. Len(fs))
      BY <1>1
    <3> HIDE DEF same
    <3> QED
      BY <1>1, <1>3, <3>1, MaxProperties
  <2>2. next = <<Day(e), fs[m].name[2] + 1>>
    BY <1>3 DEF NextFileNameOfDay
  <2> HIDE DEF m, next
  <2>3. next \in Nat \X Nat /\ next[1] = Day(e) /\ next[2] = fs[m].name[2] + 1
    BY <1>1, <2>1, <2>2
  <2>4. ASSUME NEW i \in 1 .. Len(fs) PROVE Before(fs[i].name, next)
    <3>1. CASE fs[i].name[1] # Day(e)
      BY <1>1, <2>3, <3>1 DEF Before
    <3>2. CASE fs[i].name[1] = Day(e) /\ i = m
      BY <1>1, <2>3, <3>2 DEF Before
    <3>3. CASE fs[i].name[1] = Day(e) /\ i # m
      <4>1. i < m /\ m \in 1 .. Len(fs) /\ fs[m].name[1] = Day(e)
        BY <2>1, <3>3
      <4>2. Before(fs[i].name, fs[m].name)
        BY <4>1 DEF Named
      <4> QED
        BY <1>1, <2>3, <3>3, <4>1, <4>2 DEF Before
    <3> QED
      BY <3>1, <3>2, <3>3
  <2> QED
    BY <2>3, <2>4 DEF next
<1> QED
  BY <1>2, <1>3

\* Some of the oldest files go, an empty one comes.
Rolled(fs, c, name, d) ==
  /\ c \in Seq(FileRec) /\ Len(c) = Len(fs) - d + 1
  /\ \A i \in 1 .. Len(fs) - d : c[i] = fs[i + d]
  /\ c[Len(c)] = [name |-> name, lines |-> <<>>, idx |-> <<>>]

\* CloseAndNewFile drops the oldest files, never all, and adds an empty one.
LEMMA CloseShape ==
  ASSUME NEW fs \in Seq(FileRec), NEW e \in Nat,
         NextFileNameOfDay(fs, e) \in Nat \X Nat
  PROVE  \E d \in 0 .. Len(fs) :
           /\ fs # <<>> => d < Len(fs)
           /\ Rolled(fs, CloseAndNewFile(fs, e), NextFileNameOfDay(fs, e), d)
<1> DEFINE name == NextFileNameOfDay(fs, e)
           new == [name |-> name, lines |-> <<>>, idx |-> <<>>]
           d == IF Len(fs) <= TotalFileCount THEN 0 ELSE Len(fs) - TotalFileCount
           kept == RemoveMoreFiles(fs)
<1> HIDE DEF name
<1>1. /\ Len(fs) \in Nat /\ TotalFileCount \in Nat \ {0}
      /\ \A i \in 1 .. Len(fs) : fs[i] \in FileRec
      /\ (fs # <<>> => Len(fs) > 0)
  BY MetricLogAssumption
<1>2. d \in 0 .. Len(fs) /\ (fs # <<>> => d < Len(fs))
  BY <1>1
<1>3. /\ kept \in Seq(FileRec) /\ Len(kept) = Len(fs) - d
      /\ \A i \in 1 .. Len(fs) - d : kept[i] = fs[i + d]
  <2>1. CASE Len(fs) <= TotalFileCount
    BY <1>1, <2>1 DEF RemoveMoreFiles
  <2>2. CASE ~(Len(fs) <= TotalFileCount)
    <3>1. kept = SubSeq(fs, d + 1, Len(fs)) /\ d + 1 \in 1 .. Len(fs)
      BY <1>1, <2>2 DEF RemoveMoreFiles
    <3> HIDE DEF d, kept
    <3> QED
      BY <1>1, <1>2, <3>1, SubSeqProperties
  <2> QED
    BY <2>1, <2>2
<1>4. new \in FileRec
  <2>1. <<>> \in Seq(Line) /\ <<>> \in Seq(Nat \X Nat)
    BY EmptySeq
  <2> QED
    BY <2>1 DEF FileRec, name
<1>5. CloseAndNewFile(fs, e) = Append(kept, new)
  BY DEF CloseAndNewFile, name
<1> HIDE DEF kept, new, d
<1>6. /\ Append(kept, new) \in Seq(FileRec) /\ Len(Append(kept, new)) = Len(kept) + 1
      /\ \A i \in 1 .. Len(kept) : Append(kept, new)[i] = kept[i]
      /\ Append(kept, new)[Len(kept) + 1] = new
  BY <1>3, <1>4, AppendProperties
<1>7. Rolled(fs, CloseAndNewFile(fs, e), name, d)
  <2>1. /\ CloseAndNewFile(fs, e) \in Seq(FileRec)
        /\ Len(CloseAndNewFile(fs, e)) = Len(fs) - d + 1
    BY <1>1, <1>2, <1>3, <1>5, <1>6
  <2>2. \A i \in 1 .. Len(fs) - d : CloseAndNewFile(fs, e)[i] = fs[i + d]
    BY <1>1, <1>2, <1>3, <1>5, <1>6
  <2>3. CloseAndNewFile(fs, e)[Len(CloseAndNewFile(fs, e))] = new
    BY <1>1, <1>2, <1>3, <1>5, <1>6, <2>1
  <2> QED
    BY <2>1, <2>2, <2>3 DEF Rolled, new
<1> QED
  BY <1>2, <1>7 DEF name

\* The types of what a file consists of.
LEMMA FileTypes ==
  ASSUME NEW f \in FileRec
  PROVE  /\ f.name \in Nat \X Nat /\ f.name[1] \in Nat /\ f.name[2] \in Nat
         /\ f.lines \in Seq(Line) /\ Len(f.lines) \in Nat
         /\ \A j \in 1 .. Len(f.lines) : f.lines[j] \in Line /\ f.lines[j].second \in Nat
         /\ f.idx \in Seq(Nat \X Nat) /\ Len(f.idx) \in Nat
         /\ \A j \in 1 .. Len(f.idx) : f.idx[j][1] \in Nat /\ f.idx[j][2] \in Nat
<1>1. f.name \in Nat \X Nat /\ f.lines \in Seq(Line) /\ f.idx \in Seq(Nat \X Nat)
  BY DEF FileRec
<1>2. \A n \in Nat \X Nat : n[1] \in Nat /\ n[2] \in Nat
  OBVIOUS
<1>3. \A l \in Line : l.second \in Nat
  BY MetricLogAssumption DEF Line, Seconds
<1>4. \A j \in 1 .. Len(f.lines) : f.lines[j] \in Line
  BY <1>1
<1>5. \A j \in 1 .. Len(f.idx) : f.idx[j] \in Nat \X Nat
  BY <1>1
<1> QED
  BY <1>1, <1>2, <1>3, <1>4, <1>5

\* A later second and more lines do not hurt.
LEMMA GoodLater ==
  ASSUME NEW fs, NEW e \in Nat, NEW w, Good(fs, e, w),
         NEW later \in Nat, e <= later, NEW more, w \subseteq more
  PROVE  Good(fs, later, more)
<1>1. Day(e) <= Day(later) /\ Day(e) \in Nat /\ Day(later) \in Nat
  BY DayOrder
<1>2. ASSUME NEW i \in 1 .. Len(fs) PROVE Bounded(fs[i], later, more)
  <2>1. fs[i] \in FileRec /\ Bounded(fs[i], e, w)
    BY DEF Good
  <2>2. /\ fs[i].name[1] \in Nat /\ Len(fs[i].idx) \in Nat
        /\ \A j \in 1 .. Len(fs[i].idx) : fs[i].idx[j][1] \in Nat
    BY <2>1, FileTypes
  <2>3. fs[i].name[1] <= Day(later)
    BY <1>1, <2>1, <2>2 DEF Bounded
  <2>4. ASSUME NEW j \in 1 .. Len(fs[i].idx) PROVE fs[i].idx[j][1] <= later
    <3>1. fs[i].idx[j][1] \in Nat /\ fs[i].idx[j][1] <= e
      BY <2>1, <2>2 DEF Bounded
    <3> QED
      BY ONLY <3>1, e \in Nat, later \in Nat, e <= later
  <2>5. ASSUME NEW j \in 1 .. Len(fs[i].lines) PROVE fs[i].lines[j] \in more
    <3>1. fs[i].lines[j] \in w
      BY <2>1 DEF Bounded
    <3> QED
      BY <3>1
  <2> QED
    BY <2>3, <2>4, <2>5 DEF Bounded
<1> QED
  BY <1>2 DEF Good

\* A new file is begun.
LEMMA GoodClose ==
  ASSUME NEW fs, NEW e \in Nat, NEW w, Good(fs, e, w)
  PROVE  /\ Good(CloseAndNewFile(fs, e), e, w)
         /\ CloseAndNewFile(fs, e) # <<>>
<1> DEFINE name == NextFileNameOfDay(fs, e)
           c == CloseAndNewFile(fs, e)
           new == [name |-> name, lines |-> <<>>, idx |-> <<>>]
<1>1. fs \in Seq(FileRec) /\ Len(fs) \in Nat /\ Day(e) \in Nat
  BY DayOrder DEF Good
<1>2. name \in Nat \X Nat /\ \A i \in 1 .. Len(fs) : Before(fs[i].name, name)
  BY <1>1, NextNameLater DEF Good, Bounded
<1>3. PICK d \in 0 .. Len(fs) : Rolled(fs, c, name, d)
  BY <1>1, <1>2, CloseShape
<1>4. name[1] = Day(e)
  BY DEF NextFileNameOfDay
<1> HIDE DEF name, c
<1>5. /\ c \in Seq(FileRec) /\ Len(c) = Len(fs) - d + 1 /\ Len(c) \in Nat \ {0}
      /\ \A i \in 1 .. Len(c) : i < Len(c) => c[i] = fs[i + d] /\ i + d \in 1 .. Len(fs)
      /\ c[Len(c)].name = name /\ c[Len(c)].lines = <<>> /\ c[Len(c)].idx = <<>>
  BY <1>1, <1>3 DEF Rolled
<1>11. Len(c[Len(c)].lines) = 0 /\ Len(c[Len(c)].idx) = 0
  BY <1>5, EmptySeq
<1>12. \A i \in 1 .. Len(c) : i < Len(c) \/ i = Len(c)
  <2>1. Len(c) \in Nat
    BY <1>5
  <2> QED
    BY ONLY <2>1
<1>6. ASSUME NEW i \in 1 .. Len(c) PROVE SoundIndex(c[i]) /\ Bounded(c[i], e, w)
  <2>1. CASE i < Len(c)
    BY <1>5, <2>1 DEF Good
  <2>2. CASE i = Len(c)
    <3>1. 1 .. Len(c[i].lines) = {} /\ 1 .. Len(c[i].idx) = {}
      BY <1>11, <2>2
    <3>2. c[i].name[1] <= Day(e)
      BY <1>1, <1>4, <1>5, <2>2
    <3> QED
      BY <3>1, <3>2 DEF SoundIndex, Bounded
  <2> QED
    BY <1>12, <2>1, <2>2
<1>7. Named(c)
  <2> SUFFICES ASSUME NEW i \in 1 .. Len(c), NEW j \in 1 .. Len(c), i < j
               PROVE  Before(c[i].name, c[j].name)
    BY DEF Named
  <2>0. j < Len(c) \/ j = Len(c)
    BY <1>12
  <2>1. c[i] = fs[i + d] /\ i + d \in 1 .. Len(fs)
    <3>1. i < Len(c)
      BY <1>5
    <3> QED
      BY <1>5, <3>1
  <2>2. CASE j = Len(c)
    BY <1>2, <1>5, <2>1, <2>2
  <2>3. CASE j < Len(c)
    <3>1. c[j] = fs[j + d] /\ j + d \in 1 .. Len(fs) /\ i + d < j + d
      BY <1>5, <2>3
    <3>2. Named(fs)
      BY DEF Good
    <3>3. Before(fs[i + d].name, fs[j + d].name)
      BY ONLY <2>1, <3>1, <3>2 DEF Named
    <3> QED
      BY <2>1, <3>1, <3>3
  <2> QED
    BY <2>0, <2>2, <2>3
<1>8. Sorted(c)
  <2> SUFFICES ASSUME NEW i \in 1 .. Len(c), NEW j \in 1 .. Len(c),
                      NEW a \in 1 .. Len(c[i].lines), NEW b \in 1 .. Len(c[j].lines),
                      i < j \/ (i = j /\ a < b)
               PROVE  /\ c[i].lines[a] # c[j].lines[b]
                      /\ c[i].lines[a].second <= c[j].lines[b].second
    BY DEF Sorted
  <2>1. i < Len(c) /\ j < Len(c)
    <3>1. 1 .. Len(c[Len(c)].lines) = {}
      BY <1>11
    <3>2. i # Len(c) /\ j # Len(c)
      BY <3>1
    <3> QED
      BY <1>12, <3>2
  <2>2. /\ c[i] = fs[i + d] /\ i + d \in 1 .. Len(fs)
        /\ c[j] = fs[j + d] /\ j + d \in 1 .. Len(fs)
    BY <1>5, <2>1
  <2>3. (i < j => i + d < j + d) /\ (i = j => i + d = j + d)
    OBVIOUS
  <2>4. Sorted(fs)
    BY DEF Good
  <2>5. /\ a \in 1 .. Len(fs[i + d].lines) /\ b \in 1 .. Len(fs[j + d].lines)
        /\ i + d < j + d \/ (i + d = j + d /\ a < b)
    BY <2>2, <2>3
  <2>6. /\ fs[i + d].lines[a] # fs[j + d].lines[b]
        /\ fs[i + d].lines[a].second <= fs[j + d].lines[b].second
    BY ONLY <2>2, <2>4, <2>5 DEF Sorted
  <2> QED
    BY <2>2, <2>6
<1>9. Indexed(c)
  <2> SUFFICES ASSUME NEW i \in 1 .. Len(c), NEW j \in 1 .. Len(c), i < j,
                      NEW a \in 1 .. Len(c[i].idx), NEW b \in 1 .. Len(c[j].lines)
               PROVE  c[i].idx[a][1] <= c[j].lines[b].second
    BY DEF Indexed
  <2>1. i < Len(c) /\ j < Len(c)
    <3>1. 1 .. Len(c[Len(c)].lines) = {}
      BY <1>11
    <3>2. i # Len(c) /\ j # Len(c)
      BY <3>1
    <3> QED
      BY <1>12, <3>2
  <2>2. /\ c[i] = fs[i + d] /\ i + d \in 1 .. Len(fs)
        /\ c[j] = fs[j + d] /\ j + d \in 1 .. Len(fs) /\ i + d < j + d
    BY <1>5, <2>1
  <2>3. Indexed(fs)
    BY DEF Good
  <2>4. a \in 1 .. Len(fs[i + d].idx) /\ b \in 1 .. Len(fs[j + d].lines)
    BY <2>2
  <2>5. fs[i + d].idx[a][1] <= fs[j + d].lines[b].second
    BY ONLY <2>2, <2>3, <2>4 DEF Indexed
  <2> QED
    BY <2>2, <2>5
<1>10. c # <<>>
  BY <1>5
<1> QED
  BY <1>5, <1>6, <1>7, <1>8, <1>9, <1>10 DEF Good, c

\* Where the names are the same, their order is.
LEMMA SameNames ==
  ASSUME NEW fs, NEW c, Len(c) = Len(fs), Named(fs),
         \A i \in 1 .. Len(fs) : c[i].name = fs[i].name
  PROVE  Named(c)
BY DEF Named

\* And where the lines are, theirs is.
LEMMA SameLines ==
  ASSUME NEW fs, NEW c, Len(c) = Len(fs), Sorted(fs),
         \A i \in 1 .. Len(fs) : c[i].lines = fs[i].lines
  PROVE  Sorted(c)
<1> SUFFICES ASSUME NEW i \in 1 .. Len(c), NEW j \in 1 .. Len(c),
                    NEW a \in 1 .. Len(c[i].lines), NEW b \in 1 .. Len(c[j].lines),
                    i < j \/ (i = j /\ a < b)
             PROVE  /\ c[i].lines[a] # c[j].lines[b]
                    /\ c[i].lines[a].second <= c[j].lines[b].second
  BY DEF Sorted
<1>1. c[i].lines = fs[i].lines /\ c[j].lines = fs[j].lines
  OBVIOUS
<1>2. /\ i \in 1 .. Len(fs) /\ j \in 1 .. Len(fs)
      /\ i < j \/ (i = j /\ a < b)
      /\ a \in 1 .. Len(fs[i].lines) /\ b \in 1 .. Len(fs[j].lines)
  BY <1>1
<1>3. /\ fs[i].lines[a] # fs[j].lines[b]
      /\ fs[i].lines[a].second <= fs[j].lines[b].second
  BY ONLY Sorted(fs), <1>2 DEF Sorted
<1>4. c[i].lines[a] = fs[i].lines[a] /\ c[j].lines[b] = fs[j].lines[b]
  BY <1>1
<1> QED
  BY ONLY <1>3, <1>4

\* An entry for second e is added to the index of the last file.
LEMMA GoodIndex ==
  ASSUME NEW fs, NEW e \in Nat, NEW w, Good(fs, e, w), fs # <<>>,
         \A l \in w : l.second <= e
  PROVE  Good(WriteIndex(fs, e), e, w) /\ WriteIndex(fs, e) # <<>>
<1> DEFINE n == Len(fs)
           f == fs[n]
           entry == <<e, Len(f.lines)>>
           g == [f EXCEPT !.idx = Append(@, entry)]
           c == WriteIndex(fs, e)
<1>1. fs \in Seq(FileRec) /\ n \in Nat /\ n \in 1 .. n /\ f \in FileRec
  BY DEF Good
<1>2. c = [fs EXCEPT ![n] = g]
  BY DEF WriteIndex
<1>3. /\ f.lines \in Seq(Line) /\ Len(f.lines) \in Nat
      /\ f.idx \in Seq(Nat \X Nat) /\ Len(f.idx) \in Nat
      /\ \A j \in 1 .. Len(f.idx) : f.idx[j][1] \in Nat /\ f.idx[j][2] \in Nat
      /\ \A j \in 1 .. Len(f.lines) : f.lines[j].second \in Nat
  BY <1>1, FileTypes
<1>4. /\ g.name = f.name /\ g.lines = f.lines
      /\ g.idx = Append(f.idx, entry) /\ entry \in Nat \X Nat
      /\ entry[1] = e /\ entry[2] = Len(f.lines)
  BY <1>1, <1>3 DEF FileRec
<1>5. /\ g.idx \in Seq(Nat \X Nat) /\ Len(g.idx) = Len(f.idx) + 1
      /\ \A j \in 1 .. Len(f.idx) : g.idx[j] = f.idx[j]
      /\ g.idx[Len(g.idx)] = entry
  BY <1>3, <1>4, AppendProperties
<1>6. g \in FileRec
  <2>1. Append(f.idx, entry) \in Seq(Nat \X Nat)
    BY <1>4, <1>5
  <2> HIDE DEF f, entry
  <2> QED
    BY <1>1, <2>1 DEF FileRec
<1> HIDE DEF n, f, entry, g, c
<1>7. /\ c \in Seq(FileRec) /\ Len(c) = n
      /\ \A i \in 1 .. n : c[i] = IF i = n THEN g ELSE fs[i]
  BY <1>1, <1>2, <1>6 DEF n
<1>8. \A i \in 1 .. n : c[i].name = fs[i].name /\ c[i].lines = fs[i].lines
  BY <1>4, <1>7 DEF f
<1>9. SoundIndex(f) /\ Bounded(f, e, w)
  BY <1>1 DEF Good, f, n
<1>10. Bounded(g, e, w)
  <2>1. \A j \in 1 .. Len(g.idx) : g.idx[j][1] <= e
    <3> SUFFICES ASSUME NEW j \in 1 .. Len(g.idx) PROVE g.idx[j][1] <= e
      OBVIOUS
    <3>1. CASE j \in 1 .. Len(f.idx)
      BY <1>5, <1>9, <3>1 DEF Bounded
    <3>2. CASE j = Len(g.idx)
      BY <1>4, <1>5, <3>2
    <3> QED
      BY <1>3, <1>5, <3>1, <3>2
  <2> QED
    BY <1>4, <1>9, <2>1 DEF Bounded
<1>11. SoundIndex(g)
  <2> SUFFICES ASSUME NEW i \in 1 .. Len(g.idx)
               PROVE  /\ g.idx[i][2] <= Len(g.lines)
                      /\ i > 1 => /\ g.idx[i - 1][1] <= g.idx[i][1]
                                  /\ g.idx[i - 1][2] <= g.idx[i][2]
                      /\ \A j \in 1 .. Len(g.lines) :
                           IF j > g.idx[i][2] THEN g.lines[j].second >= g.idx[i][1]
                                              ELSE g.lines[j].second <= g.idx[i][1]
    BY DEF SoundIndex
  <2>1. CASE i \in 1 .. Len(f.idx)
    <3>1. g.idx[i] = f.idx[i] /\ (i > 1 => i - 1 \in 1 .. Len(f.idx))
      BY <1>3, <1>5, <2>1
    <3>2. i > 1 => g.idx[i - 1] = f.idx[i - 1]
      BY <1>5, <3>1
    <3> QED
      BY <1>4, <1>9, <2>1, <3>1, <3>2 DEF SoundIndex
  <2>2. CASE i = Len(g.idx)
    <3>1. g.idx[i][1] = e /\ g.idx[i][2] = Len(g.lines) /\ Len(g.lines) \in Nat
      BY <1>3, <1>4, <1>5, <2>2
    <3>2. i > 1 => g.idx[i - 1][1] <= e /\ g.idx[i - 1][2] <= Len(g.lines)
      <4> SUFFICES ASSUME i > 1
                   PROVE  g.idx[i - 1][1] <= e /\ g.idx[i - 1][2] <= Len(g.lines)
        OBVIOUS
      <4>1. i - 1 \in 1 .. Len(f.idx) /\ g.idx[i - 1] = f.idx[i - 1]
        <5>1. i - 1 = Len(f.idx) /\ Len(f.idx) > 0
          BY <1>3, <1>5, <2>2
        <5> QED
          BY <1>3, <1>5, <5>1
      <4> QED
        BY <1>4, <1>9, <4>1 DEF SoundIndex, Bounded
    <3>3. \A j \in 1 .. Len(g.lines) : ~(j > Len(g.lines)) /\ g.lines[j].second <= e
      BY <1>4, <1>9, <3>1 DEF Bounded
    <3>4. Len(g.lines) <= Len(g.lines)
      BY <3>1
    <3> QED
      BY <3>1, <3>2, <3>3, <3>4
  <2> QED
    BY <1>3, <1>5, <2>1, <2>2
<1>12. ASSUME NEW i \in 1 .. Len(c) PROVE SoundIndex(c[i]) /\ Bounded(c[i], e, w)
  BY <1>7, <1>10, <1>11 DEF Good, n
<1>13. Named(c) /\ Sorted(c)
  <2>1. /\ Named(fs) /\ Sorted(fs) /\ Len(fs) = n /\ Len(c) = Len(fs)
        /\ \A i \in 1 .. Len(fs) : c[i].name = fs[i].name
        /\ \A i \in 1 .. Len(fs) : c[i].lines = fs[i].lines
    BY <1>7, <1>8 DEF Good, n
  <2>2. Named(c)
    BY <2>1, SameNames
  <2>3. Sorted(c)
    BY <2>1, SameLines
  <2> QED
    BY <2>2, <2>3
<1>14. Indexed(c)
  <2> SUFFICES ASSUME NEW i \in 1 .. Len(c), NEW j \in 1 .. Len(c), i < j,
                      NEW a \in 1 .. Len(c[i].idx), NEW b \in 1 .. Len(c[j].lines)
               PROVE  c[i].idx[a][1] <= c[j].lines[b].second
    BY DEF Indexed
  <2>1. i # n /\ c[i] = fs[i] /\ c[j].lines = fs[j].lines
    BY <1>1, <1>7, <1>8
  <2>2. Indexed(fs) /\ Len(fs) = n /\ Len(c) = n
    BY <1>7 DEF Good, n
  <2>3. /\ i \in 1 .. Len(fs) /\ j \in 1 .. Len(fs)
        /\ a \in 1 .. Len(fs[i].idx) /\ b \in 1 .. Len(fs[j].lines)
    BY <2>1, <2>2
  <2>4. fs[i].idx[a][1] <= fs[j].lines[b].second
    BY ONLY <2>2, <2>3, i < j DEF Indexed
  <2> QED
    BY <2>1, <2>4
<1>15. c # <<>>
  BY <1>1, <1>7
<1> QED
  BY <1>7, <1>12, <1>13, <1>14, <1>15 DEF Good, c

\* New lines of second e are added to the last file.
LEMMA GoodAppend ==
  ASSUME NEW fs, NEW e \in Nat, NEW w, Good(fs, e, w), fs # <<>>,
         \A l \in w : l.second <= e,
         NEW ls \in Seq(Line),
         \A a \in 1 .. Len(ls) :
           /\ ls[a].second = e /\ ls[a] \notin w
           /\ \A b \in 1 .. Len(ls) : a # b => ls[a] # ls[b],
         NEW more, more = [fs EXCEPT ![Len(fs)].lines = @ \o ls]
  PROVE  Good(more, e, w \cup ToSet(ls)) /\ more # <<>>
<1> DEFINE n == Len(fs)
           f == fs[n]
           g == [f EXCEPT !.lines = @ \o ls]
           c == [fs EXCEPT ![Len(fs)].lines = @ \o ls]
           all == w \cup ToSet(ls)
<1>1. fs \in Seq(FileRec) /\ n \in Nat /\ n \in 1 .. n /\ f \in FileRec
  BY DEF Good
<1>2. c = [fs EXCEPT ![n] = g]
  OBVIOUS
<1>3. /\ f.lines \in Seq(Line) /\ Len(f.lines) \in Nat /\ Len(ls) \in Nat
      /\ \A j \in 1 .. Len(f.idx) : f.idx[j][1] \in Nat /\ f.idx[j][2] \in Nat
      /\ \A j \in 1 .. Len(f.lines) : f.lines[j].second \in Nat
  BY <1>1, FileTypes
<1>4. g.name = f.name /\ g.idx = f.idx /\ g.lines = f.lines \o ls
  BY <1>1 DEF FileRec
<1>5. /\ g.lines \in Seq(Line) /\ Len(g.lines) = Len(f.lines) + Len(ls)
      /\ \A j \in 1 .. Len(f.lines) : g.lines[j] = f.lines[j]
      /\ \A j \in Len(f.lines) + 1 .. Len(g.lines) :
           g.lines[j] = ls[j - Len(f.lines)] /\ j - Len(f.lines) \in 1 .. Len(ls)
  <2> HIDE DEF f, g
  <2> QED
    BY <1>3, <1>4, ConcatProperties
<1>6. g \in FileRec
  <2>1. f.lines \o ls \in Seq(Line)
    BY <1>4, <1>5
  <2> HIDE DEF f
  <2> QED
    BY <1>1, <2>1 DEF FileRec
<1>7. ToSet(ls) = {ls[a] : a \in 1 .. Len(ls)}
  BY DEF ToSet
<1> HIDE DEF n, f, g, c
<1>8. /\ c \in Seq(FileRec) /\ Len(c) = n
      /\ \A i \in 1 .. n : c[i] = IF i = n THEN g ELSE fs[i]
  BY <1>1, <1>2, <1>6 DEF n
<1>9. \A i \in 1 .. n : c[i].name = fs[i].name /\ c[i].idx = fs[i].idx
  BY <1>4, <1>8 DEF f
<1>10. SoundIndex(f) /\ Bounded(f, e, w)
  BY <1>1 DEF Good, f, n
\* A line of the last file is an old one, or a new one of second e.
<1>11. ASSUME NEW j \in 1 .. Len(g.lines)
       PROVE  \/ /\ j \in 1 .. Len(f.lines) /\ g.lines[j] = f.lines[j]
                 /\ g.lines[j] \in w /\ g.lines[j].second <= e
              \/ /\ j > Len(f.lines) /\ j - Len(f.lines) \in 1 .. Len(ls)
                 /\ g.lines[j] = ls[j - Len(f.lines)]
                 /\ g.lines[j] \in ToSet(ls) \ w /\ g.lines[j].second = e
  <2>1. CASE j <= Len(f.lines)
    <3>1. j \in 1 .. Len(f.lines) /\ g.lines[j] = f.lines[j]
      BY <1>3, <1>5, <2>1
    <3> QED
      BY <1>10, <3>1 DEF Bounded
  <2>2. CASE j > Len(f.lines)
    <3>1. /\ j - Len(f.lines) \in 1 .. Len(ls)
          /\ g.lines[j] = ls[j - Len(f.lines)]
      BY <1>3, <1>5, <2>2
    <3> QED
      BY <1>7, <2>2, <3>1
  <2> QED
    BY <1>3, <1>5, <2>1, <2>2
<1>12. \A i \in 1 .. n : i # n => \A a \in 1 .. Len(fs[i].lines) :
         fs[i].lines[a] \in w /\ fs[i].lines[a].second <= e
  BY DEF Good, Bounded, n
<1>13. Bounded(g, e, all)
  <2>1. \A j \in 1 .. Len(g.lines) : g.lines[j] \in all
    BY <1>11
  <2> QED
    BY <1>4, <1>10, <2>1 DEF Bounded
<1>14. SoundIndex(g)
  <2> SUFFICES ASSUME NEW i \in 1 .. Len(f.idx)
               PROVE  /\ f.idx[i][2] <= Len(g.lines)
                      /\ \A j \in 1 .. Len(g.lines) :
                           IF j > f.idx[i][2] THEN g.lines[j].second >= f.idx[i][1]
                                              ELSE g.lines[j].second <= f.idx[i][1]
    BY <1>4, <1>10 DEF SoundIndex
  <2>1. f.idx[i][2] <= Len(f.lines) /\ f.idx[i][1] <= e
    BY <1>10 DEF SoundIndex, Bounded
  <2>2. ASSUME NEW j \in 1 .. Len(g.lines)
        PROVE  IF j > f.idx[i][2] THEN g.lines[j].second >= f.idx[i][1]
                                  ELSE g.lines[j].second <= f.idx[i][1]
    <3>1. CASE j \in 1 .. Len(f.lines) /\ g.lines[j] = f.lines[j]
      BY <1>10, <3>1 DEF SoundIndex
    <3>2. CASE j > Len(f.lines) /\ g.lines[j].second = e
      <4>1. j > f.idx[i][2]
        BY <1>3, <2>1, <3>2
      <4>2. g.lines[j].second >= f.idx[i][1]
        BY <1>3, <2>1, <3>2
      <4> QED
        BY <4>1, <4>2
    <3> QED
      BY <1>11, <3>1, <3>2
  <2>3. f.idx[i][2] <= Len(g.lines)
    BY <1>3, <1>5, <2>1
  <2> QED
    BY <2>2, <2>3
<1>15. ASSUME NEW i \in 1 .. Len(c) PROVE SoundIndex(c[i]) /\ Bounded(c[i], e, all)
  <2>1. CASE i = n
    BY <1>8, <1>13, <1>14, <2>1
  <2>2. CASE i # n
    <3>1. SoundIndex(fs[i]) /\ Bounded(fs[i], e, w) /\ c[i] = fs[i]
      BY <1>8, <2>2 DEF Good, n
    <3> QED
      BY <3>1 DEF Bounded
  <2> QED
    BY <2>1, <2>2
<1>16. Named(c)
  <2>1. Named(fs) /\ Len(fs) = n /\ Len(c) = Len(fs)
    BY <1>8 DEF Good, n
  <2>2. \A i \in 1 .. Len(fs) : c[i].name = fs[i].name
    BY <1>9, <2>1
  <2> QED
    BY <2>1, <2>2, SameNames
<1>17. Sorted(c)
  <2> SUFFICES ASSUME NEW i \in 1 .. n, NEW j \in 1 .. n,
                      NEW a \in 1 .. Len(c[i].lines), NEW b \in 1 .. Len(c[j].lines),
                      i < j \/ (i = j /\ a < b)
               PROVE  /\ c[i].lines[a] # c[j].lines[b]
                      /\ c[i].lines[a].second <= c[j].lines[b].second
    BY <1>8 DEF Sorted
  <2>0. Sorted(fs) /\ Len(fs) = n
    BY DEF Good, n
  <2>1. CASE j # n
    <3>1. i # n
      BY <1>1, <2>1
    <3>2. c[i] = fs[i] /\ c[j] = fs[j]
      BY <1>8, <2>1, <3>1
    <3> QED
      BY ONLY <2>0, <3>2, (i < j \/ (i = j /\ a < b)), i \in 1 .. n, j \in 1 .. n,
              a \in 1 .. Len(c[i].lines), b \in 1 .. Len(c[j].lines) DEF Sorted
  <2>2. CASE j = n /\ b \in 1 .. Len(f.lines) /\ g.lines[b] = f.lines[b]
    <3>1. CASE i # n
      <4>1. c[i] = fs[i] /\ c[j].lines[b] = fs[j].lines[b]
        BY <1>8, <2>2, <3>1 DEF f
      <4>2. i < j /\ b \in 1 .. Len(fs[j].lines)
        BY <1>1, <2>2, <3>1 DEF f
      <4> QED
        BY ONLY <2>0, <4>1, <4>2, i \in 1 .. n, j \in 1 .. n,
                a \in 1 .. Len(c[i].lines) DEF Sorted
    <3>2. CASE i = n
      <4>1. a < b /\ a \in 1 .. Len(f.lines)
        BY <1>3, <2>2, <3>2
      <4>2. g.lines[a] = f.lines[a]
        BY <1>5, <4>1
      <4>3. /\ c[i].lines[a] = fs[n].lines[a] /\ c[j].lines[b] = fs[n].lines[b]
            /\ a \in 1 .. Len(fs[n].lines) /\ b \in 1 .. Len(fs[n].lines)
        BY <1>8, <2>2, <3>2, <4>1, <4>2 DEF f
      <4>4. /\ fs[n].lines[a] # fs[n].lines[b]
            /\ fs[n].lines[a].second <= fs[n].lines[b].second
        BY ONLY <1>1, <2>0, <4>1, <4>3 DEF Sorted
      <4> QED
        BY <4>3, <4>4
    <3> QED
      BY <3>1, <3>2
  <2>3. CASE /\ j = n /\ b > Len(f.lines) /\ b - Len(f.lines) \in 1 .. Len(ls)
             /\ g.lines[b] = ls[b - Len(f.lines)]
             /\ g.lines[b] \in ToSet(ls) \ w /\ g.lines[b].second = e
    <3>1. CASE i # n
      <4>1. c[i] = fs[i] /\ c[j] = g
        BY <1>8, <2>3, <3>1
      <4>2. c[i].lines[a] \in w /\ c[i].lines[a].second <= e
        BY <1>12, <3>1, <4>1
      <4> QED
        BY <2>3, <4>1, <4>2
    <3>2. CASE i = n
      <4>1. c[i] = g /\ c[j] = g /\ a < b /\ a \in 1 .. Len(g.lines)
        BY <1>8, <2>3, <3>2
      <4>2. CASE g.lines[a] \in w /\ g.lines[a].second <= e
        BY <2>3, <4>1, <4>2
      <4>3. CASE /\ a - Len(f.lines) \in 1 .. Len(ls)
                 /\ g.lines[a] = ls[a - Len(f.lines)] /\ g.lines[a].second = e
        <5>1. a - Len(f.lines) # b - Len(f.lines)
          BY <1>3, <4>1
        <5>2. e <= e
          OBVIOUS
        <5> QED
          BY <2>3, <4>1, <4>3, <5>1, <5>2
      <4> QED
        BY <1>11, <4>1, <4>2, <4>3
    <3> QED
      BY <3>1, <3>2
  <2>4. j = n => b \in 1 .. Len(g.lines)
    BY <1>8
  <2> QED
    BY <1>11, <2>1, <2>2, <2>3, <2>4
<1>18. Indexed(c)
  <2> SUFFICES ASSUME NEW i \in 1 .. n, NEW j \in 1 .. n, i < j,
                      NEW a \in 1 .. Len(fs[i].idx), NEW b \in 1 .. Len(c[j].lines)
               PROVE  fs[i].idx[a][1] <= c[j].lines[b].second
    BY <1>8, <1>9 DEF Indexed
  <2>0. Indexed(fs) /\ Len(fs) = n
    BY DEF Good, n
  <2>1. CASE j # n
    <3>1. c[j] = fs[j] /\ b \in 1 .. Len(fs[j].lines)
      BY <1>8, <2>1
    <3>2. fs[i].idx[a][1] <= fs[j].lines[b].second
      BY <2>0, <3>1 DEF Indexed
    <3> QED
      BY <3>1, <3>2
  <2>2. CASE j = n /\ b \in 1 .. Len(f.lines) /\ g.lines[b] = f.lines[b]
    <3>1. /\ c[j].lines[b] = fs[j].lines[b] /\ b \in 1 .. Len(fs[j].lines)
      BY <1>8, <2>2 DEF f
    <3>2. fs[i].idx[a][1] <= fs[j].lines[b].second
      BY <2>0, <3>1 DEF Indexed
    <3> QED
      BY <3>1, <3>2
  <2>3. CASE j = n /\ g.lines[b].second = e
    <3>1. c[j].lines[b].second = e
      BY <1>8, <2>3
    <3>2. Bounded(fs[i], e, w)
      BY DEF Good, n
    <3>3. fs[i].idx[a][1] <= e
      BY <3>2 DEF Bounded
    <3> QED
      BY <3>1, <3>3
  <2>4. j = n => b \in 1 .. Len(g.lines)
    BY <1>8
  <2> QED
    BY <1>11, <2>1, <2>2, <2>3, <2>4
<1>19. c # <<>>
  BY <1>1, <1>8
<1>20. Good(c, e, all)
  BY <1>8, <1>15, <1>16, <1>17, <1>18 DEF Good
<1> QED
  BY <1>19, <1>20 DEF c

-----------------------------------------------------------------------------
(***************************************************************************)
(* What MetricLogTask does to its map.                                     *)
(***************************************************************************)
LEMMA SecondsAreNat == Seconds \subseteq Nat /\ MaxTime \in Nat
BY MetricLogAssumption DEF Seconds

\* The map's first second.
LEMMA SecondIsFirst ==
  ASSUME Pending # {}
  PROVE  /\ Second \in Pending /\ Second \in Seconds /\ Second \in Nat
         /\ \A s \in Pending : s \in Nat /\ Second <= s
<1>1. Pending \in SUBSET Nat /\ Pending \subseteq Seconds
  BY SecondsAreNat DEF Pending
<1> QED
  BY <1>1, MinProperties DEF Second

\* A second that is through leaves the map.
LEMMA OthersRemain ==
  ASSUME TaskTypeOK, Pending # {}, batch' = Others
  PROVE  /\ batch' \in [Seconds -> Seq(Line)] /\ Pending' = Pending \ {Second}
         /\ \A s \in Pending' : batch'[s] = batch[s]
<1>1. Second \in Seconds /\ <<>> \in Seq(Line)
  BY SecondIsFirst, EmptySeq
<1>2. batch \in [Seconds -> Seq(Line)]
  BY DEF TaskTypeOK
<1>3. \A s \in Seconds : batch'[s] = IF s = Second THEN <<>> ELSE batch[s]
  BY <1>1, <1>2 DEF Others
<1>4. batch' \in [Seconds -> Seq(Line)]
  BY <1>1, <1>2 DEF Others
<1> QED
  BY <1>1, <1>3, <1>4 DEF Pending

\* The seconds of a node that a round takes.
Fresh(r) == {s \in buckets[r] : IsNodeInTime(r, s)}

\* Node r has been asked for the seconds fresh.
Taken(r, fresh) ==
  /\ r \in Resources /\ visited + 1 \in 1 .. Len(NodeOrder) /\ r = NodeOrder[visited + 1]
  /\ fresh = Fresh(r)
  /\ lastFetch' \in [Resources -> -1 .. MaxTime]
  /\ \A q \in Resources : q # r => lastFetch'[q] = lastFetch[q]
  /\ lastFetch[r] <= lastFetch'[r] /\ lastFetch'[r] < now
  /\ \A s \in fresh : s <= lastFetch'[r]
  /\ batch' \in [Seconds -> Seq(Line)] /\ Pending' = Pending \cup fresh
  /\ \A s \in Seconds :
       batch'[s] = IF s \in fresh THEN Append(batch[s], [second |-> s, resource |-> r])
                   ELSE batch[s]
  /\ \/ visited' = visited + 1 /\ task' = "collect"
     \/ /\ visited' = 0 /\ visited + 1 = Len(NodeOrder)
        /\ task' = IF Pending' = {} THEN "sleep" ELSE "write"

\* Collect takes the fresh seconds of one node.
LEMMA CollectTakes ==
  ASSUME TaskTypeOK, NodesInv, Collect
  PROVE  \E r, fresh : Taken(r, fresh)
<1> DEFINE r == NodeOrder[visited + 1]
           fresh == Fresh(r)
<1>1. /\ NodeOrder \in Seq(Resources) /\ Len(NodeOrder) \in Nat
      /\ visited + 1 \in 1 .. Len(NodeOrder) /\ visited \in Nat
  <2>1. visited + 1 <= Len(NodeOrder)
    BY MetricLogAssumption DEF Collect, TaskTypeOK
  <2> QED
    BY <2>1, MetricLogAssumption DEF TaskTypeOK
<1>2. r \in Resources
  BY <1>1
<1>3. /\ buckets[r] \in SUBSET Seconds /\ lastFetch[r] \in -1 .. MaxTime /\ now \in Nat
      /\ lastFetch[r] < now /\ now <= MaxTime
  BY <1>2, SecondsAreNat DEF TaskTypeOK, NodesInv, Seconds
<1> HIDE DEF r
<1>4. /\ lastFetch' = [lastFetch EXCEPT ![r] = NewLastFetch(fresh, @)]
      /\ batch' = [s \in Seconds |->
                     IF s \in fresh THEN Append(batch[s], [second |-> s, resource |-> r])
                     ELSE batch[s]]
      /\ \/ visited' = visited + 1 /\ task' = "collect"
         \/ visited' = 0 /\ visited + 1 = Len(NodeOrder) /\ WriteOrSleep
  BY DEF Collect, r, Fresh
<1>5. /\ fresh \in SUBSET Seconds
      /\ \A s \in fresh : s > lastFetch[r] /\ s < now
  BY <1>3 DEF Fresh, IsNodeInTime
<1> HIDE DEF fresh
<1> DEFINE m == NewLastFetch(fresh, lastFetch[r])
<1>6. /\ m \in fresh \cup {lastFetch[r]}
      /\ lastFetch[r] <= m /\ \A s \in fresh : s <= m
  <2>1. /\ MaxTime \in Nat /\ fresh \cup {lastFetch[r]} \in SUBSET (-1 .. MaxTime)
        /\ fresh \cup {lastFetch[r]} # {}
    <3>1. \A s \in fresh : s \in -1 .. MaxTime
      BY <1>5, SecondsAreNat DEF Seconds
    <3> QED
      BY <1>3, <3>1, SecondsAreNat
  <2> QED
    BY <2>1, MaxProperties DEF NewLastFetch
<1>7. m \in -1 .. MaxTime /\ m < now
  <2>1. CASE m = lastFetch[r]
    BY <1>3, <2>1
  <2>2. CASE m \in fresh
    <3>1. m \in Seconds /\ m < now
      BY <1>5, <2>2
    <3> QED
      BY <3>1, SecondsAreNat DEF Seconds
  <2> QED
    BY <1>6, <2>1, <2>2
<1> HIDE DEF m
<1>8. /\ lastFetch' \in [Resources -> -1 .. MaxTime] /\ lastFetch'[r] = m
      /\ \A q \in Resources : q # r => lastFetch'[q] = lastFetch[q]
  <2>1. lastFetch \in [Resources -> -1 .. MaxTime]
    BY DEF TaskTypeOK
  <2> QED
    BY <1>2, <1>4, <1>7, <2>1 DEF m
<1>9. /\ \A s \in Seconds :
           /\ batch[s] \in Seq(Line) /\ [second |-> s, resource |-> r] \in Line
           /\ batch'[s] = IF s \in fresh
                          THEN Append(batch[s], [second |-> s, resource |-> r])
                          ELSE batch[s]
  BY <1>2, <1>4 DEF TaskTypeOK, Line
<1>10. ASSUME NEW s \in Seconds
       PROVE  batch'[s] \in Seq(Line) /\ (batch'[s] # <<>> <=> s \in fresh \/ batch[s] # <<>>)
  <2> DEFINE l == [second |-> s, resource |-> r]
  <2>3. /\ batch[s] \in Seq(Line) /\ l \in Line
        /\ batch'[s] = IF s \in fresh THEN Append(batch[s], l) ELSE batch[s]
    BY <1>9
  <2> HIDE DEF l
  <2>4. Append(batch[s], l) \in Seq(Line) /\ Append(batch[s], l) # <<>>
    BY <2>3, AppendProperties
  <2>1. CASE s \in fresh
    BY <2>1, <2>3, <2>4
  <2>2. CASE s \notin fresh
    BY <2>2, <2>3
  <2> QED
    BY <2>1, <2>2
<1>11. batch' \in [Seconds -> Seq(Line)] /\ Pending' = Pending \cup fresh
  <2>1. batch' \in [Seconds -> Seq(Line)]
    BY <1>4, <1>10
  <2>2. Pending' = Pending \cup fresh
    BY <1>5, <1>10 DEF Pending
  <2> QED
    BY <2>1, <2>2
<1> QED
  BY <1>1, <1>2, <1>4, <1>6, <1>7, <1>8, <1>9, <1>11 DEF Taken, WriteOrSleep, r, fresh

\* The steps that leave the task and the writer alone, and the others.
LEMMA StepsOfTask ==
  ASSUME [Next]_vars
  PROVE  \/ UNCHANGED logVars
         \/ Tick \/ Initialize \/ Collect \/ Write \/ WriteLines \/ Wake \/ Crash
         \/ \E r \in Resources : Record(r)
<1> USE DEF logVars, vars, nodes, round, writer, disk, past
<1>1. CASE UNCHANGED vars
  BY <1>1
<1>2. CASE \E req \in Requests : Find(req) \/ FindByTimeAndResource(req)
  BY <1>2 DEF Find, FindByTimeAndResource, Begin
<1>3. CASE Stop \/ FindOffset \/ Read \/ NotFound \/ Respond
  BY <1>3 DEF Stop, FindOffset, Read, NotFound, Respond
<1> QED
  BY <1>1, <1>2, <1>3 DEF Next, Task

\* What Write finds: a second to drop, or one whose index entry may be due.
LEMMA WriteFinds ==
  ASSUME TaskInv, Write
  PROVE  /\ task = "write" /\ Pending # {} /\ out'
         /\ UNCHANGED <<now, nodes, visited, lastSecond, written, overran>>
         /\ \/ /\ Second < lastSecond /\ out /\ files' = files
               /\ batch' = Others /\ dropped' = dropped \cup ToSet(batch[Second])
               /\ task' = IF Pending' = {} THEN "sleep" ELSE "write"
               /\ firstWrite' = firstWrite
            \/ /\ lastSecond <= Second /\ task' = "lines"
               /\ batch' = batch /\ dropped' = dropped /\ firstWrite' \in BOOLEAN
               /\ \E fs : /\ fs = IF out THEN files ELSE CloseAndNewFile(files, Second)
                          /\ files' = fs \/ files' = WriteIndex(fs, Second)
<1> DEFINE fs == IF out THEN files ELSE CloseAndNewFile(files, Second)
<1>1. task = "write" /\ Pending # {}
  BY DEF Write, TaskInv, PhaseInv
<1>2. Second \in Pending /\ Second \in Nat /\ lastSecond \in Nat
  BY <1>1, SecondIsFirst DEF TaskInv, PhaseInv
<1>3. ~out => lastSecond <= Second
  BY <1>1, <1>2 DEF TaskInv, YoungInv
<1>4. out' /\ UNCHANGED <<now, nodes, visited, lastSecond, written, overran>>
  BY DEF Write
<1>5. CASE Second < lastSecond
  <2>1. out /\ fs = files
    BY <1>2, <1>3, <1>5
  <2> HIDE DEF fs
  <2> QED
    BY <1>1, <1>2, <1>4, <1>5, <2>1 DEF Write, WriteOrSleep, fs
<1>6. CASE ~(Second < lastSecond)
  <2>1. lastSecond <= Second
    BY <1>2, <1>6
  <2>2. firstWrite' \in BOOLEAN
    BY <1>6 DEF Write, TaskInv, WriterTypeOK
  <2>3. files' = fs \/ files' = WriteIndex(fs, Second)
    BY <1>6 DEF Write
  <2>4. task' = "lines" /\ batch' = batch /\ dropped' = dropped
    BY <1>6 DEF Write
  <2> HIDE DEF fs
  <2> QED
    BY <1>1, <1>4, <2>1, <2>2, <2>3, <2>4 DEF fs
<1> QED
  BY <1>5, <1>6

\* The types.
LEMMA NextTypes ==
  TaskInv /\ [Next]_vars => TaskTypeOK' /\ WriterTypeOK'
<1> SUFFICES ASSUME TaskInv, [Next]_vars PROVE TaskTypeOK' /\ WriterTypeOK'
  OBVIOUS
<1> USE DEF nodes, round, writer, disk, past
<1>0. /\ TaskTypeOK /\ WriterTypeOK /\ Seconds \subseteq Nat /\ MaxTime \in Nat
      /\ NodeOrder \in Seq(Resources) /\ Len(NodeOrder) \in Nat
  BY SecondsAreNat, MetricLogAssumption DEF TaskInv
<1>1. CASE UNCHANGED logVars
  BY <1>0, <1>1 DEF logVars, TaskTypeOK, WriterTypeOK
<1>2. CASE Tick
  <2>1. TaskTypeOK'
    BY <1>0, <1>2 DEF Tick, TaskTypeOK, Tasks, Seconds
  <2> QED
    BY <1>0, <1>2, <2>1 DEF Tick, WriterTypeOK
<1>3. ASSUME NEW r \in Resources, Record(r)
      PROVE  TaskTypeOK' /\ WriterTypeOK'
  BY <1>0, <1>3 DEF Record, TaskTypeOK, WriterTypeOK
<1>4. CASE Initialize
  <2>1. now \in -1 .. MaxTime
    BY <1>0 DEF TaskTypeOK, Seconds
  <2> QED
    BY <1>0, <1>4, <2>1 DEF Initialize, TaskTypeOK, WriterTypeOK, Tasks
<1>5. CASE Collect
  <2>1. PICK r, fresh : Taken(r, fresh)
    BY <1>0, <1>5, CollectTakes DEF TaskInv
  <2>2. task' \in Tasks /\ visited' \in 0 .. Len(NodeOrder)
    BY <1>0, <2>1 DEF Taken, Tasks, TaskTypeOK
  <2> QED
    BY <1>0, <1>5, <2>1, <2>2 DEF Taken, Collect, TaskTypeOK, WriterTypeOK
<1>6. CASE Write
  <2>1. /\ task' \in Tasks /\ visited' = visited /\ UNCHANGED <<now, nodes, overran>>
        /\ batch' \in [Seconds -> Seq(Line)] /\ dropped' \in SUBSET Line
        /\ UNCHANGED <<lastSecond, written>> /\ firstWrite' \in BOOLEAN /\ out' = TRUE
    <3>1. out' = TRUE
      BY <1>6 DEF Write
    <3>2. CASE batch' = batch /\ dropped' = dropped /\ firstWrite' \in BOOLEAN /\ task' = "lines"
      BY <1>0, <1>6, <3>1, <3>2, WriteFinds DEF TaskTypeOK, Tasks
    <3>3. CASE /\ batch' = Others /\ dropped' = dropped \cup ToSet(batch[Second])
               /\ task' = IF Pending' = {} THEN "sleep" ELSE "write"
               /\ firstWrite' = firstWrite
      <4>1. Pending # {} /\ UNCHANGED <<now, nodes, visited, lastSecond, written, overran>>
        BY <1>6, WriteFinds
      <4>2. batch' \in [Seconds -> Seq(Line)] /\ batch[Second] \in Seq(Line)
        BY <1>0, <3>3, <4>1, OthersRemain, SecondIsFirst DEF TaskTypeOK
      <4>3. ToSet(batch[Second]) \subseteq Line
        BY <4>2 DEF ToSet
      <4> QED
        BY <1>0, <3>1, <3>3, <4>1, <4>2, <4>3 DEF TaskTypeOK, WriterTypeOK, Tasks
    <3> QED
      BY <1>6, <3>2, <3>3, WriteFinds
  <2> QED
    BY <1>0, <2>1 DEF TaskTypeOK, WriterTypeOK
<1>7. CASE WriteLines
  <2>1. Pending # {}
    BY <1>7 DEF WriteLines, TaskInv, PhaseInv
  <2>2. Second \in Seconds /\ Second \in -1 .. MaxTime
    BY <1>0, <2>1, SecondIsFirst DEF Seconds
  <2>3. batch' \in [Seconds -> Seq(Line)] /\ batch[Second] \in Seq(Line)
    BY <1>0, <1>7, <2>1, <2>2, OthersRemain DEF TaskTypeOK, WriteLines
  <2>4. ToSet(batch[Second]) \subseteq Line
    BY <2>3 DEF ToSet
  <2>5. task' \in Tasks
    BY <1>7 DEF WriteLines, WriteOrSleep, Tasks
  <2>6. /\ UNCHANGED <<now, nodes, visited, out, firstWrite, past>>
        /\ lastSecond' = Second /\ written' = written \cup ToSet(batch[Second])
    BY <1>7 DEF WriteLines
  <2> QED
    BY <1>0, <2>2, <2>3, <2>4, <2>5, <2>6 DEF TaskTypeOK, WriterTypeOK
<1>8. CASE Wake
  BY <1>0, <1>8 DEF Wake, TaskTypeOK, WriterTypeOK, Tasks
<1>9. CASE Crash
  <2>1. NoLines \in [Seconds -> Seq(Line)]
    BY EmptySeq DEF NoLines
  <2>2. /\ -1 \in -1 .. MaxTime /\ 0 \in 0 .. Len(NodeOrder)
        /\ [r \in Resources |-> -1] \in [Resources -> -1 .. MaxTime]
    BY <1>0
  <2>3. TaskTypeOK'
    BY <1>0, <1>9, <2>1, <2>2 DEF Crash, TaskTypeOK, Tasks
  <2>4. WriterTypeOK'
    BY <1>0, <1>9, <2>2 DEF Crash, WriterTypeOK
  <2> QED
    BY <2>3, <2>4
<1> QED
  BY <1>1, <1>2, <1>3, <1>4, <1>5, <1>6, <1>7, <1>8, <1>9, StepsOfTask

-----------------------------------------------------------------------------
(***************************************************************************)
(* The map and the nodes.                                                  *)
(***************************************************************************)
\* An appended line is the last one.
LEMMA AppendedLine ==
  ASSUME NEW q \in Seq(Line), NEW l \in Line, NEW i \in 1 .. Len(Append(q, l))
  PROVE  \/ i \in 1 .. Len(q) /\ Append(q, l)[i] = q[i]
         \/ i = Len(q) + 1 /\ Append(q, l)[i] = l
BY AppendProperties

\* Lines in the map stay under their second, of a second that is over.
LEMMA NextBatch == TaskInv /\ [Next]_vars => BatchInv'
<1> SUFFICES ASSUME TaskInv, [Next]_vars PROVE BatchInv'
  OBVIOUS
<1> USE DEF nodes, round, writer, disk, past
<1>0. TaskTypeOK /\ BatchInv /\ Seconds \subseteq Nat /\ now \in Nat
  BY SecondsAreNat DEF TaskInv, TaskTypeOK
<1>1. CASE UNCHANGED logVars
  BY <1>0, <1>1 DEF logVars, BatchInv, Pending
<1>2. CASE Tick
  <2>1. batch' = batch /\ Pending' = Pending /\ now' = now + 1 /\ Pending \subseteq Nat
    BY <1>0, <1>2 DEF Tick, Pending
  <2> QED
    BY <1>0, <2>1 DEF BatchInv
<1>3. CASE Initialize \/ Wake \/ \E r \in Resources : Record(r)
  BY <1>0, <1>3 DEF Initialize, Wake, Record, BatchInv, Pending
<1>4. CASE Collect
  <2>1. PICK r, fresh : Taken(r, fresh)
    BY <1>0, <1>4, CollectTakes DEF TaskInv
  <2>2. now' = now
    BY <1>4 DEF Collect
  <2> SUFFICES ASSUME NEW s \in Pending'
               PROVE  s < now /\ \A i \in 1 .. Len(batch'[s]) : batch'[s][i].second = s
    BY <2>2 DEF BatchInv
  <2>3. s \in Seconds /\ (s \in fresh \/ s \in Pending)
    BY <2>1 DEF Taken, Pending
  <2>4. s < now
    BY <1>0, <2>1, <2>3 DEF Taken, Fresh, IsNodeInTime, BatchInv
  <2> DEFINE l == [second |-> s, resource |-> r]
  <2>5. l \in Line /\ l.second = s /\ batch[s] \in Seq(Line)
    BY <1>0, <2>1, <2>3 DEF Taken, Line, TaskTypeOK
  <2>6. \A i \in 1 .. Len(batch[s]) : batch[s][i].second = s
    <3>1. s \notin Pending => batch[s] = <<>>
      BY <2>3 DEF Pending
    <3>2. s \notin Pending => 1 .. Len(batch[s]) = {}
      BY <3>1, EmptySeq
    <3> QED
      BY <1>0, <3>2 DEF BatchInv
  <2>7. batch'[s] = IF s \in fresh THEN Append(batch[s], l) ELSE batch[s]
    BY <2>1, <2>3 DEF Taken
  <2> HIDE DEF l
  <2>8. \A i \in 1 .. Len(batch'[s]) : batch'[s][i].second = s
    BY <2>5, <2>6, <2>7, AppendedLine
  <2> QED
    BY <2>4, <2>8
<1>5. CASE Write \/ WriteLines
  <2>1. Pending # {} /\ now' = now /\ (batch' = batch \/ batch' = Others)
    BY <1>5, WriteFinds DEF WriteLines, TaskInv, PhaseInv
  <2>2. CASE batch' = batch
    BY <1>0, <2>1, <2>2 DEF BatchInv, Pending
  <2>3. CASE batch' = Others
    BY <1>0, <2>1, <2>3, OthersRemain DEF BatchInv
  <2> QED
    BY <2>1, <2>2, <2>3
<1>6. CASE Crash
  BY <1>6 DEF Crash, BatchInv, Pending, NoLines
<1> QED
  BY <1>1, <1>2, <1>3, <1>4, <1>5, <1>6, StepsOfTask

\* The places of the loop.
LEMMA NextPhase == TaskInv /\ [Next]_vars => PhaseInv'
<1> SUFFICES ASSUME TaskInv, [Next]_vars PROVE PhaseInv'
  OBVIOUS
<1> USE DEF nodes, round, writer, disk, past
<1>0. /\ TaskTypeOK /\ PhaseInv /\ Seconds \subseteq Nat /\ now \in Nat
      /\ out \in BOOLEAN /\ (task # "off" => lastSecond \in 0 .. now)
  BY SecondsAreNat DEF TaskInv, TaskTypeOK, WriterTypeOK, PhaseInv
<1>1. CASE UNCHANGED logVars
  BY <1>0, <1>1 DEF logVars, PhaseInv, Pending, Second
<1>2. CASE Tick
  <2>1. /\ Pending' = Pending /\ Second' = Second /\ now' = now + 1
        /\ task' = (IF task = "sleep" THEN "due" ELSE task)
        /\ UNCHANGED <<nodes, visited, writer>>
    BY <1>2 DEF Tick, Pending, Second
  <2> QED
    BY <1>0, <2>1 DEF PhaseInv
<1>3. ASSUME NEW r \in Resources, Record(r)
      PROVE  PhaseInv'
  <2>1. Pending' = Pending /\ Second' = Second /\ now' = now /\ task # "off"
        /\ UNCHANGED <<task, visited, writer>>
    BY <1>3 DEF Record, Pending, Second
  <2> QED
    BY <1>0, <2>1 DEF PhaseInv
<1>4. CASE Initialize
  <2>1. /\ Pending' = Pending /\ now' = now /\ task = "off" /\ task' = "collect"
        /\ lastSecond' = now
    BY <1>4 DEF Initialize, Pending
  <2> QED
    BY <1>0, <2>1 DEF PhaseInv
<1>5. CASE Collect
  <2>1. PICK r, fresh : Taken(r, fresh)
    BY <1>0, <1>5, CollectTakes DEF TaskInv
  <2>2. now' = now /\ lastSecond' = lastSecond /\ task = "collect" /\ out' = out
    BY <1>5 DEF Collect
  <2> QED
    BY <1>0, <2>1, <2>2 DEF Taken, PhaseInv
<1>6. CASE Write
  <2>1. /\ task = "write" /\ Pending # {} /\ out' = TRUE
        /\ UNCHANGED <<now, nodes, visited, lastSecond>>
    BY <1>6, WriteFinds DEF Write
  <2>2. CASE task' = (IF Pending' = {} THEN "sleep" ELSE "write")
    BY <1>0, <2>1, <2>2 DEF PhaseInv
  <2>3. CASE task' = "lines" /\ lastSecond <= Second /\ batch' = batch
    <3>1. Pending' = Pending /\ Second' = Second
      BY <2>3 DEF Pending, Second
    <3> QED
      BY <1>0, <2>1, <2>3, <3>1 DEF PhaseInv
  <2> QED
    BY <1>6, <2>2, <2>3, WriteFinds
<1>7. CASE WriteLines
  <2>1. /\ task = "lines" /\ UNCHANGED <<now, nodes, visited, out>> /\ lastSecond' = Second
        /\ task' = (IF Pending' = {} THEN "sleep" ELSE "write")
    BY <1>7 DEF WriteLines, WriteOrSleep
  <2>2. Second \in Pending /\ Second \in Nat
    BY <1>0, <2>1, SecondIsFirst DEF PhaseInv
  <2>3. Second \in 0 .. now
    BY <1>0, <2>2 DEF TaskInv, BatchInv
  <2> QED
    BY <1>0, <2>1, <2>3 DEF PhaseInv
<1>8. CASE Wake
  <2>1. /\ Pending' = Pending /\ now' = now /\ task \in {"sleep", "due"}
        /\ task' \in {"ended", "collect"} /\ UNCHANGED <<nodes, visited, writer>>
    BY <1>8 DEF Wake, Pending
  <2> QED
    BY <1>0, <2>1 DEF PhaseInv
<1>9. CASE Crash
  <2>1. Pending' = {}
    BY <1>9 DEF Crash, Pending, NoLines
  <2> QED
    BY <1>9, <2>1 DEF Crash, PhaseInv
<1> QED
  BY <1>1, <1>2, <1>3, <1>4, <1>5, <1>6, <1>7, <1>8, <1>9, StepsOfTask

\* The nodes' seconds are not to come, and what they have handed out is over.
LEMMA NextNodes == TaskInv /\ [Next]_vars => NodesInv'
<1> SUFFICES ASSUME TaskInv, [Next]_vars, NEW q \in Resources
             PROVE  (lastFetch[q] < now /\ \A s \in buckets[q] : s <= now)'
  BY DEF NodesInv
<1> USE DEF nodes, round, writer, disk, past
<1>0. /\ TaskTypeOK /\ Seconds \subseteq Nat /\ now \in Nat /\ 0 <= now
      /\ lastFetch[q] \in Int /\ buckets[q] \subseteq Nat
      /\ lastFetch[q] < now /\ \A s \in buckets[q] : s <= now
  <2>1. TaskTypeOK /\ NodesInv /\ Seconds \subseteq Nat /\ MaxTime \in Nat
    BY SecondsAreNat DEF TaskInv
  <2>2. now \in Nat /\ lastFetch[q] \in -1 .. MaxTime /\ buckets[q] \subseteq Nat
    BY <2>1 DEF TaskTypeOK
  <2> QED
    BY <2>1, <2>2 DEF NodesInv
<1>1. CASE UNCHANGED logVars \/ Initialize \/ Write \/ WriteLines \/ Wake
  BY <1>0, <1>1 DEF logVars, Initialize, Write, WriteLines, Wake
<1>2. CASE Tick
  BY <1>0, <1>2 DEF Tick
<1>3. ASSUME NEW r \in Resources, Record(r)
      PROVE  (lastFetch[q] < now /\ \A s \in buckets[q] : s <= now)'
  BY <1>0, <1>3 DEF Record, TaskTypeOK
<1>4. CASE Collect
  <2>1. PICK r, fresh : Taken(r, fresh)
    BY <1>0, <1>4, CollectTakes DEF TaskInv
  <2> QED
    BY <1>0, <1>4, <2>1 DEF Taken, Collect
<1>5. CASE Crash
  BY <1>0, <1>5 DEF Crash
<1> QED
  BY <1>1, <1>2, <1>3, <1>4, <1>5, StepsOfTask

\* Before the first write all seconds are as young as the writer.
LEMMA NextYoung == TaskInv /\ [Next]_vars => YoungInv'
<1> SUFFICES ASSUME TaskInv, [Next]_vars, (task # "off" /\ ~out)'
             PROVE  /\ \A r \in Resources : \A s \in buckets'[r] : lastSecond' <= s
                    /\ \A s \in Pending' : lastSecond' <= s
  BY DEF YoungInv
<1> USE DEF nodes, round, writer, disk, past
<1>0. /\ TaskTypeOK /\ PhaseInv /\ Seconds \subseteq Nat /\ now \in Nat
      /\ (task # "off" => lastSecond \in 0 .. now)
  BY SecondsAreNat DEF TaskInv, TaskTypeOK, PhaseInv
<1>1. CASE UNCHANGED logVars \/ Tick \/ Wake
  BY <1>1 DEF logVars, Tick, Wake, TaskInv, YoungInv, Pending
<1>2. ASSUME NEW r \in Resources, Record(r)
      PROVE  /\ \A q \in Resources : \A s \in buckets'[q] : lastSecond' <= s
             /\ \A s \in Pending' : lastSecond' <= s
  <2>1. /\ task # "off" /\ task' = task /\ out' = out /\ lastSecond' = lastSecond
        /\ Pending' = Pending /\ lastSecond <= now
    BY <1>0, <1>2 DEF Record, Pending
  <2>2. \A q \in Resources : buckets'[q] \subseteq buckets[q] \cup {now}
    BY <1>0, <1>2 DEF Record, TaskTypeOK
  <2> QED
    BY <2>1, <2>2 DEF TaskInv, YoungInv
<1>3. CASE Initialize
  BY <1>0, <1>3 DEF Initialize, PhaseInv, Pending
<1>4. CASE Collect
  <2>1. PICK r, fresh : Taken(r, fresh)
    BY <1>0, <1>4, CollectTakes DEF TaskInv
  <2>2. /\ task # "off" /\ out' = out /\ lastSecond' = lastSecond /\ buckets' = buckets
        /\ fresh \subseteq buckets[r] /\ r \in Resources /\ Pending' = Pending \cup fresh
    BY <1>4, <2>1 DEF Taken, Collect, Fresh
  <2> QED
    BY <2>2 DEF TaskInv, YoungInv
<1>5. CASE Write
  BY <1>5, WriteFinds
<1>6. CASE WriteLines
  <2>1. out
    BY <1>0, <1>6 DEF WriteLines, PhaseInv
  <2> QED
    BY <1>6, <2>1 DEF WriteLines
<1>7. CASE Crash
  BY <1>7 DEF Crash
<1> QED
  BY <1>1, <1>2, <1>3, <1>4, <1>5, <1>6, <1>7, StepsOfTask

\* The task's invariant holds at the start.
LEMMA InitTaskInv == Init => TaskInv
<1> SUFFICES ASSUME Init PROVE TaskInv
  OBVIOUS
<1> USE DEF Init
<1>0. Seconds \subseteq Nat /\ MaxTime \in Nat /\ 0 \in Seconds /\ Len(NodeOrder) \in Nat
  BY SecondsAreNat, MetricLogAssumption DEF Seconds
<1>1. Pending = {}
  BY DEF Pending, NoLines
<1>2. TaskTypeOK
  <2>1. NoLines \in [Seconds -> Seq(Line)]
    BY EmptySeq DEF NoLines
  <2>2. -1 \in -1 .. MaxTime /\ 0 \in 0 .. Len(NodeOrder)
    BY <1>0
  <2> QED
    BY <1>0, <2>1, <2>2 DEF TaskTypeOK, Tasks
<1>3. WriterTypeOK
  <2>1. -1 \in -1 .. MaxTime
    BY <1>0
  <2> QED
    BY <2>1 DEF WriterTypeOK
<1>4. BatchInv /\ PhaseInv /\ NodesInv /\ YoungInv
  BY <1>1 DEF BatchInv, PhaseInv, NodesInv, YoungInv
<1> QED
  BY <1>2, <1>3, <1>4 DEF TaskInv

\* Every step keeps the task's invariant.
LEMMA NextTaskInv == TaskInv /\ [Next]_vars => TaskInv'
BY NextTypes, NextBatch, NextPhase, NextNodes, NextYoung DEF TaskInv

\* A line is collected once: the map's lines are not yet written, and no line
\* that was written is to be fetched.
LEMMA NextFetch == TaskInv /\ LogInv /\ FetchInv /\ [Next]_vars => FetchInv'
<1> SUFFICES ASSUME TaskInv, LogInv, FetchInv, [Next]_vars PROVE FetchInv'
  OBVIOUS
<1> USE DEF nodes, round, writer, disk, past
<1>0. /\ TaskTypeOK /\ WriterTypeOK /\ PhaseInv /\ Seconds \subseteq Nat
      /\ lastFetch \in [Resources -> -1 .. MaxTime] /\ buckets \in [Resources -> SUBSET Seconds]
      /\ \A l \in written : l.second < now /\ l.resource \in Resources
  BY SecondsAreNat DEF TaskInv, TaskTypeOK, WriterTypeOK, LogInv, Line
<1>1. CASE UNCHANGED logVars \/ Tick \/ Initialize \/ Wake
  <2>1. UNCHANGED <<nodes, batch, written>> /\ Pending' = Pending
    BY <1>1 DEF logVars, Tick, Initialize, Wake, Pending
  <2> QED
    BY <2>1 DEF FetchInv, Unfetched
<1>2. ASSUME NEW r \in Resources, Record(r)
      PROVE  FetchInv'
  <2>1. UNCHANGED <<lastFetch, batch, written>> /\ Pending' = Pending
    BY <1>2 DEF Record, Pending
  <2>2. \A q \in Resources : buckets'[q] \subseteq buckets[q] \cup {now}
    BY <1>0, <1>2 DEF Record
  <2>3. \A l \in written : l.second \notin Unfetched(l.resource)'
    <3> SUFFICES ASSUME NEW l \in written, l.second \in Unfetched(l.resource)'
                 PROVE  FALSE
      OBVIOUS
    <3>1. l.resource \in Resources /\ l.second # now
      <4>1. l.second \in Nat /\ now \in Nat
        BY <1>0, SecondsAreNat DEF TaskTypeOK, WriterTypeOK, Line
      <4> QED
        BY <1>0, <4>1
    <3>2. l.second \in buckets[l.resource]
      BY <2>2, <3>1 DEF Unfetched
    <3>3. l.second \in Unfetched(l.resource)
      BY <2>1, <3>2 DEF Unfetched
    <3> QED
      BY <3>3 DEF FetchInv
  <2> QED
    BY <2>1, <2>3 DEF FetchInv
<1>3. CASE Collect
  <2>1. PICK r, fresh : Taken(r, fresh)
    BY <1>0, <1>3, CollectTakes DEF TaskInv
  <2>2. written' = written /\ buckets' = buckets
    BY <1>3 DEF Collect
  <2>3. /\ r \in Resources /\ lastFetch'[r] \in Int
        /\ \A q \in Resources : /\ lastFetch[q] \in Int /\ lastFetch'[q] \in Int
                                /\ lastFetch[q] <= lastFetch'[q]
    <3>1. \A q \in Resources : lastFetch[q] \in Int /\ lastFetch'[q] \in Int
      BY <1>0, <2>1, SecondsAreNat DEF Taken
    <3> QED
      BY <2>1, <3>1 DEF Taken
  <2>4. \A l \in written : l.second \notin Unfetched(l.resource)'
    <3>1. \A q \in Resources : Unfetched(q)' \subseteq Unfetched(q)
      <4>1. \A q \in Resources : buckets[q] \subseteq Nat
        BY <1>0
      <4> QED
        BY <2>2, <2>3, <4>1 DEF Unfetched
    <3> QED
      BY <1>0, <3>1 DEF FetchInv
  <2>5. ASSUME NEW s \in Pending'
        PROVE  \A i \in 1 .. Len(batch'[s]) :
                 /\ s <= lastFetch'[batch'[s][i].resource] /\ batch'[s][i] \notin written
                 /\ \A j \in 1 .. Len(batch'[s]) : i # j => batch'[s][i] # batch'[s][j]
    <3> DEFINE l == [second |-> s, resource |-> r]
    <3>1. /\ s \in Seconds /\ s \in Nat /\ batch[s] \in Seq(Line) /\ l \in Line
          /\ l.second = s /\ l.resource = r
          /\ batch'[s] = IF s \in fresh THEN Append(batch[s], l) ELSE batch[s]
      BY <1>0, <2>1 DEF Taken, TaskTypeOK, Line, Pending
    <3>2. \A i \in 1 .. Len(batch[s]) :
            /\ batch[s][i].resource \in Resources
            /\ s <= lastFetch[batch[s][i].resource] /\ batch[s][i] \notin written
            /\ \A j \in 1 .. Len(batch[s]) : i # j => batch[s][i] # batch[s][j]
      <4>1. s \notin Pending => 1 .. Len(batch[s]) = {}
        BY <3>1, EmptySeq DEF Pending
      <4>2. \A i \in 1 .. Len(batch[s]) : batch[s][i].resource \in Resources
        <5>1. \A i \in 1 .. Len(batch[s]) : batch[s][i] \in Line
          BY <3>1
        <5> QED
          BY <5>1 DEF Line
      <4> QED
        BY <4>1, <4>2 DEF FetchInv
    <3>3. \A i \in 1 .. Len(batch[s]) : s <= lastFetch'[batch[s][i].resource]
      BY <2>3, <3>1, <3>2
    <3>4. CASE s \notin fresh
      BY <3>1, <3>2, <3>3, <3>4
    <3>5. CASE s \in fresh
      <4>1. s \in Unfetched(r) /\ s <= lastFetch'[r] /\ s > lastFetch[r]
        BY <2>1, <3>5 DEF Taken, Fresh, IsNodeInTime, Unfetched
      <4>2. l \notin written
        BY <3>1, <4>1 DEF FetchInv
      <4>3. \A i \in 1 .. Len(batch[s]) : batch[s][i] # l
        BY <2>3, <3>1, <3>2, <4>1
      <4> HIDE DEF l
      <4>4. batch'[s] = Append(batch[s], l)
        BY <3>1, <3>5
      <4>5. \A i \in 1 .. Len(batch'[s]) :
              \/ i \in 1 .. Len(batch[s]) /\ batch'[s][i] = batch[s][i]
              \/ i = Len(batch[s]) + 1 /\ batch'[s][i] = l
        BY <3>1, <4>4, AppendedLine
      <4>6. \A i \in 1 .. Len(batch'[s]) :
              s <= lastFetch'[batch'[s][i].resource] /\ batch'[s][i] \notin written
        BY <3>1, <3>2, <3>3, <4>1, <4>2, <4>5
      <4>7. \A i, j \in 1 .. Len(batch'[s]) : i # j => batch'[s][i] # batch'[s][j]
        BY <3>2, <4>3, <4>5
      <4> QED
        BY <4>6, <4>7
    <3> QED
      BY <3>4, <3>5
  <2> QED
    BY <2>2, <2>4, <2>5 DEF FetchInv
<1>4. CASE Write
  <2>1. UNCHANGED <<nodes, written>> /\ Pending # {} /\ (batch' = batch \/ batch' = Others)
    BY <1>4, WriteFinds DEF TaskInv
  <2>2. \A s \in Pending' : s \in Pending /\ batch'[s] = batch[s]
    <3>1. CASE batch' = batch
      BY <3>1 DEF Pending
    <3>2. CASE batch' = Others
      BY <1>0, <2>1, <3>2, OthersRemain
    <3> QED
      BY <2>1, <3>1, <3>2
  <2> QED
    BY <2>1, <2>2 DEF FetchInv, Unfetched
<1>5. CASE WriteLines
  <2>1. /\ task = "lines" /\ UNCHANGED nodes /\ batch' = Others
        /\ written' = written \cup ToSet(batch[Second])
    BY <1>5 DEF WriteLines
  <2>2. /\ Pending # {} /\ Second \in Pending
        /\ \A s \in Pending' : s \in Pending /\ s # Second /\ batch'[s] = batch[s]
    BY <1>0, <2>1, OthersRemain, SecondIsFirst DEF PhaseInv
  <2>3. \A l \in ToSet(batch[Second]) :
          l.second = Second /\ l.resource \in Resources /\ l.second <= lastFetch[l.resource]
    <3>1. batch[Second] \in Seq(Line)
      BY <1>0, <2>2, SecondIsFirst DEF TaskTypeOK
    <3>2. \A i \in 1 .. Len(batch[Second]) :
            /\ batch[Second][i] \in Line /\ batch[Second][i].second = Second
            /\ Second <= lastFetch[batch[Second][i].resource]
      BY <2>2, <3>1 DEF TaskInv, BatchInv, FetchInv
    <3> QED
      BY <3>1, <3>2 DEF ToSet, Line
  <2>4. \A l \in written' : l.second \notin Unfetched(l.resource)'
    <3> SUFFICES ASSUME NEW l \in written' PROVE l.second \notin Unfetched(l.resource)
      BY <2>1 DEF Unfetched
    <3>1. CASE l \in written
      BY <3>1 DEF FetchInv
    <3>2. CASE l \in ToSet(batch[Second])
      <4>1. Second \in Nat /\ lastFetch[l.resource] \in Int
        BY <1>0, <2>2, <2>3, <3>2, SecondIsFirst, SecondsAreNat
      <4> QED
        BY <2>3, <3>2, <4>1 DEF Unfetched
    <3> QED
      BY <2>1, <3>1, <3>2
  <2>5. ASSUME NEW s \in Pending', NEW i \in 1 .. Len(batch[s])
        PROVE  batch[s][i] \notin written'
    <3>1. batch[s][i].second = s /\ batch[s][i] \notin written
      BY <2>2 DEF TaskInv, BatchInv, FetchInv
    <3> QED
      BY <2>1, <2>2, <2>3, <3>1
  <2> QED
    BY <2>1, <2>2, <2>4, <2>5 DEF FetchInv
<1>6. CASE Crash
  <2>1. Pending' = {} /\ \A q \in Resources : buckets'[q] = {}
    BY <1>6 DEF Crash, Pending, NoLines
  <2>2. written' = written
    BY <1>6 DEF Crash
  <2>3. \A l \in written : l.second \notin Unfetched(l.resource)'
    BY <1>0, <2>1 DEF Unfetched
  <2> QED
    BY <2>1, <2>2, <2>3 DEF FetchInv
<1> QED
  BY <1>1, <1>2, <1>3, <1>4, <1>5, <1>6, StepsOfTask

-----------------------------------------------------------------------------
(***************************************************************************)
(* The files.                                                              *)
(***************************************************************************)
LEMMA EdgeTypes ==
  ASSUME TaskInv
  PROVE  Edge \in Nat /\ Edge <= now /\ now \in Nat
<1>1. now \in Nat
  BY SecondsAreNat DEF TaskInv, TaskTypeOK
<1>2. CASE task = "off"
  BY <1>1, <1>2 DEF Edge
<1>3. CASE task = "lines"
  BY <1>1, <1>3, SecondIsFirst DEF Edge, TaskInv, PhaseInv, BatchInv
<1>4. CASE task \notin {"off", "lines"}
  BY <1>1, <1>4 DEF Edge, TaskInv, PhaseInv
<1> QED
  BY <1>1, <1>2, <1>3, <1>4

\* What WriteLines does: to the files, perhaps closed at midnight, the lines of
\* the map's first second are added, and the last file is closed if it is full.
LinesGo(fs, more) ==
  /\ fs = files \/ fs = CloseAndNewFile(files, Second)
  /\ Good(files, Second, written) /\ Good(fs, Second, written) /\ fs # <<>>
  /\ more = [fs EXCEPT ![Len(fs)].lines = @ \o batch[Second]]
  /\ Good(more, Second, written') /\ more # <<>>
  /\ files' = more \/ files' = CloseAndNewFile(more, Second)
  /\ batch[Second] \in Seq(Line) /\ Second \in Nat
  /\ \A l \in ToSet(batch[Second]) : l.second = Second /\ l \notin written
  /\ \A l \in written : l.second <= Second
  /\ written' = written \cup ToSet(batch[Second])
  /\ \A l \in written' : l.second < now /\ l.second <= Second
  /\ task' \in {"sleep", "write"} /\ lastSecond' = Second

\* WriteLines appends the batch of its second to the file that is the last then.
LEMMA WriteLinesFinds ==
  ASSUME TaskInv, LogInv, FetchInv, WriteLines
  PROVE  \E fs, more : LinesGo(fs, more)
<1> DEFINE ls == batch[Second]
           fs == IF IsNewDay(lastSecond, Second)
                 THEN CloseAndNewFile(files, Second) ELSE files
           more == [fs EXCEPT ![Len(fs)].lines = @ \o ls]
<1>0. /\ TaskTypeOK /\ PhaseInv /\ Edge \in Nat /\ now \in Nat
      /\ Good(files, Edge, written)
      /\ \A l \in written : l.second < now /\ l.second <= Edge /\ l.second \in Nat
  BY EdgeTypes, SecondsAreNat DEF TaskInv, LogInv, WriterTypeOK, Line
<1>1. /\ task = "lines" /\ lastSecond' = Second
      /\ written' = written \cup ToSet(ls) /\ task' \in {"sleep", "write"}
      /\ files' = more \/ files' = CloseAndNewFile(more, Second)
  BY DEF WriteLines, WriteOrSleep, DoWrite
<1>2. Pending # {} /\ Second \in Pending /\ Second \in Nat /\ Edge = Second /\ out
  BY <1>0, <1>1, SecondIsFirst DEF PhaseInv, Edge
<1>3. ls \in Seq(Line)
  BY <1>0, <1>2, SecondIsFirst DEF TaskTypeOK
<1>4. \A a \in 1 .. Len(ls) :
        /\ ls[a].second = Second /\ ls[a] \notin written
        /\ \A b \in 1 .. Len(ls) : a # b => ls[a] # ls[b]
  BY <1>2 DEF TaskInv, BatchInv, FetchInv
<1>5. \A l \in ToSet(ls) : l.second = Second /\ l \notin written
  BY <1>3, <1>4 DEF ToSet
<1>6. (fs = files \/ fs = CloseAndNewFile(files, Second))
      /\ Good(files, Second, written) /\ Good(fs, Second, written) /\ fs # <<>>
  BY <1>0, <1>2, GoodClose DEF LogInv
<1>7. \A l \in written' : l.second < now /\ l.second <= Second
  <2>1. Second < now /\ Second <= Second
    BY <1>2 DEF TaskInv, BatchInv
  <2> QED
    BY <1>0, <1>1, <1>2, <1>5, <2>1
<1>8. \A l \in written : l.second <= Second
  BY <1>0, <1>2
<1> HIDE DEF ls, fs
<1>9. Good(more, Second, written') /\ more # <<>>
  <2>1. more = [fs EXCEPT ![Len(fs)].lines = @ \o ls]
    OBVIOUS
  <2> HIDE DEF more
  <2>2. Good(more, Second, written \cup ToSet(ls)) /\ more # <<>>
    BY ONLY <1>2, <1>3, <1>4, <1>6, <1>8, <2>1, GoodAppend
  <2> QED
    BY ONLY <1>1, <2>2
<1>10. LinesGo(fs, more)
  BY <1>1, <1>2, <1>3, <1>5, <1>6, <1>7, <1>8, <1>9 DEF LinesGo, ls
<1> QED
  BY <1>10

\* The files stay good, and nothing in them is younger than the edge.
LEMMA NextLog == TaskInv /\ LogInv /\ FetchInv /\ [Next]_vars => LogInv'
<1> SUFFICES ASSUME TaskInv, LogInv, FetchInv, [Next]_vars PROVE LogInv'
  OBVIOUS
<1> USE DEF nodes, round, writer, disk, past
<1>0. /\ TaskTypeOK /\ PhaseInv /\ WriterTypeOK /\ Edge \in Nat /\ Edge <= now /\ now \in Nat
      /\ Good(files, Edge, written)
      /\ \A l \in written : l.second < now /\ l.second <= Edge /\ l.second \in Nat
  BY EdgeTypes, SecondsAreNat DEF TaskInv, LogInv, WriterTypeOK, Line
\* Where files and written stay, it is the edge that matters.
<1>1. ASSUME files' = files, written' = written, now' \in Nat, now <= now',
             Edge' \in Nat, Edge <= Edge', out' => out
      PROVE  LogInv'
  <2>1. Good(files, Edge', written)
    BY <1>0, <1>1, GoodLater
  <2>2. \A l \in written : l.second < now' /\ l.second <= Edge'
    BY <1>0, <1>1
  <2> QED
    BY <1>1, <2>1, <2>2 DEF LogInv
<1>2. CASE UNCHANGED logVars \/ \E r \in Resources : Record(r)
  <2>1. UNCHANGED <<now, files, written, out, batch, task, lastSecond>>
    BY <1>2 DEF logVars, Record
  <2>2. Edge' = Edge
    BY <2>1 DEF Edge, Second, Pending
  <2> QED
    BY <1>0, <1>1, <2>1, <2>2
<1>3. CASE Tick
  <2>1. UNCHANGED <<files, written, out, batch, lastSecond>> /\ now' = now + 1
        /\ task' = IF task = "sleep" THEN "due" ELSE task
    BY <1>3 DEF Tick
  <2>2. Edge' = IF task = "off" THEN now + 1 ELSE Edge
    BY <2>1 DEF Edge, Second, Pending
  <2>3. task = "off" => Edge = now
    BY DEF Edge
  <2> QED
    BY <1>0, <1>1, <2>1, <2>2, <2>3
<1>4. CASE Initialize
  <2>1. UNCHANGED <<now, files, written, out>> /\ task = "off" /\ task' = "collect"
        /\ lastSecond' = now
    BY <1>4 DEF Initialize
  <2>2. Edge' = now
    BY <2>1 DEF Edge
  <2> QED
    BY <1>0, <1>1, <2>1, <2>2
<1>5. CASE Collect \/ Wake
  <2>1. UNCHANGED <<now, files, written, out, lastSecond>>
        /\ task \notin {"off", "lines"} /\ task' \notin {"off", "lines"}
    BY <1>5 DEF Collect, Wake, WriteOrSleep
  <2>2. Edge' = Edge
    BY <2>1 DEF Edge
  <2> QED
    BY <1>0, <1>1, <2>1, <2>2
<1>6. CASE Crash
  <2>1. UNCHANGED <<now, files, written>> /\ task' = "off" /\ out' = FALSE
    BY <1>6 DEF Crash
  <2>2. Edge' = now
    BY <2>1 DEF Edge
  <2> QED
    BY <1>0, <1>1, <2>1, <2>2
<1>7. CASE Write
  <2>1. /\ task = "write" /\ Pending # {} /\ out' /\ Edge = lastSecond
        /\ UNCHANGED <<now, lastSecond, written>>
    BY <1>7, WriteFinds DEF Edge
  <2>2. CASE files' = files /\ out /\ task' = IF Pending' = {} THEN "sleep" ELSE "write"
    <3>1. Edge' = Edge
      BY <2>1, <2>2 DEF Edge
    <3> QED
      BY <1>0, <1>1, <2>1, <2>2, <3>1
  <2>3. ASSUME lastSecond <= Second, task' = "lines", batch' = batch,
               NEW fs, fs = IF out THEN files ELSE CloseAndNewFile(files, Second),
               files' = fs \/ files' = WriteIndex(fs, Second)
        PROVE  LogInv'
    <3>1. Second \in Nat /\ Edge' = Second
      BY <2>1, <2>3, SecondIsFirst DEF Edge, Second, Pending
    <3>2. Good(files, Second, written)
      BY <1>0, <2>1, <2>3, <3>1, GoodLater
    <3>3. Good(fs, Second, written) /\ fs # <<>>
      BY <2>3, <3>1, <3>2, GoodClose DEF LogInv
    <3>4. \A l \in written : l.second <= Second
      BY <1>0, <2>1, <2>3, <3>1
    <3>5. Good(files', Second, written) /\ files' # <<>>
      BY <2>3, <3>1, <3>3, <3>4, GoodIndex
    <3> QED
      BY <1>0, <2>1, <3>1, <3>4, <3>5 DEF LogInv
  <2> QED
    BY <1>7, <2>2, <2>3, WriteFinds
<1>8. CASE WriteLines
  <2>1. PICK fs, more : LinesGo(fs, more)
    BY <1>8, WriteLinesFinds
  <2>2. Edge' = Second /\ Second \in Nat /\ out' = out
        /\ \A l \in written' : l.second < now' /\ l.second <= Second
    BY <1>8, <2>1 DEF LinesGo, Edge, WriteLines
  <2>3. Good(files', Second, written') /\ files' # <<>>
    BY <2>1, GoodClose DEF LinesGo
  <2> QED
    BY <2>2, <2>3 DEF LogInv
<1> QED
  BY <1>2, <1>3, <1>4, <1>5, <1>6, <1>7, <1>8, StepsOfTask

\* The log's invariants hold at the start.
LEMMA InitLog == Init => LogInv /\ FetchInv
<1> SUFFICES ASSUME Init PROVE LogInv /\ FetchInv
  OBVIOUS
<1>1. Pending = {} /\ files = <<>> /\ written = {} /\ out = FALSE
  BY DEF Init, Pending, NoLines
<1>2. <<>> \in Seq(FileRec) /\ 1 .. Len(<<>>) = {}
  BY EmptySeq
<1>3. Good(<<>>, Edge, {})
  BY <1>2 DEF Good, Named, Sorted, Indexed
<1> QED
  BY <1>1, <1>3 DEF LogInv, FetchInv

-----------------------------------------------------------------------------
(***************************************************************************)
(* The rounds.                                                             *)
(***************************************************************************)
\* The types the comparisons below need.
LEMMA RoundTypes ==
  ASSUME TaskInv
  PROVE  /\ now \in Nat /\ (task # "off" => lastSecond \in Nat /\ lastSecond <= now)
         /\ \A r \in Resources :
              Unfetched(r) \subseteq buckets[r] /\ \A s \in Unfetched(r) : s \in Nat
         /\ \A s \in Pending : s \in Nat /\ s < now
         /\ NodeOrder \in Seq(Resources) /\ Len(NodeOrder) \in Nat /\ visited \in Nat
         /\ \A r \in Resources : \E i \in 1 .. Len(NodeOrder) : r = NodeOrder[i]
<1>1. Seconds \subseteq Nat /\ now \in Seconds /\ now \in Nat
  BY SecondsAreNat DEF TaskInv, TaskTypeOK
<1>2. task # "off" => lastSecond \in 0 .. now
  BY DEF TaskInv, PhaseInv
<1>3. \A r \in Resources : buckets[r] \subseteq Nat
  BY <1>1 DEF TaskInv, TaskTypeOK
<1>4. \A s \in Pending : s \in Nat /\ s < now
  BY <1>1 DEF TaskInv, BatchInv, Pending
<1>5. NodeOrder \in Seq(Resources) /\ Len(NodeOrder) \in Nat /\ visited \in Nat
  <2>1. NodeOrder \in Seq(Resources)
    BY MetricLogAssumption
  <2>2. Len(NodeOrder) \in Nat
    BY <2>1
  <2> QED
    BY <2>1, <2>2 DEF TaskInv, TaskTypeOK
<1>6. \A r \in Resources : \E i \in 1 .. Len(NodeOrder) : r = NodeOrder[i]
  BY <1>5 DEF Resources, Range
<1> QED
  BY <1>1, <1>2, <1>3, <1>4, <1>5, <1>6 DEF Unfetched

\* Where what is to be fetched and what is in the map only gets less.
LEMMA FewerRounds ==
  ASSUME TaskInv, RoundsInv, overran' = overran, dropped' = dropped,
         task # "off", lastSecond' = lastSecond, Pending' \subseteq Pending,
         \A r \in Resources : Unfetched(r)' \subseteq Unfetched(r),
         task' = "collect" => visited' = 0,
         task' \in {"write", "lines"} => task \in {"write", "lines"}
  PROVE  RoundsInv'
<1> SUFFICES ASSUME ~overran'
             PROVE  /\ dropped' = {}
                    /\ \A r \in Resources : \A s \in Unfetched(r)' : lastSecond' <= s
                    /\ \A s \in Pending' : lastSecond' <= s
                    /\ task' = "collect" =>
                         \A i \in 1 .. visited' : \A s \in Unfetched(NodeOrder[i])' : now' <= s
                    /\ task' \in {"write", "lines"} =>
                         \A r \in Resources : \A s \in Unfetched(r)' : \A p \in Pending' : p < s
  BY DEF RoundsInv
<1>1. 1 .. 0 = {}
  OBVIOUS
<1> QED
  BY <1>1 DEF RoundsInv

\* Every step keeps the order of the rounds.
LEMMA NextRounds == TaskInv /\ RoundsInv /\ [Next]_vars => RoundsInv'
<1> SUFFICES ASSUME TaskInv, RoundsInv, [Next]_vars PROVE RoundsInv'
  OBVIOUS
<1> USE DEF nodes, round, writer, disk, past
<1>0. /\ TaskTypeOK /\ PhaseInv /\ BatchInv
      /\ lastFetch \in [Resources -> -1 .. MaxTime] /\ buckets \in [Resources -> SUBSET Seconds]
  BY DEF TaskInv, TaskTypeOK
<1>1. CASE UNCHANGED logVars
  BY <1>1 DEF logVars, RoundsInv, Unfetched, Pending
<1>2. CASE Tick
  <2>1. /\ UNCHANGED <<nodes, batch, dropped, lastSecond, visited>> /\ Pending' = Pending
        /\ overran' = (overran \/ task = "collect")
        /\ task' = IF task = "sleep" THEN "due" ELSE task
    BY <1>2 DEF Tick, Pending
  <2> QED
    BY <2>1 DEF RoundsInv, Unfetched
<1>3. ASSUME NEW q \in Resources, Record(q)
      PROVE  RoundsInv'
  <2>1. /\ UNCHANGED <<now, lastFetch, batch, task, visited, lastSecond, past>>
        /\ Pending' = Pending /\ task # "off"
    BY <1>3 DEF Record, Pending
  <2>2. \A r \in Resources : buckets'[r] \subseteq buckets[r] \cup {now}
    BY <1>0, <1>3 DEF Record
  <2>3. \A r \in Resources : Unfetched(r)' \subseteq Unfetched(r) \cup {now}
    BY <2>1, <2>2 DEF Unfetched
  <2>4. \A i \in 1 .. visited : NodeOrder[i] \in Resources
    BY <1>0, RoundTypes DEF TaskTypeOK
  <2>5. now \in Nat /\ now <= now /\ lastSecond <= now /\ \A p \in Pending : p < now
    BY <2>1, RoundTypes
  <2> QED
    BY <2>1, <2>3, <2>4, <2>5 DEF RoundsInv
<1>4. CASE Initialize
  <2>1. /\ task = "off" /\ task' = "collect" /\ UNCHANGED <<now, nodes, visited, batch, past>>
        /\ Pending' = Pending
    BY <1>4 DEF Initialize, Pending
  <2>2. /\ Pending = {} /\ visited = 0 /\ 1 .. 0 = {}
        /\ \A r \in Resources : Unfetched(r)' = {}
    BY <1>0, <2>1 DEF PhaseInv, Unfetched
  <2> QED
    BY <2>1, <2>2 DEF RoundsInv
<1>5. CASE Collect
  <2>1. PICK r, fresh : Taken(r, fresh)
    BY <1>0, <1>5, CollectTakes DEF TaskInv
  <2>2. /\ task = "collect" /\ UNCHANGED <<now, buckets, lastSecond, past>>
        /\ Pending' = Pending \cup fresh /\ r \in Resources
        /\ r = NodeOrder[visited + 1] /\ fresh \subseteq Unfetched(r)
        /\ lastFetch' \in [Resources -> -1 .. MaxTime]
    BY <1>5, <2>1 DEF Taken, Collect, Fresh, IsNodeInTime, Unfetched
  <2>3. \A q \in Resources : Unfetched(q)' \subseteq Unfetched(q)
    <3>0. Seconds \subseteq Nat /\ -1 .. MaxTime \subseteq Int
      BY SecondsAreNat
    <3>1. /\ \A q \in Resources : lastFetch[q] \in Int /\ lastFetch'[q] \in Int
          /\ \A q \in Resources : buckets[q] \subseteq Nat
      BY <1>0, <2>2, <3>0
    <3>2. \A q \in Resources : lastFetch[q] <= lastFetch'[q]
      BY <2>1, <3>1 DEF Taken
    <3> QED
      BY <2>2, <3>1, <3>2 DEF Unfetched
  <2>4. \A s \in Unfetched(r)' : now <= s
    <3> SUFFICES ASSUME NEW s \in Unfetched(r)', s < now PROVE FALSE
      BY <2>2, <2>3, RoundTypes
    <3>1. s \in fresh
      BY <2>1, <2>2, <2>3 DEF Taken, Fresh, IsNodeInTime, Unfetched
    <3>2. s <= lastFetch'[r] /\ s > lastFetch'[r]
      BY <2>1, <3>1 DEF Taken, Unfetched
    <3>3. s \in Nat /\ lastFetch'[r] \in Int
      BY <2>2, <2>3, RoundTypes, SecondsAreNat
    <3> QED
      BY <3>2, <3>3
  <2> SUFFICES ASSUME ~overran
               PROVE  /\ dropped = {}
                      /\ \A q \in Resources : \A s \in Unfetched(q)' : lastSecond <= s
                      /\ \A s \in Pending' : lastSecond <= s
                      /\ task' = "collect" =>
                           \A i \in 1 .. visited' : \A s \in Unfetched(NodeOrder[i])' : now <= s
                      /\ task' \in {"write", "lines"} =>
                           \A q \in Resources : \A s \in Unfetched(q)' : \A p \in Pending' : p < s
    BY <2>2 DEF RoundsInv
  <2>5. /\ dropped = {} /\ \A q \in Resources : \A s \in Unfetched(q) : lastSecond <= s
        /\ \A s \in Pending : lastSecond <= s
        /\ \A i \in 1 .. visited : \A s \in Unfetched(NodeOrder[i]) : now <= s
    BY <2>2 DEF RoundsInv
  <2>6. \A i \in 1 .. visited + 1 : \A s \in Unfetched(NodeOrder[i])' : now <= s
    <3>1. \A i \in 1 .. visited + 1 : NodeOrder[i] \in Resources
                                      /\ (i \in 1 .. visited \/ i = visited + 1)
      <4>1. visited + 1 <= Len(NodeOrder) /\ visited \in Nat
        BY <2>1, RoundTypes DEF Taken
      <4> QED
        BY <4>1, RoundTypes
    <3> QED
      BY <2>2, <2>3, <2>4, <2>5, <3>1
  <2>7. CASE visited' = visited + 1 /\ task' = "collect"
    BY <2>2, <2>3, <2>5, <2>6, <2>7
  <2>8. CASE /\ visited' = 0 /\ visited + 1 = Len(NodeOrder)
             /\ task' = IF Pending' = {} THEN "sleep" ELSE "write"
    <3>1. \A q \in Resources : \A s \in Unfetched(q)' : now <= s
      BY <2>6, <2>8, RoundTypes
    <3>2. \A p \in Pending' : p \in Nat /\ p < now
      BY <2>2, RoundTypes, <2>1 DEF Taken, Fresh, IsNodeInTime
    <3>3. \A q \in Resources : \A s \in Unfetched(q)' : s \in Nat
      BY <2>3, RoundTypes
    <3>4. \A q \in Resources : \A s \in Unfetched(q)' : \A p \in Pending' : p < s
      BY <3>1, <3>2, <3>3, RoundTypes
    <3> QED
      BY <2>2, <2>3, <2>5, <2>8, <3>4
  <2> QED
    BY <2>1, <2>7, <2>8 DEF Taken
<1>6. CASE Write
  <2>1. /\ task = "write" /\ Pending # {} /\ UNCHANGED <<nodes, visited, lastSecond, overran>>
        /\ \A r \in Resources : Unfetched(r)' = Unfetched(r)
    BY <1>6, WriteFinds DEF Unfetched
  <2>2. CASE Second < lastSecond /\ batch' = Others
             /\ task' = IF Pending' = {} THEN "sleep" ELSE "write"
    <3>1. overran
      <4> SUFFICES ASSUME ~overran PROVE FALSE
        OBVIOUS
      <4>1. Second \in Pending /\ Second \in Nat /\ lastSecond \in Nat
        BY <2>1, SecondIsFirst, RoundTypes
      <4>2. lastSecond <= Second
        BY <4>1 DEF RoundsInv
      <4> QED
        BY <2>2, <4>1, <4>2
    <3> QED
      BY <2>1, <3>1 DEF RoundsInv
  <2>3. CASE batch' = batch /\ dropped' = dropped /\ task' = "lines"
    <3>1. Pending' = Pending
      BY <2>3 DEF Pending
    <3> QED
      BY <2>1, <2>3, <3>1, FewerRounds
  <2> QED
    BY <1>6, <2>2, <2>3, WriteFinds
<1>7. CASE WriteLines
  <2>1. /\ task = "lines" /\ UNCHANGED <<nodes, visited, past>> /\ batch' = Others
        /\ lastSecond' = Second /\ task' \in {"sleep", "write"}
        /\ \A r \in Resources : Unfetched(r)' = Unfetched(r)
    BY <1>7 DEF WriteLines, WriteOrSleep, Unfetched
  <2>2. /\ Second \in Pending /\ Second \in Nat /\ Pending' \subseteq Pending
        /\ \A s \in Pending : Second <= s
    BY <1>0, <2>1, OthersRemain, SecondIsFirst DEF PhaseInv
  <2>3. ~overran => \A r \in Resources : \A s \in Unfetched(r) : Second <= s
    <3>1. \A r \in Resources : \A s \in Unfetched(r) : s \in Nat
      BY RoundTypes
    <3>2. ~overran => \A r \in Resources : \A s \in Unfetched(r) : Second < s
      BY <2>1, <2>2 DEF RoundsInv
    <3> QED
      BY <2>2, <3>1, <3>2
  <2> QED
    BY <2>1, <2>2, <2>3 DEF RoundsInv
<1>8. CASE Wake
  <2>1. /\ task \in {"sleep", "due"} /\ task' \in {"ended", "collect"}
        /\ UNCHANGED <<nodes, visited, lastSecond, past>> /\ Pending' = Pending
        /\ \A r \in Resources : Unfetched(r)' = Unfetched(r)
    BY <1>8 DEF Wake, Pending, Unfetched
  <2>2. visited = 0
    BY <1>0, <2>1 DEF PhaseInv
  <2> QED
    BY <2>1, <2>2, FewerRounds
<1>9. CASE Crash
  <2>1. Pending' = {} /\ task' = "off" /\ dropped' = {}
    BY <1>9 DEF Crash, Pending, NoLines
  <2> QED
    BY <2>1 DEF RoundsInv
<1> QED
  BY <1>1, <1>2, <1>3, <1>4, <1>5, <1>6, <1>7, <1>8, <1>9, StepsOfTask

\* It holds at the start.
LEMMA InitRounds == Init => RoundsInv
<1>1. Init => Pending = {} /\ task = "off" /\ dropped = {}
  BY DEF Init, Pending, NoLines
<1> QED
  BY <1>1 DEF RoundsInv

-----------------------------------------------------------------------------
(***************************************************************************)
(* Theorems.                                                               *)
(***************************************************************************)
TypeOK == TaskTypeOK /\ WriterTypeOK /\ files \in Seq(FileRec)

LogSafe == TaskInv /\ LogInv /\ FetchInv /\ RoundsInv

\* The invariant of the task, its rounds and the log.
LEMMA LogSafeAlways == Spec => []LogSafe
<1>1. Init => LogSafe
  BY InitTaskInv, InitLog, InitRounds DEF LogSafe
<1>2. LogSafe /\ [Next]_vars => LogSafe'
  BY NextTaskInv, NextLog, NextFetch, NextRounds DEF LogSafe
<1> QED
  BY <1>1, <1>2, PTL DEF Spec

\* Everything MetricLogTask and MetricWriter keep has its type in every
\* reachable state, whatever searches go on meanwhile.
THEOREM LogTypeCorrect == Spec => []TypeOK
<1>1. LogSafe => TypeOK
  BY DEF LogSafe, TaskInv, LogInv, Good, TypeOK
<1> QED
  BY <1>1, LogSafeAlways, PTL

\* WriteMetric, CloseAndNewFile and the roll over of full files keep every
\* index file such that the lines from an entry's offset on are those from
\* the entry's second on.
THEOREM IndexIsSound == Spec => []IndexSound
<1>1. LogSafe => IndexSound
  <2> SUFFICES ASSUME LogSafe, NEW f \in ToSet(files) PROVE SoundIndex(f)
    BY DEF IndexSound, SoundIndex
  <2>1. PICK i \in 1 .. Len(files) : f = files[i]
    BY DEF ToSet
  <2> QED
    BY <2>1 DEF LogSafe, LogInv, Good
<1> QED
  BY <1>1, LogSafeAlways, PTL

\* MetricWriter::Write meets a second older than last_second_ only after a
\* round of RunLogTask has collected beyond the end of a second.
THEOREM DropsAreExplained == Spec => []DropsExplained
<1>1. LogSafe => DropsExplained
  BY DEF LogSafe, RoundsInv, DropsExplained
<1> QED
  BY <1>1, LogSafeAlways, PTL
-----------------------------------------------------------------------------
(***************************************************************************)
(* The log that the files make up.                                         *)
(***************************************************************************)
\* upTo[n] is the log of the first n files.
Summed(fs, upTo) ==
  /\ upTo \in [0 .. Len(fs) -> Seq(Line)] /\ upTo[0] = <<>>
  /\ \A n \in 1 .. Len(fs) : upTo[n] = upTo[n - 1] \o fs[n].lines

\* LinesOf has a value after every file.
LEMMA LinesAreSummed ==
  ASSUME NEW fs \in Seq(FileRec)
  PROVE  \E f : Summed(fs, f) /\ LinesOf(fs) = f[Len(fs)]
<1> DEFINE N == Len(fs)
           S == Seq(Line)
           onto(n, s) == s \o fs[n].lines
           Made(g) == g = [n \in 0 .. N |-> IF n = 0 THEN <<>> ELSE g[n - 1] \o fs[n].lines]
           upTo == CHOOSE g : Made(g)
<1>1. N \in Nat /\ <<>> \in S
  BY EmptySeq
<1>2. ASSUME NEW n \in 1 .. N, NEW s \in S PROVE onto(n, s) \in S
  <2>1. fs[n].lines \in S
    BY FileTypes
  <2> QED
    BY <2>1, ConcatProperties
<1>3. \E g : Made(g)
  <2> DEFINE step == [n \in 1 .. N |-> [s \in S |-> onto(n, s)]]
  <2>1. step \in [1 .. N -> [S -> S]]
    BY <1>2
  <2>2. PICK f : Rounds(f, S, N, <<>>, step)
    <3> HIDE DEF step, N, S
    <3> QED
      BY <1>1, <2>1, Recursion
  <2>3. \A n \in 1 .. N : step[n][f[n - 1]] = onto(n, f[n - 1])
    <3> SUFFICES ASSUME NEW n \in 1 .. N PROVE step[n][f[n - 1]] = onto(n, f[n - 1])
      OBVIOUS
    <3>1. n - 1 \in 0 .. N
      BY <1>1
    <3>2. f[n - 1] \in S
      BY <2>2, <3>1 DEF Rounds
    <3> HIDE DEF onto, S
    <3> QED
      BY <3>2
  <2>4. Made(f)
    <3>1. f = [n \in 0 .. N |-> f[n]]
      BY <2>2 DEF Rounds
    <3>2. ASSUME NEW n \in 0 .. N
          PROVE  f[n] = IF n = 0 THEN <<>> ELSE f[n - 1] \o fs[n].lines
      <4>1. f[n] = IF n = 0 THEN <<>> ELSE step[n][f[n - 1]]
        <5>1. n = 0 \/ n \in 1 .. N
          BY <1>1
        <5> HIDE DEF step, S, N
        <5> QED
          BY <2>2, <5>1 DEF Rounds
      <4>2. n # 0 => n \in 1 .. N
        BY <1>1
      <4> HIDE DEF step
      <4> QED
        BY <2>3, <4>1, <4>2
    <3> QED
      BY <3>1, <3>2
  <2> QED
    BY <2>4
<1>4. Made(upTo)
  <2> HIDE DEF Made
  <2> QED
    BY <1>3
<1>5. LinesOf(fs) = upTo[N]
  BY DEF LinesOf
<1> HIDE DEF upTo
<1>6. /\ upTo[0] = <<>>
      /\ \A n \in 1 .. N : upTo[n] = upTo[n - 1] \o fs[n].lines
  <2>1. 0 \in 0 .. N /\ \A n \in 1 .. N : n \in 0 .. N /\ n # 0
    BY <1>1
  <2> QED
    BY <1>4, <2>1
<1> DEFINE T == {n \in 0 .. N : upTo[n] \notin S}
<1>7. T = {}
  <2> SUFFICES ASSUME T # {} PROVE FALSE
    OBVIOUS
  <2>1. PICK m \in T : \A k \in T : m <= k
    <3>1. T \in SUBSET Nat
      OBVIOUS
    <3> HIDE DEF T
    <3> QED
      BY <3>1, LeastElement
  <2>2. m \in 0 .. N /\ upTo[m] \notin S
    BY <2>1
  <2>3. m # 0
    BY <1>1, <1>6, <2>2
  <2>4. m - 1 \in 0 .. N /\ m \in 1 .. N /\ ~(m <= m - 1)
    BY <1>1, <2>2, <2>3
  <2>5. m - 1 \notin T
    <3> HIDE DEF T
    <3> QED
      BY <2>1, <2>4
  <2>6. upTo[m - 1] \in S
    BY <2>4, <2>5
  <2> HIDE DEF S
  <2> QED
    BY <1>2, <1>6, <2>2, <2>4, <2>6
<1>8. upTo \in [0 .. N -> S]
  <2>1. \A n \in 0 .. N : upTo[n] \in S
    BY <1>7
  <2> QED
    BY <1>4, <2>1
<1> QED
  BY <1>5, <1>6, <1>8 DEF Summed

\* Lines may be joined in any grouping.
LEMMA LinesAssociate ==
  \A a, b, c \in Seq(Line) : (a \o b) \o c = a \o (b \o c)
BY ConcatAssociative

\* The first m files of gs have the lines of those after the first d of fs, up
\* to the n-th.
Agree(fs, gs, d, m, n) ==
  /\ fs \in Seq(FileRec) /\ gs \in Seq(FileRec)
  /\ d \in Nat /\ m \in Nat /\ n = d + m /\ n <= Len(fs) /\ m <= Len(gs)
  /\ \A i \in 1 .. m : gs[i].lines = fs[i + d].lines

\* The log a is b followed by c.
Joined(a, b, c) == a = b \o c

\* Where files agree from some place on, so do the logs they make up.
LEMMA SummedShift ==
  ASSUME NEW fs, NEW gs, NEW d, NEW m, NEW n, Agree(fs, gs, d, m, n),
         NEW f, NEW g, Summed(fs, f), Summed(gs, g)
  PROVE  f[d] \in Seq(Line) /\ g[m] \in Seq(Line) /\ Joined(f[n], f[d], g[m])
<1> USE DEF Agree, Joined
<1>1. Len(fs) \in Nat /\ Len(gs) \in Nat
  OBVIOUS
<1>2. d \in 0 .. Len(fs) /\ \A i \in 0 .. m : i + d \in 0 .. Len(fs) /\ i \in 0 .. Len(gs)
  BY <1>1
<1>3. f[d] \in Seq(Line) /\ \A i \in 0 .. m : g[i] \in Seq(Line)
  BY <1>2 DEF Summed
<1> DEFINE T == {i \in 0 .. m : f[i + d] # f[d] \o g[i]}
<1>4. T = {}
  <2> SUFFICES ASSUME T # {} PROVE FALSE
    OBVIOUS
  <2>1. PICK k \in T : \A j \in T : k <= j
    <3>1. T \subseteq 0 .. m
      BY Zenon
    <3> HIDE DEF T
    <3>2. T \in SUBSET Nat
      BY <3>1
    <3> QED
      BY <3>2, LeastElement
  <2>2. k \in 0 .. m /\ f[k + d] # f[d] \o g[k]
    BY <2>1
  <2>3. k # 0
    <3>1. f[d] \o <<>> = f[d]
      BY <1>3, ConcatEmptySeq
    <3>2. g[0] = <<>> /\ 0 + d = d
      BY DEF Summed
    <3> QED
      BY <2>2, <3>1, <3>2
  <2>4. /\ k - 1 \in 0 .. m /\ k \in 1 .. m /\ ~(k <= k - 1)
        /\ k + d \in 1 .. Len(fs) /\ k \in 1 .. Len(gs)
    BY <1>1, <2>2, <2>3
  <2>5. k - 1 \notin T
    <3> HIDE DEF T
    <3> QED
      BY <2>1, <2>4
  <2>6. f[(k - 1) + d] = f[d] \o g[k - 1]
    BY <2>4, <2>5
  <2>7. gs[k].lines \in Seq(Line) /\ gs[k].lines = fs[k + d].lines
    BY <2>4, FileTypes
  <2>8. g[k] = g[k - 1] \o gs[k].lines
    BY <2>4 DEF Summed
  <2>9. f[k + d] = f[(k - 1) + d] \o fs[k + d].lines
    <3>1. (k + d) - 1 = (k - 1) + d
      BY <2>4
    <3> QED
      BY <2>4, <3>1 DEF Summed
  <2>10. (f[d] \o g[k - 1]) \o gs[k].lines = f[d] \o (g[k - 1] \o gs[k].lines)
    <3>1. g[k - 1] \in Seq(Line)
      BY <1>3, <2>4
    <3> QED
      BY ONLY <1>3, <2>7, <3>1, LinesAssociate
  <2> QED
    BY <2>2, <2>6, <2>7, <2>8, <2>9, <2>10
<1>5. m \in 0 .. m /\ m + d = n
  OBVIOUS
<1> QED
  BY <1>2, <1>3, <1>4, <1>5

\* Files that go and an empty one that comes: the log only loses its old end.
LEMMA RollKeepsLog ==
  ASSUME NEW fs \in Seq(FileRec), NEW gs \in Seq(FileRec), NEW d \in 0 .. Len(fs),
         Len(gs) = Len(fs) - d \/ Len(gs) = Len(fs) - d + 1,
         \A i \in 1 .. Len(fs) - d : gs[i].lines = fs[i + d].lines,
         Len(gs) = Len(fs) - d + 1 => gs[Len(gs)].lines = <<>>
  PROVE  /\ LinesOf(fs) \in Seq(Line) /\ LinesOf(gs) \in Seq(Line)
         /\ \E a \in Seq(Line) : LinesOf(fs) = a \o LinesOf(gs)
<1> DEFINE m == Len(fs) - d
<1>00. Len(fs) \in Nat /\ Len(gs) \in Nat
  OBVIOUS
<1>0. m \in Nat /\ d \in Nat /\ d + m = Len(fs) /\ m <= Len(gs)
  BY <1>00
<1>1. PICK f : Summed(fs, f) /\ LinesOf(fs) = f[Len(fs)]
  BY LinesAreSummed
<1>2. PICK g : Summed(gs, g) /\ LinesOf(gs) = g[Len(gs)]
  BY LinesAreSummed
<1>3. Len(fs) \in 0 .. Len(fs) /\ Len(gs) \in 0 .. Len(gs)
  BY <1>00
<1>4. LinesOf(fs) \in Seq(Line) /\ LinesOf(gs) \in Seq(Line)
  BY <1>1, <1>2, <1>3 DEF Summed
<1>5. Agree(fs, gs, d, m, Len(fs))
  <2>1. \A i \in 1 .. m : gs[i].lines = fs[i + d].lines
    OBVIOUS
  <2> HIDE DEF m
  <2> QED
    BY <1>0, <2>1 DEF Agree
<1> HIDE DEF m
<1>6. f[d] \in Seq(Line) /\ g[m] \in Seq(Line) /\ Joined(f[Len(fs)], f[d], g[m])
  BY ONLY <1>1, <1>2, <1>5, SummedShift
<1>7. g[Len(gs)] = g[m]
  <2>1. CASE Len(gs) = m
    BY <2>1
  <2>2. CASE Len(gs) = m + 1
    <3>1. Len(gs) \in 1 .. Len(gs) /\ Len(gs) - 1 = m /\ gs[Len(gs)].lines = <<>>
      BY <1>0, <1>00, <2>2 DEF m
    <3>2. g[Len(gs)] = g[m] \o <<>>
      BY <1>2, <3>1 DEF Summed
    <3> QED
      BY <1>6, <3>2, ConcatEmptySeq
  <2> QED
    BY <2>1, <2>2 DEF m
<1>8. LinesOf(fs) = f[d] \o LinesOf(gs)
  BY <1>1, <1>2, <1>6, <1>7 DEF Joined
<1> QED
  BY <1>4, <1>6, <1>8

\* The same with new lines in the file that was the last one.
RolledMore(fs, gs, d, b) ==
  /\ fs \in Seq(FileRec) /\ gs \in Seq(FileRec) /\ d \in Nat /\ d < Len(fs)
  /\ b \in Seq(Line)
  /\ Len(gs) = Len(fs) - d \/ Len(gs) = Len(fs) - d + 1
  /\ \A i \in 1 .. Len(fs) - d - 1 : gs[i].lines = fs[i + d].lines
  /\ gs[Len(fs) - d].lines = fs[Len(fs)].lines \o b
  /\ Len(gs) = Len(fs) - d + 1 => gs[Len(gs)].lines = <<>>

\* Files cut at the front and more lines at the end: the log is, too.
LEMMA RollAddsToLog ==
  ASSUME NEW fs, NEW gs, NEW d, NEW b, RolledMore(fs, gs, d, b)
  PROVE  \E a, k \in Seq(Line) : Joined(LinesOf(fs), a, k) /\ Joined(LinesOf(gs), k, b)
<1> USE DEF RolledMore
<1> DEFINE n == Len(fs)
           m == n - d - 1
           last == fs[n].lines
<1>0. /\ n \in Nat /\ Len(gs) \in Nat /\ m \in Nat /\ n \in 1 .. n /\ n - 1 = d + m
      /\ d + m <= n /\ m <= Len(gs) /\ m + 1 \in 1 .. Len(gs) /\ (m + 1) - 1 = m
      /\ (Len(gs) = m + 1 \/ Len(gs) = m + 2) /\ m \in 0 .. m /\ m + 1 = n - d
  OBVIOUS
<1>1. PICK f : Summed(fs, f) /\ LinesOf(fs) = f[n]
  BY LinesAreSummed
<1>2. PICK g : Summed(gs, g) /\ LinesOf(gs) = g[Len(gs)]
  BY LinesAreSummed
<1>3. last \in Seq(Line)
  <2>1. fs[n] \in FileRec
    <3>1. n \in 1 .. Len(fs)
      BY <1>0
    <3> HIDE DEF n
    <3> QED
      BY <3>1, ElementOfSeq
  <2> HIDE DEF n
  <2> QED
    BY <2>1, FileTypes
<1>4. /\ Agree(fs, gs, d, m, n - 1) /\ gs[m + 1].lines = last \o b
      /\ Len(gs) = m + 2 => gs[Len(gs)].lines = <<>>
  <2>1. Agree(fs, gs, d, m, n - 1)
    BY <1>0 DEF Agree
  <2>2. gs[m + 1].lines = last \o b
    BY <1>0
  <2>3. Len(gs) = m + 2 => Len(gs) = Len(fs) - d + 1
    BY <1>0
  <2> QED
    BY <2>1, <2>2, <2>3
<1>5. f[n] = f[n - 1] \o last
  BY <1>0, <1>1 DEF Summed
<1> HIDE DEF m, n, last
<1>6. f[d] \in Seq(Line) /\ g[m] \in Seq(Line) /\ Joined(f[n - 1], f[d], g[m])
  BY ONLY <1>1, <1>2, <1>4, SummedShift
<1> DEFINE k == g[m] \o last
<1>7. k \in Seq(Line) /\ last \o b \in Seq(Line)
  BY <1>3, <1>6, ConcatProperties
<1>8. LinesOf(fs) = f[d] \o k
  <2>1. LinesOf(fs) = (f[d] \o g[m]) \o last
    BY <1>1, <1>5, <1>6 DEF Joined
  <2> QED
    BY <1>3, <1>6, <2>1, LinesAssociate
<1>9. g[m + 1] = k \o b
  <2>1. g[m + 1] = g[m] \o (last \o b)
    BY <1>0, <1>2, <1>4 DEF Summed
  <2> QED
    BY <1>3, <1>6, <2>1, LinesAssociate
<1> HIDE DEF k
<1>10. LinesOf(gs) = k \o b
  <2>1. CASE Len(gs) = m + 1
    BY <1>2, <1>9, <2>1
  <2>2. CASE Len(gs) = m + 2
    <3>1. Len(gs) \in 1 .. Len(gs) /\ Len(gs) - 1 = m + 1
      BY <1>0, <2>2
    <3>2. g[Len(gs)] = g[m + 1] \o <<>>
      BY <1>2, <1>4, <2>2, <3>1 DEF Summed
    <3>3. k \o b \in Seq(Line)
      BY <1>7, ConcatProperties
    <3> QED
      BY <1>2, <1>9, <3>2, <3>3, ConcatEmptySeq
  <2> QED
    BY <1>0, <2>1, <2>2
<1> QED
  BY <1>6, <1>7, <1>8, <1>10 DEF Joined

\* CloseAndNewFile, as a roll.
Closed(fs, c, d) ==
  /\ fs \in Seq(FileRec) /\ c \in Seq(FileRec) /\ d \in 0 .. Len(fs)
  /\ fs # <<>> => d < Len(fs)
  /\ Len(c) = Len(fs) - d + 1 /\ c[Len(c)].lines = <<>> /\ c[Len(c)].idx = <<>>
  /\ \A i \in 1 .. Len(fs) - d : c[i] = fs[i + d]

\* CloseAndNewFile is the rolling above.
LEMMA CloseRolls ==
  ASSUME NEW fs, NEW e \in Nat, NEW w, Good(fs, e, w)
  PROVE  \E d : Closed(fs, CloseAndNewFile(fs, e), d)
<1> DEFINE name == NextFileNameOfDay(fs, e)
           c == CloseAndNewFile(fs, e)
<1>1. fs \in Seq(FileRec)
  BY DEF Good
<1>2. name \in Nat \X Nat
  BY <1>1, NextNameLater DEF Good, Bounded
<1>3. PICK d \in 0 .. Len(fs) : (fs # <<>> => d < Len(fs)) /\ Rolled(fs, c, name, d)
  BY <1>1, <1>2, CloseShape
<1> HIDE DEF c, name
<1>4. /\ c \in Seq(FileRec) /\ Len(c) = Len(fs) - d + 1
      /\ \A i \in 1 .. Len(fs) - d : c[i] = fs[i + d]
      /\ c[Len(c)].lines = <<>> /\ c[Len(c)].idx = <<>>
  BY <1>3 DEF Rolled
<1> QED
  BY <1>1, <1>3, <1>4 DEF c, Closed

\* It adds no line and drops the oldest only.
LEMMA CloseKeepsLog ==
  ASSUME NEW fs, NEW e \in Nat, NEW w, Good(fs, e, w)
  PROVE  /\ LinesOf(fs) \in Seq(Line) /\ LinesOf(CloseAndNewFile(fs, e)) \in Seq(Line)
         /\ \E a \in Seq(Line) : LinesOf(fs) = a \o LinesOf(CloseAndNewFile(fs, e))
<1> DEFINE c == CloseAndNewFile(fs, e)
<1>1. PICK d : Closed(fs, c, d)
  BY CloseRolls
<1> HIDE DEF c
<1>3. /\ LinesOf(fs) \in Seq(Line) /\ LinesOf(c) \in Seq(Line)
      /\ \E a \in Seq(Line) : LinesOf(fs) = a \o LinesOf(c)
  BY <1>1, RollKeepsLog DEF Closed
<1> QED
  BY <1>3 DEF c

\* An index entry leaves the log alone.
LEMMA IndexKeepsLog ==
  ASSUME NEW fs \in Seq(FileRec), fs # <<>>, NEW e \in Nat, WriteIndex(fs, e) \in Seq(FileRec)
  PROVE  LinesOf(WriteIndex(fs, e)) = LinesOf(fs)
<1> DEFINE c == WriteIndex(fs, e)
<1>1. Len(fs) \in Nat /\ Len(fs) \in 1 .. Len(fs)
  OBVIOUS
<1>2. Len(c) = Len(fs) /\ \A i \in 1 .. Len(fs) : c[i].lines = fs[i].lines
  BY <1>1, FileTypes DEF WriteIndex, FileRec
<1> HIDE DEF c
<1>3. PICK f : Summed(fs, f) /\ LinesOf(fs) = f[Len(fs)]
  BY LinesAreSummed
<1>4. PICK g : Summed(c, g) /\ LinesOf(c) = g[Len(c)]
  BY LinesAreSummed DEF c
<1>5. c \in Seq(FileRec)
  BY DEF c
<1>6. f[0] \in Seq(Line) /\ g[Len(fs)] \in Seq(Line) /\ Joined(f[Len(fs)], f[0], g[Len(fs)])
  <2>1. Agree(fs, c, 0, Len(fs), Len(fs))
    BY <1>1, <1>2, <1>5 DEF Agree
  <2> QED
    BY ONLY <1>3, <1>4, <2>1, SummedShift
<1>7. f[Len(fs)] = g[Len(fs)]
  <2>1. f[0] = <<>>
    BY <1>3 DEF Summed
  <2> QED
    BY <1>6, <2>1, ConcatEmptySeq DEF Joined
<1> QED
  BY <1>2, <1>3, <1>4, <1>7 DEF c

-----------------------------------------------------------------------------
(***************************************************************************)
(* The refinement of SecondLog.                                            *)
(***************************************************************************)
\* t is s without its first d lines, and with those of b at its end.
CutAt(s, t, d, b) ==
  /\ d \in 0 .. Len(s) /\ Len(t) >= Len(s) - d
  /\ SubSeq(t, 1, Len(s) - d) = SubSeq(s, d + 1, Len(s))
  /\ {t[i] : i \in (Len(s) - d + 1) .. Len(t)} = ToSet(b)

\* Joined sequences with the middle in common are cut and added to.
LEMMA CutFacts ==
  ASSUME NEW a \in Seq(Line), NEW k \in Seq(Line), NEW b \in Seq(Line),
         NEW s, NEW t, Joined(s, a, k), Joined(t, k, b)
  PROVE  CutAt(s, t, Len(a), b)
<1> USE DEF Joined, CutAt
<1>1. Len(a) \in Nat /\ Len(k) \in Nat /\ Len(b) \in Nat
  OBVIOUS
<1>2. /\ s \in Seq(Line) /\ Len(s) = Len(a) + Len(k)
      /\ \A i \in 1 .. Len(a) + Len(k) : s[i] = IF i <= Len(a) THEN a[i] ELSE k[i - Len(a)]
  BY ConcatProperties
<1>3. /\ t \in Seq(Line) /\ Len(t) = Len(k) + Len(b)
      /\ \A i \in 1 .. Len(k) + Len(b) : t[i] = IF i <= Len(k) THEN k[i] ELSE b[i - Len(k)]
  BY ConcatProperties
<1>4. Len(s) - Len(a) = Len(k)
  BY <1>1, <1>2
<1> DEFINE p == SubSeq(t, 1, Len(k))
           q == SubSeq(s, Len(a) + 1, Len(s))
<1>5. p \in Seq(Line) /\ Len(p) = Len(k) /\ \A i \in 1 .. Len(k) : p[i] = t[i]
  <2>1. \A i \in 1 .. Len(k) : t[i] \in Line
    BY <1>1, <1>3
  <2>2. p \in Seq(Line) /\ Len(p) = (IF 1 <= Len(k) THEN Len(k) - 1 + 1 ELSE 0)
        /\ \A i \in 1 .. Len(k) - 1 + 1 : p[i] = t[1 + i - 1]
    BY <1>1, <2>1, SubSeqProperties
  <2> HIDE DEF p
  <2> QED
    BY <1>1, <2>2
<1>6. q \in Seq(Line) /\ Len(q) = Len(k) /\ \A i \in 1 .. Len(k) : q[i] = s[Len(a) + i]
  <2>1. \A i \in Len(a) + 1 .. Len(s) : s[i] \in Line
    BY <1>1, <1>2
  <2>2. Len(a) + 1 \in Int /\ Len(s) \in Int
    BY <1>1, <1>2
  <2>3. q \in Seq(Line)
        /\ Len(q) = (IF Len(a) + 1 <= Len(s) THEN Len(s) - (Len(a) + 1) + 1 ELSE 0)
        /\ \A i \in 1 .. Len(s) - (Len(a) + 1) + 1 : q[i] = s[(Len(a) + 1) + i - 1]
    BY <2>1, <2>2, SubSeqProperties
  <2> HIDE DEF q
  <2>4. Len(q) = Len(k)
    BY <1>1, <1>2, <2>3
  <2>5. ASSUME NEW i \in 1 .. Len(k) PROVE q[i] = s[Len(a) + i]
    <3>1. i \in 1 .. Len(s) - (Len(a) + 1) + 1 /\ (Len(a) + 1) + i - 1 = Len(a) + i
      BY <1>1, <1>2
    <3> QED
      BY <2>3, <3>1
  <2> QED
    BY <2>3, <2>4, <2>5
<1>7. p = q
  <2>1. \A i \in 1 .. Len(k) : t[i] = k[i] /\ s[Len(a) + i] = k[i]
    BY <1>1, <1>2, <1>3
  <2> HIDE DEF p, q
  <2> QED
    BY <1>5, <1>6, <2>1, SeqEqual
<1>8. {t[i] : i \in Len(k) + 1 .. Len(t)} = ToSet(b)
  <2>1. \A i \in Len(k) + 1 .. Len(t) : i - Len(k) \in 1 .. Len(b) /\ t[i] = b[i - Len(k)]
    BY <1>1, <1>3
  <2>2. \A i \in 1 .. Len(b) : i + Len(k) \in Len(k) + 1 .. Len(t) /\ t[i + Len(k)] = b[i]
    BY <1>1, <1>3
  <2>3. ToSet(b) = {b[i] : i \in 1 .. Len(b)}
    BY DEF ToSet
  <2> DEFINE X == {t[i] : i \in Len(k) + 1 .. Len(t)}
  <2>4. ASSUME NEW x \in X PROVE x \in ToSet(b)
    <3>1. PICK i \in Len(k) + 1 .. Len(t) : x = t[i]
      OBVIOUS
    <3> QED
      BY ONLY <2>1, <2>3, <3>1
  <2>5. ASSUME NEW x \in ToSet(b) PROVE x \in X
    <3>1. PICK i \in 1 .. Len(b) : x = b[i]
      BY <2>3
    <3> QED
      BY ONLY <2>2, <3>1
  <2> QED
    BY <2>4, <2>5
<1> QED
  BY <1>1, <1>2, <1>3, <1>4, <1>7, <1>8

\* The log loses a, keeps k and gains b.
LEMMA CutIsStep ==
  ASSUME NEW a \in Seq(Line), NEW k \in Seq(Line), NEW b \in Seq(Line),
         Lines = a \o k, Lines' = k \o b,
         written' = written \cup ToSet(b), ToSet(b) \cap written = {},
         \A l, m \in ToSet(b) : l.second = m.second,
         \A l \in ToSet(b), m \in written : m.second <= l.second
  PROVE  Abstract!Step
<1> DEFINE d == Len(a)
           s == Lines
           t == Lines'
<1>0. Joined(s, a, k) /\ Joined(t, k, b)
  BY DEF Joined
<1> HIDE DEF s, t
<1>1. CutAt(s, t, d, b)
  BY <1>0, CutFacts
<1>2. Abstract!Added(d) = ToSet(b)
  BY <1>1 DEF CutAt, Abstract!Added, s, t
<1>3. SubSeq(t, 1, Len(s) - d) = Abstract!Kept(d)
  BY <1>1 DEF CutAt, Abstract!Kept, s
<1>4. d \in 0 .. Len(s) /\ Len(t) >= Len(s) - d
  BY <1>1 DEF CutAt
<1> HIDE DEF d
<1>5. /\ Len(Lines') >= Len(Lines) - d
      /\ SubSeq(Lines', 1, Len(Lines) - d) = Abstract!Kept(d)
      /\ Abstract!Added(d) \cap written = {}
      /\ \A l, m \in Abstract!Added(d) : l.second = m.second
      /\ \A l \in Abstract!Added(d), m \in written : m.second <= l.second
      /\ written' = written \cup Abstract!Added(d)
  BY <1>2, <1>3, <1>4 DEF s, t
<1>6. d \in 0 .. Len(Lines)
  BY <1>4 DEF s
<1> QED
  BY <1>5, <1>6 DEF Abstract!Step

\* What leaves the written lines alone loses an old part of the log at most.
LEMMA LossIsStep ==
  ASSUME NEW a \in Seq(Line), Lines' \in Seq(Line), Lines = a \o Lines', written' = written
  PROVE  Abstract!Step
<1>1. ToSet(<<>>) = {} /\ <<>> \in Seq(Line)
  BY EmptySeq DEF ToSet
<1>2. Lines' = Lines' \o <<>>
  BY ConcatEmptySeq
<1> QED
  BY <1>1, <1>2, CutIsStep

\* The log is a sequence of lines.
LEMMA LogIsSeq ==
  ASSUME NEW fs \in Seq(FileRec)
  PROVE  LinesOf(fs) \in Seq(Line)
<1>1. PICK f : Summed(fs, f) /\ LinesOf(fs) = f[Len(fs)]
  BY LinesAreSummed
<1>2. Len(fs) \in 0 .. Len(fs)
  OBVIOUS
<1> QED
  BY <1>1, <1>2 DEF Summed

\* WriteLines: the lines of the second go to the end of the last file.
LEMMA LinesGoIsStep ==
  ASSUME NEW fs, NEW more, LinesGo(fs, more)
  PROVE  Abstract!Step
<1> DEFINE b == batch[Second]
           n == Len(fs)
<1>1. /\ Good(fs, Second, written) /\ fs # <<>> /\ fs \in Seq(FileRec)
      /\ Good(more, Second, written') /\ more \in Seq(FileRec)
      /\ b \in Seq(Line) /\ Second \in Nat
      /\ more = [fs EXCEPT ![n].lines = @ \o b]
  BY DEF LinesGo, Good
<1>2. \E a \in Seq(Line) : Lines = a \o LinesOf(fs)
  <2>1. CASE fs = files
    <3>1. LinesOf(fs) = <<>> \o LinesOf(fs) /\ <<>> \in Seq(Line)
      BY <1>1, LogIsSeq, ConcatEmptySeq, EmptySeq
    <3> QED
      BY <2>1, <3>1 DEF Lines
  <2>2. CASE fs = CloseAndNewFile(files, Second)
    <3>1. Good(files, Second, written)
      BY DEF LinesGo
    <3> QED
      BY <1>1, <2>2, <3>1, CloseKeepsLog DEF Lines
  <2> QED
    BY <2>1, <2>2 DEF LinesGo
<1>3. /\ n \in Nat /\ n \in 1 .. n /\ Len(more) = n
      /\ \A i \in 1 .. n - 1 : more[i] = fs[i]
      /\ more[n].lines = fs[n].lines \o b
  <2>1. n \in Nat /\ n \in 1 .. n
    BY <1>1
  <2>2. fs[n] \in FileRec
    BY <1>1, <2>1
  <2>3. Len(more) = n /\ \A i \in 1 .. n - 1 : more[i] = fs[i]
    BY <1>1, <2>1
  <2> DEFINE g == [fs[n] EXCEPT !.lines = @ \o b]
  <2>4. more[n] = g
    <3>1. more = [fs EXCEPT ![n] = g]
      BY <1>1
    <3>2. n \in 1 .. Len(fs) /\ fs \in Seq(FileRec)
      BY <1>1, <2>1
    <3> HIDE DEF g, n
    <3> QED
      BY ONLY <3>1, <3>2
  <2> HIDE DEF n, b
  <2>5. more[n].lines = fs[n].lines \o b
    BY <2>2, <2>4 DEF FileRec
  <2> QED
    BY <2>1, <2>3, <2>5
<1> HIDE DEF b, n
<1>4. \E d : RolledMore(fs, files', d, b)
  <2>1. CASE files' = more
    <3>1. /\ \A i \in 1 .. n - 0 - 1 : more[i].lines = fs[i + 0].lines
          /\ more[n - 0].lines = fs[n].lines \o b
          /\ Len(more) = n - 0 /\ Len(more) # n - 0 + 1 /\ 0 \in Nat /\ 0 < n
      BY <1>3
    <3>2. RolledMore(fs, more, 0, b)
      BY <1>1, <3>1 DEF RolledMore, n
    <3> QED
      BY <2>1, <3>2
  <2>2. CASE files' = CloseAndNewFile(more, Second)
    <3> DEFINE c == CloseAndNewFile(more, Second)
    <3>1. more # <<>> /\ Good(more, Second, written')
      BY DEF LinesGo
    <3>2. PICK d : Closed(more, c, d)
      BY <1>1, <3>1, CloseRolls
    <3> HIDE DEF c
    <3>3. /\ d \in Nat /\ d < n /\ Len(c) = n - d + 1 /\ c \in Seq(FileRec)
          /\ \A i \in 1 .. n - d : c[i] = more[i + d]
          /\ c[Len(c)].lines = <<>>
      BY <1>3, <3>1, <3>2 DEF Closed
    <3>4. /\ n - d \in 1 .. n - d /\ (n - d) + d = n
          /\ \A i \in 1 .. n - d - 1 : i \in 1 .. n - d /\ i + d \in 1 .. n - 1
      BY <1>3, <3>3
    <3>5. /\ \A i \in 1 .. n - d - 1 : c[i].lines = fs[i + d].lines
          /\ c[n - d].lines = fs[n].lines \o b
      BY <1>3, <3>3, <3>4
    <3>6. RolledMore(fs, c, d, b)
      BY <1>1, <3>3, <3>5 DEF RolledMore, n
    <3> QED
      BY <2>2, <3>6 DEF c
  <2> QED
    BY <2>1, <2>2 DEF LinesGo
<1>5. PICK a1 \in Seq(Line) : Lines = a1 \o LinesOf(fs)
  BY <1>2
<1>6. PICK a2, k \in Seq(Line) : LinesOf(fs) = a2 \o k /\ LinesOf(files') = k \o b
  <2>1. \E a, k \in Seq(Line) : Joined(LinesOf(fs), a, k) /\ Joined(LinesOf(files'), k, b)
    BY <1>4, RollAddsToLog
  <2> QED
    BY <2>1 DEF Joined
<1>7. a1 \o a2 \in Seq(Line) /\ Lines = (a1 \o a2) \o k
  <2>1. a1 \o a2 \in Seq(Line)
    BY ConcatProperties
  <2>2. Lines = a1 \o (a2 \o k)
    BY <1>5, <1>6
  <2>3. a1 \in Seq(Line) /\ a2 \in Seq(Line) /\ k \in Seq(Line)
    BY <1>5, <1>6
  <2> QED
    BY ONLY <2>1, <2>2, <2>3, LinesAssociate
<1>8. Lines' = k \o b
  BY <1>6 DEF Lines
<1>9. /\ \A l, m \in ToSet(b) : l.second = m.second
      /\ \A l \in ToSet(b), m \in written : m.second <= l.second
      /\ ToSet(b) \cap written = {} /\ written' = written \cup ToSet(b)
  BY DEF LinesGo, b
<1> QED
  BY <1>1, <1>6, <1>7, <1>8, <1>9, CutIsStep

\* Every step of the log is one of SecondLog, or leaves it as it is.
LEMMA StepRefines ==
  LogSafe /\ [Next]_vars => [Abstract!Step]_<<Lines, written>>
<1> SUFFICES ASSUME LogSafe, [Next]_vars
             PROVE  Abstract!Step \/ UNCHANGED <<Lines, written>>
  OBVIOUS
<1> USE DEF nodes, round, writer, disk, past
<1>0. TaskInv /\ LogInv /\ FetchInv
  BY DEF LogSafe
<1>1. CASE UNCHANGED logVars \/ Tick \/ Initialize \/ Collect \/ Wake \/ Crash
  <2>1. UNCHANGED <<files, written>>
    BY <1>1 DEF logVars, Tick, Initialize, Collect, Wake, Crash
  <2> QED
    BY <2>1 DEF Lines
<1>2. ASSUME NEW r \in Resources, Record(r)
      PROVE  UNCHANGED <<Lines, written>>
  BY <1>2 DEF Record, Lines
<1>3. CASE Write
  <2>1. /\ task = "write" /\ Pending # {} /\ written' = written
        /\ \/ files' = files
           \/ /\ lastSecond <= Second
              /\ \E fs : /\ fs = files \/ fs = CloseAndNewFile(files, Second)
                         /\ out => fs = files
                         /\ ~out => fs = CloseAndNewFile(files, Second)
                         /\ files' = fs \/ files' = WriteIndex(fs, Second)
    BY <1>0, <1>3, WriteFinds
  <2>2. CASE files' = files
    BY <2>1, <2>2 DEF Lines
  <2>3. ASSUME lastSecond <= Second,
               NEW fs, fs = files \/ fs = CloseAndNewFile(files, Second),
               out => fs = files,
               ~out => fs = CloseAndNewFile(files, Second),
               files' = fs \/ files' = WriteIndex(fs, Second)
        PROVE  Abstract!Step
    <3>1. Second \in Nat /\ Edge = lastSecond /\ Edge \in Nat
      BY <1>0, <2>1, SecondIsFirst, EdgeTypes DEF Edge
    <3>2. Good(files, Second, written) /\ (out => files # <<>>)
      BY <1>0, <2>3, <3>1, GoodLater DEF LogInv
    <3>3. Good(fs, Second, written) /\ fs # <<>> /\ fs \in Seq(FileRec)
      BY <2>3, <3>1, <3>2, GoodClose DEF Good
    <3>4. \A l \in written : l.second <= Second
      <4>1. \A l \in written : l.second <= Edge /\ l.second \in Nat
        BY <1>0, SecondsAreNat DEF LogInv, TaskInv, WriterTypeOK, Line
      <4> QED
        BY <2>3, <3>1, <4>1
    <3>5. files' \in Seq(FileRec) /\ LinesOf(files') = LinesOf(fs)
      <4>1. CASE files' = fs
        BY <3>3, <4>1
      <4>2. CASE files' = WriteIndex(fs, Second)
        <5>1. WriteIndex(fs, Second) \in Seq(FileRec)
          BY <3>1, <3>3, <3>4, GoodIndex DEF Good
        <5> QED
          BY <3>1, <3>3, <4>2, <5>1, IndexKeepsLog
      <4> QED
        BY <2>3, <4>1, <4>2
    <3>6. \E a \in Seq(Line) : Lines = a \o LinesOf(fs)
      <4>1. CASE fs = files
        <5>1. LinesOf(fs) = <<>> \o LinesOf(fs) /\ <<>> \in Seq(Line)
          BY <3>3, LogIsSeq, ConcatEmptySeq, EmptySeq
        <5> QED
          BY <4>1, <5>1 DEF Lines
      <4>2. CASE fs = CloseAndNewFile(files, Second)
        BY <3>1, <3>2, <4>2, CloseKeepsLog DEF Lines
      <4> QED
        BY <2>3, <4>1, <4>2
    <3>7. Lines' = LinesOf(fs) /\ Lines' \in Seq(Line)
      BY <3>3, <3>5, LogIsSeq DEF Lines
    <3> QED
      BY <2>1, <3>6, <3>7, LossIsStep
  <2> QED
    BY <2>1, <2>2, <2>3
<1>4. CASE WriteLines
  BY <1>0, <1>4, WriteLinesFinds, LinesGoIsStep
<1> QED
  BY <1>1, <1>2, <1>3, <1>4, StepsOfTask

\* The log starts empty.
LEMMA InitRefines == Init => Abstract!Init
<1> SUFFICES ASSUME Init PROVE Lines = <<>> /\ written = {}
  BY DEF Abstract!Init
<1>1. files = <<>> /\ written = {}
  BY DEF Init
<1>2. <<>> \in Seq(FileRec) /\ Len(<<>>) = 0
  BY EmptySeq
<1>3. PICK f : Summed(<<>>, f) /\ LinesOf(<<>>) = f[Len(<<>>)]
  BY <1>2, LinesAreSummed
<1> QED
  BY <1>1, <1>2, <1>3 DEF Lines, Summed

\* The metric files together, whatever MetricWriter rolls over and removes, are
\* a log that grows by lines of one second no older than any before, none of
\* them twice, and that forgets from its old end only.
THEOREM RefinesSecondLog == Spec => ImplementsSecondLog
<1>1. Spec => Abstract!Init /\ [][Abstract!Step]_<<Lines, written>>
  BY LogSafeAlways, InitRefines, StepRefines, PTL DEF Spec
<1> QED
  BY <1>1 DEF ImplementsSecondLog, Abstract!Spec
-----------------------------------------------------------------------------
(***************************************************************************)
(* The search.                                                             *)
(***************************************************************************)
SearchRec == [at : {"scan", "read", "done"}, req : Requests, names : Seq(Nat \X Nat),
              pos : Nat, from : Int, offset : Nat, result : Seq(Line),
              warm : BOOLEAN, findable : SUBSET Line]

\* The lines are of the past, of range and resource, in order and each once.
Answers(req, lines) ==
  /\ \A i \in 1 .. Len(lines) :
       lines[i] \in written /\ InTime(req, lines[i]) /\ OfResource(req, lines[i])
  /\ \A i, j \in 1 .. Len(lines) : i < j =>
       lines[i] # lines[j] /\ lines[i].second <= lines[j].second

\* A line that comes after all those found.
After(lines, l) ==
  \A j \in 1 .. Len(lines) : lines[j] # l /\ lines[j].second <= l.second

\* What is still to be read comes after what was found, and is not too old.
Ahead(fs, s) ==
  \A i \in 1 .. Len(fs) : ~Before(fs[i].name, s.names[s.pos]) =>
    \A b \in 1 .. Len(fs[i].lines) :
      /\ After(s.result, fs[i].lines[b])
      /\ (fs[i].name = s.names[s.pos] => b > s.offset) =>
           s.req.begin <= fs[i].lines[b].second

Ordered(names) ==
  \A i, j \in 1 .. Len(names) : i < j => Before(names[i], names[j])

SearchTypeOK ==
  /\ lastPos \in [name : (Nat \X Nat) \cup {None}, offset : Int]
  /\ search # NoSearch => search \in SearchRec /\ search.pos >= 1

SearchInv ==
  search # NoSearch =>
    /\ Ordered(search.names) /\ Answers(search.req, search.result)
    /\ search.at = "scan" => search.result = <<>> /\ search.offset = 0
    /\ search.at = "read" =>
         /\ search.pos <= Len(search.names) /\ search.req.begin <= Edge
         /\ Ahead(files, search)

-----------------------------------------------------------------------------
(***************************************************************************)
(* What becomes of the files under a search.                               *)
(***************************************************************************)
\* A line that is none of w, is not before second e and follows those of w.
Newer(l, e, w) == l \notin w /\ e <= l.second /\ \A m \in w : m.second <= l.second

\* A line of gs is in fs, where it was and in a file of that name, or is newer.
Stays(fs, name, b, l) ==
  \E k \in 1 .. Len(fs) :
    fs[k].name = name /\ b \in 1 .. Len(fs[k].lines) /\ fs[k].lines[b] = l

Keeps(fs, gs, e, w) ==
  \A i \in 1 .. Len(gs) : \A b \in 1 .. Len(gs[i].lines) :
    Stays(fs, gs[i].name, b, gs[i].lines[b]) \/ Newer(gs[i].lines[b], e, w)

\* Files that do not change keep their lines.
LEMMA KeepsSelf ==
  ASSUME NEW fs, NEW e, NEW w
  PROVE  Keeps(fs, fs, e, w)
BY DEF Keeps, Stays

\* Keeping the lines carries over from step to step.
LEMMA KeepsOn ==
  ASSUME NEW fs, NEW gs, NEW hs, NEW e, NEW w, Keeps(fs, gs, e, w), Keeps(gs, hs, e, w)
  PROVE  Keeps(fs, hs, e, w)
<1> SUFFICES ASSUME NEW i \in 1 .. Len(hs), NEW b \in 1 .. Len(hs[i].lines),
                    ~Newer(hs[i].lines[b], e, w)
             PROVE  Stays(fs, hs[i].name, b, hs[i].lines[b])
  BY DEF Keeps
<1>1. Stays(gs, hs[i].name, b, hs[i].lines[b])
  BY DEF Keeps
<1>2. PICK k \in 1 .. Len(gs) : /\ gs[k].name = hs[i].name /\ b \in 1 .. Len(gs[k].lines)
                                /\ gs[k].lines[b] = hs[i].lines[b]
  BY <1>1 DEF Stays
<1>3. Stays(fs, gs[k].name, b, gs[k].lines[b])
  BY <1>2 DEF Keeps
<1> QED
  BY <1>2, <1>3

\* CloseAndNewFile removes lines, but adds none.
LEMMA CloseKeeps ==
  ASSUME NEW fs, NEW s \in Nat, NEW v, Good(fs, s, v), NEW e, NEW w
  PROVE  Keeps(fs, CloseAndNewFile(fs, s), e, w)
<1> DEFINE c == CloseAndNewFile(fs, s)
<1>1. PICK d : Closed(fs, c, d)
  BY CloseRolls
<1> HIDE DEF c
<1> SUFFICES ASSUME NEW i \in 1 .. Len(c), NEW b \in 1 .. Len(c[i].lines)
             PROVE  Stays(fs, c[i].name, b, c[i].lines[b])
  BY DEF Keeps, c
<1>2. /\ Len(fs) \in Nat /\ d \in 0 .. Len(fs) /\ Len(c) = Len(fs) - d + 1
      /\ c[Len(c)].lines = <<>>
      /\ \A j \in 1 .. Len(fs) - d : c[j] = fs[j + d]
  BY <1>1 DEF Closed
<1>3. i # Len(c)
  <2>1. 1 .. Len(<<>>) = {}
    BY EmptySeq
  <2> QED
    BY <1>2, <2>1
<1>4. i \in 1 .. Len(fs) - d /\ i + d \in 1 .. Len(fs)
  BY <1>2, <1>3
<1>5. c[i] = fs[i + d]
  BY <1>2, <1>4
<1> QED
  BY <1>4, <1>5 DEF Stays

\* An index entry leaves the lines alone.
LEMMA IndexKeeps ==
  ASSUME NEW fs \in Seq(FileRec), fs # <<>>, NEW s, NEW e, NEW w
  PROVE  Keeps(fs, WriteIndex(fs, s), e, w)
<1> DEFINE c == WriteIndex(fs, s)
<1>1. Len(fs) \in Nat /\ Len(fs) \in 1 .. Len(fs)
  OBVIOUS
<1>2. /\ Len(c) = Len(fs)
      /\ \A i \in 1 .. Len(fs) : c[i].name = fs[i].name /\ c[i].lines = fs[i].lines
  BY <1>1, FileTypes DEF WriteIndex, FileRec
<1> HIDE DEF c
<1> SUFFICES ASSUME NEW i \in 1 .. Len(c), NEW b \in 1 .. Len(c[i].lines)
             PROVE  Stays(fs, c[i].name, b, c[i].lines[b])
  BY DEF Keeps, c
<1>3. i \in 1 .. Len(fs) /\ c[i].name = fs[i].name /\ c[i].lines = fs[i].lines
  BY <1>2
<1> QED
  BY <1>3 DEF Stays

\* The lines added at the end of the last file are newer.
LEMMA AppendKeeps ==
  ASSUME NEW fs \in Seq(FileRec), fs # <<>>, NEW ls \in Seq(Line), NEW e, NEW w,
         \A a \in 1 .. Len(ls) : Newer(ls[a], e, w),
         NEW more, more = [fs EXCEPT ![Len(fs)].lines = @ \o ls]
  PROVE  Keeps(fs, more, e, w)
<1> DEFINE n == Len(fs)
           g == [fs[n] EXCEPT !.lines = @ \o ls]
<1>1. n \in Nat /\ n \in 1 .. n /\ fs[n] \in FileRec
  OBVIOUS
<1>2. more = [fs EXCEPT ![n] = g]
  OBVIOUS
<1>3. fs[n].lines \in Seq(Line) /\ Len(fs[n].lines) \in Nat /\ Len(ls) \in Nat
  BY <1>1, FileTypes
<1>4. g.name = fs[n].name /\ g.lines = fs[n].lines \o ls
  <2> HIDE DEF n
  <2> QED
    BY <1>1 DEF FileRec
<1>5. /\ Len(g.lines) = Len(fs[n].lines) + Len(ls)
      /\ \A j \in 1 .. Len(fs[n].lines) + Len(ls) :
           g.lines[j] = IF j <= Len(fs[n].lines) THEN fs[n].lines[j]
                        ELSE ls[j - Len(fs[n].lines)]
  <2> HIDE DEF g, n
  <2> QED
    BY <1>3, <1>4, ConcatProperties
<1>6. Len(more) = n /\ \A i \in 1 .. n : more[i] = IF i = n THEN g ELSE fs[i]
  <2>1. n = Len(fs) /\ n \in Nat /\ fs \in Seq(FileRec)
    BY <1>1
  <2> HIDE DEF g, n
  <2>2. Len(more) = n
    BY ONLY <1>2, <2>1
  <2>3. ASSUME NEW i \in 1 .. n PROVE more[i] = IF i = n THEN g ELSE fs[i]
    BY ONLY <1>2, <2>1, <2>3
  <2> QED
    BY <2>2, <2>3
<1> HIDE DEF g, n
<1> SUFFICES ASSUME NEW i \in 1 .. n, NEW b \in 1 .. Len(more[i].lines)
             PROVE  Stays(fs, more[i].name, b, more[i].lines[b]) \/ Newer(more[i].lines[b], e, w)
  BY <1>6 DEF Keeps
<1>7. CASE i # n
  <2>1. more[i] = fs[i]
    BY <1>6, <1>7
  <2> QED
    BY <2>1 DEF Stays, n
<1>8. CASE i = n /\ b <= Len(fs[n].lines)
  <2>1. more[i] = g /\ b \in 1 .. Len(fs[n].lines) + Len(ls) /\ b \in 1 .. Len(fs[n].lines)
    BY <1>3, <1>5, <1>6, <1>8
  <2>2. g.lines[b] = fs[n].lines[b]
    BY <1>5, <1>8, <2>1
  <2> QED
    BY <1>1, <1>4, <2>1, <2>2 DEF Stays, n
<1>9. CASE i = n /\ ~(b <= Len(fs[n].lines))
  <2>1. /\ more[i] = g /\ b \in 1 .. Len(fs[n].lines) + Len(ls)
        /\ b - Len(fs[n].lines) \in 1 .. Len(ls)
    <3>1. more[i] = g
      BY <1>6, <1>9
    <3>2. b \in 1 .. Len(fs[n].lines) + Len(ls)
      BY <1>5, <3>1
    <3> QED
      BY <1>3, <1>9, <3>1, <3>2
  <2>2. g.lines[b] = ls[b - Len(fs[n].lines)]
    BY <1>5, <1>9, <2>1
  <2> QED
    BY <2>1, <2>2
<1> QED
  BY <1>7, <1>8, <1>9

\* Whatever the task does, the lines in the files stay where they are or go,
\* those that come are newer than all, and the edge goes on.
LEMMA FilesKept ==
  ASSUME LogSafe, [Next]_vars
  PROVE  Keeps(files, files', Edge, written) /\ Edge <= Edge' /\ written \subseteq written'
<1> USE DEF nodes, round, writer, disk, past
<1>0. /\ TaskInv /\ LogInv /\ FetchInv /\ Edge \in Nat /\ Edge <= now /\ now \in Nat
      /\ files \in Seq(FileRec)
  BY EdgeTypes DEF LogSafe, LogInv, Good
<1>1. CASE UNCHANGED logVars
  <2>1. files' = files /\ Edge' = Edge /\ written' = written
    BY <1>1 DEF logVars, Edge, Second, Pending
  <2> QED
    BY <1>0, <2>1, KeepsSelf
<1>2. ASSUME NEW r \in Resources, Record(r)
      PROVE  files' = files /\ Edge' = Edge /\ written' = written
  BY <1>2 DEF Record, Edge, Second, Pending
<1>3. CASE Tick
  <2>1. UNCHANGED <<files, written, batch, lastSecond>> /\ now' = now + 1
        /\ task' = IF task = "sleep" THEN "due" ELSE task
    BY <1>3 DEF Tick
  <2>2. Edge' = IF task = "off" THEN now + 1 ELSE Edge
    BY <2>1 DEF Edge, Second, Pending
  <2>3. Edge <= Edge'
    BY <1>0, <2>2
  <2> QED
    BY <2>1, <2>3, KeepsSelf
<1>4. CASE Initialize
  <2>1. UNCHANGED <<now, files, written>> /\ task' = "collect" /\ lastSecond' = now
    BY <1>4 DEF Initialize
  <2>2. Edge' = now
    BY <2>1 DEF Edge
  <2> QED
    BY <1>0, <2>1, <2>2, KeepsSelf
<1>5. CASE Collect \/ Wake
  <2>1. UNCHANGED <<files, written, lastSecond>>
        /\ task \notin {"off", "lines"} /\ task' \notin {"off", "lines"}
    BY <1>5 DEF Collect, Wake, WriteOrSleep
  <2>2. Edge' = Edge
    BY <2>1 DEF Edge
  <2> QED
    BY <1>0, <2>1, <2>2, KeepsSelf
<1>6. CASE Crash
  <2>1. UNCHANGED <<now, files, written>> /\ task' = "off"
    BY <1>6 DEF Crash
  <2>2. Edge' = now
    BY <2>1 DEF Edge
  <2> QED
    BY <1>0, <2>1, <2>2, KeepsSelf
<1>7. CASE Write
  <2>1. /\ task = "write" /\ Pending # {} /\ Edge = lastSecond
        /\ UNCHANGED <<lastSecond, written>>
    BY <1>0, <1>7, WriteFinds DEF Edge
  <2>2. CASE files' = files /\ task' = IF Pending' = {} THEN "sleep" ELSE "write"
    <3>1. Edge' = Edge
      BY <2>1, <2>2 DEF Edge
    <3> QED
      BY <1>0, <2>1, <2>2, <3>1, KeepsSelf
  <2>3. ASSUME lastSecond <= Second, task' = "lines", batch' = batch,
               NEW fs, fs = IF out THEN files ELSE CloseAndNewFile(files, Second),
               files' = fs \/ files' = WriteIndex(fs, Second)
        PROVE  Keeps(files, files', Edge, written) /\ Edge <= Edge'
    <3>1. Second \in Nat /\ Edge' = Second
      BY <2>1, <2>3, SecondIsFirst DEF Edge, Second, Pending
    <3>2. Good(files, Second, written)
      BY <1>0, <2>1, <2>3, <3>1, GoodLater DEF LogInv
    <3>3. Good(fs, Second, written) /\ fs # <<>> /\ fs \in Seq(FileRec)
      BY <1>0, <2>3, <3>1, <3>2, GoodClose DEF LogInv, Good
    <3>4. Keeps(files, fs, Edge, written)
      BY <2>3, <3>1, <3>2, KeepsSelf, CloseKeeps
    <3>5. Keeps(fs, files', Edge, written)
      BY <2>3, <3>3, KeepsSelf, IndexKeeps
    <3>6. Keeps(files, files', Edge, written)
      BY <3>4, <3>5, KeepsOn
    <3> QED
      BY <2>1, <2>3, <3>1, <3>6
  <2> QED
    BY <1>0, <1>7, <2>1, <2>2, <2>3, WriteFinds
<1>8. CASE WriteLines
  <2>1. PICK fs, more : LinesGo(fs, more)
    BY <1>0, <1>8, WriteLinesFinds
  <2>2. Edge = Second /\ Edge' = Second /\ Second \in Nat /\ written \subseteq written'
    BY <1>8, <2>1 DEF LinesGo, Edge, WriteLines
  <2>3. /\ Good(files, Second, written) /\ fs \in Seq(FileRec) /\ fs # <<>>
        /\ batch[Second] \in Seq(Line) /\ Good(more, Second, written')
    BY <2>1 DEF LinesGo, Good
  <2>4. Keeps(files, fs, Edge, written)
    BY <2>1, <2>2, <2>3, KeepsSelf, CloseKeeps DEF LinesGo
  <2>5. \A a \in 1 .. Len(batch[Second]) : Newer(batch[Second][a], Edge, written)
    <3>1. \A a \in 1 .. Len(batch[Second]) : batch[Second][a] \in ToSet(batch[Second])
      BY DEF ToSet
    <3>2. \A l \in ToSet(batch[Second]) : l.second = Second /\ l \notin written
      BY <2>1 DEF LinesGo
    <3>3. \A m \in written : m.second <= Second
      BY <2>1 DEF LinesGo
    <3>4. Second <= Second
      BY <2>2
    <3> QED
      BY <2>2, <3>1, <3>2, <3>3, <3>4 DEF Newer
  <2>6. Keeps(fs, more, Edge, written)
    <3>1. more = [fs EXCEPT ![Len(fs)].lines = @ \o batch[Second]]
      BY <2>1 DEF LinesGo
    <3> QED
      BY ONLY <2>3, <2>5, <3>1, AppendKeeps
  <2>7. Keeps(more, files', Edge, written)
    <3>1. files' = more \/ files' = CloseAndNewFile(more, Second)
      BY <2>1 DEF LinesGo
    <3>2. Keeps(more, more, Edge, written)
      BY KeepsSelf
    <3>3. Keeps(more, CloseAndNewFile(more, Second), Edge, written)
      BY <2>2, <2>3, CloseKeeps
    <3> QED
      BY <3>1, <3>2, <3>3
  <2>8. Keeps(files, files', Edge, written)
    BY <2>4, <2>6, <2>7, KeepsOn
  <2> QED
    BY <2>2, <2>8
<1> QED
  BY <1>0, <1>1, <1>2, <1>3, <1>4, <1>5, <1>6, <1>7, <1>8, StepsOfTask, KeepsSelf

-----------------------------------------------------------------------------
(***************************************************************************)
(* What MetricReader takes from a file.                                    *)
(***************************************************************************)
\* The lines found are some of those at the positions of T, in their order.
Drawn(found, all, T) ==
  /\ found \in Seq(Line)
  /\ \A i \in 1 .. Len(found) : \E a \in T : found[i] = all[a]
  /\ \A i, j \in 1 .. Len(found) : i < j =>
       \E a, b \in T : a < b /\ found[i] = all[a] /\ found[j] = all[b]

\* What the reader has before it once it has sought an offset.
LEMMA TailDraws ==
  ASSUME NEW all \in Seq(Line), NEW o \in Nat
  PROVE  /\ SubSeq(all, o + 1, Len(all)) \in Seq(Line)
         /\ Len(SubSeq(all, o + 1, Len(all))) \in Nat
         /\ \A i \in 1 .. Len(SubSeq(all, o + 1, Len(all))) :
              /\ i + o \in o + 1 .. Len(all)
              /\ SubSeq(all, o + 1, Len(all))[i] = all[i + o]
<1> DEFINE t == SubSeq(all, o + 1, Len(all))
<1>1. o + 1 \in Int /\ Len(all) \in Int /\ Len(all) \in Nat
  OBVIOUS
<1>2. \A i \in o + 1 .. Len(all) : all[i] \in Line
  <2>1. \A i \in o + 1 .. Len(all) : i \in 1 .. Len(all)
    BY <1>1
  <2> QED
    BY <2>1
<1>3. /\ t \in Seq(Line)
      /\ Len(t) = IF o + 1 <= Len(all) THEN Len(all) - (o + 1) + 1 ELSE 0
      /\ \A i \in 1 .. Len(all) - (o + 1) + 1 : t[i] = all[(o + 1) + i - 1]
  BY <1>1, <1>2, SubSeqProperties
<1> HIDE DEF t
<1>4. Len(t) \in Nat
  BY <1>3
<1>5. ASSUME NEW i \in 1 .. Len(t) PROVE i + o \in o + 1 .. Len(all) /\ t[i] = all[i + o]
  <2>1. o + 1 <= Len(all)
    BY ONLY <1>1, <1>3, <1>4, i \in 1 .. Len(t)
  <2>2. i \in 1 .. Len(all) - (o + 1) + 1 /\ (o + 1) + i - 1 = i + o
        /\ i + o \in o + 1 .. Len(all)
    BY ONLY <1>1, <1>3, <1>4, <2>1, i \in 1 .. Len(t), o \in Nat
  <2> QED
    BY <1>3, <2>2
<1> QED
  BY <1>3, <1>4, <1>5 DEF t

\* The first m, or fewer when there are none.
LEMMA StartDraws ==
  ASSUME NEW found \in Seq(Line), NEW m \in Int, m <= Len(found)
  PROVE  /\ SubSeq(found, 1, m) \in Seq(Line)
         /\ Len(SubSeq(found, 1, m)) \in Nat /\ Len(SubSeq(found, 1, m)) <= Len(found)
         /\ \A i \in 1 .. Len(SubSeq(found, 1, m)) :
              i \in 1 .. m /\ i \in 1 .. Len(found) /\ SubSeq(found, 1, m)[i] = found[i]
<1> DEFINE t == SubSeq(found, 1, m)
<1>1. Len(found) \in Nat /\ \A i \in 1 .. m : i \in 1 .. Len(found) /\ found[i] \in Line
  <2>1. Len(found) \in Nat /\ \A i \in 1 .. m : i \in 1 .. Len(found)
    OBVIOUS
  <2> QED
    BY <2>1
<1>2. /\ t \in Seq(Line) /\ Len(t) = IF 1 <= m THEN m - 1 + 1 ELSE 0
      /\ \A i \in 1 .. m - 1 + 1 : t[i] = found[1 + i - 1]
  BY <1>1, SubSeqProperties
<1> HIDE DEF t
<1>3. Len(t) \in Nat /\ Len(t) <= Len(found)
  BY ONLY <1>1, <1>2, m \in Int, m <= Len(found)
<1>4. ASSUME NEW i \in 1 .. Len(t) PROVE i \in 1 .. m /\ t[i] = found[i]
  <2>1. i \in 1 .. m - 1 + 1 /\ 1 + i - 1 = i /\ i \in 1 .. m
    BY ONLY <1>2, m \in Int, i \in 1 .. Len(t)
  <2> QED
    BY <1>2, <2>1
<1> QED
  BY <1>1, <1>2, <1>3, <1>4 DEF t

\* PrefixOf stops before the first position that is not good.
LEMMA PrefixDraws ==
  ASSUME NEW lines \in Seq(Line), NEW good
  PROVE  /\ PrefixOf(lines, good) \in Seq(Line) /\ Len(PrefixOf(lines, good)) \in Nat
         /\ \A i \in 1 .. Len(PrefixOf(lines, good)) :
              i \in good /\ i \in 1 .. Len(lines) /\ PrefixOf(lines, good)[i] = lines[i]
<1> DEFINE T == {i \in 0 .. Len(lines) : 1 .. i \subseteq good}
           m == Max(T)
<1>1. Len(lines) \in Nat
  OBVIOUS
<1>2. T \in SUBSET (-1 .. Len(lines)) /\ T # {}
  <2>1. 0 \in T
    BY <1>1
  <2>2. \A i \in T : i \in -1 .. Len(lines)
    BY <1>1
  <2> HIDE DEF T
  <2> QED
    BY <2>1, <2>2
<1>3. m \in T
  <2> HIDE DEF T
  <2> QED
    BY <1>1, <1>2, MaxProperties
<1>4. m \in Int /\ m <= Len(lines) /\ 1 .. m \subseteq good
  BY <1>1, <1>3
<1>5. PrefixOf(lines, good) = SubSeq(lines, 1, m)
  BY DEF PrefixOf
<1> HIDE DEF m, T
<1> QED
  BY <1>4, <1>5, StartDraws

\* Fewer of the lines found are drawn as well.
LEMMA FewerDrawn ==
  ASSUME NEW found, NEW all, NEW T, Drawn(found, all, T),
         NEW m \in Int, m <= Len(found)
  PROVE  Drawn(SubSeq(found, 1, m), all, T)
<1> DEFINE t == SubSeq(found, 1, m)
<1>1. found \in Seq(Line)
  BY DEF Drawn
<1>2. t \in Seq(Line) /\ \A i \in 1 .. Len(t) : i \in 1 .. Len(found) /\ t[i] = found[i]
  BY <1>1, StartDraws
<1> HIDE DEF t
<1>3. \A i \in 1 .. Len(t) : \E a \in T : t[i] = all[a]
  BY <1>2 DEF Drawn
<1>4. ASSUME NEW i \in 1 .. Len(t), NEW j \in 1 .. Len(t), i < j
      PROVE  \E a, b \in T : a < b /\ t[i] = all[a] /\ t[j] = all[b]
  <2>1. \E a, b \in T : a < b /\ found[i] = all[a] /\ found[j] = all[b]
    BY <1>2, <1>4 DEF Drawn
  <2> QED
    BY <1>2, <2>1
<1>5. Drawn(t, all, T)
  BY <1>2, <1>3, <1>4 DEF Drawn
<1> QED
  BY <1>5 DEF t

\* What is drawn from the tail of a file is drawn from the file.
LEMMA DrawnOn ==
  ASSUME NEW found, NEW lines, NEW S, Drawn(found, lines, S), S \subseteq Int,
         NEW all, NEW T, NEW o \in Int,
         \A i \in S : i + o \in T /\ lines[i] = all[i + o]
  PROVE  Drawn(found, all, T)
<1>1. ASSUME NEW i \in 1 .. Len(found) PROVE \E a \in T : found[i] = all[a]
  <2>1. PICK a \in S : found[i] = lines[a]
    BY DEF Drawn
  <2> QED
    BY <2>1
<1>2. ASSUME NEW i \in 1 .. Len(found), NEW j \in 1 .. Len(found), i < j
      PROVE  \E a, b \in T : a < b /\ found[i] = all[a] /\ found[j] = all[b]
  <2>1. PICK a, b \in S : a < b /\ found[i] = lines[a] /\ found[j] = lines[b]
    BY <1>2 DEF Drawn
  <2>2. a + o < b + o
    <3>1. a \in Int /\ b \in Int
      OBVIOUS
    <3> QED
      BY ONLY <2>1, <3>1, o \in Int
  <2> QED
    BY <2>1, <2>2
<1> QED
  BY <1>1, <1>2 DEF Drawn

\* upTo[n] are those of the first n lines that are of the resource.
Picked(req, lines, upTo) ==
  /\ upTo \in [0 .. Len(lines) -> Seq(Line)] /\ upTo[0] = <<>>
  /\ \A n \in 1 .. Len(lines) :
       upTo[n] = IF OfResource(req, lines[n]) THEN Append(upTo[n - 1], lines[n])
                 ELSE upTo[n - 1]

\* Selected is the picking above.
LEMMA SelectedIsPicked ==
  ASSUME NEW lines \in Seq(Line)
  PROVE  \E f : Picked(search.req, lines, f) /\ Selected(lines) = f[Len(lines)]
<1> DEFINE N == Len(lines)
           S == Seq(Line)
           onto(n, s) == IF OfResource(search.req, lines[n]) THEN Append(s, lines[n]) ELSE s
           Made(g) == g = [n \in 0 .. N |->
                             IF n = 0 THEN <<>>
                             ELSE IF OfResource(search.req, lines[n])
                                  THEN Append(g[n - 1], lines[n])
                             ELSE g[n - 1]]
           upTo == CHOOSE g : Made(g)
<1>1. N \in Nat /\ <<>> \in S
  BY EmptySeq
<1>2. ASSUME NEW n \in 1 .. N, NEW s \in S PROVE onto(n, s) \in S
  <2>1. lines[n] \in Line
    OBVIOUS
  <2>2. Append(s, lines[n]) \in S
    BY <2>1, AppendProperties
  <2> HIDE DEF S
  <2> QED
    BY <2>2
<1>3. \E g : Made(g)
  <2> DEFINE step == [n \in 1 .. N |-> [s \in S |-> onto(n, s)]]
  <2>1. step \in [1 .. N -> [S -> S]]
    <3> HIDE DEF onto, S, N
    <3> QED
      BY <1>2
  <2>2. PICK f : Rounds(f, S, N, <<>>, step)
    <3> HIDE DEF step, N, S
    <3> QED
      BY <1>1, <2>1, Recursion
  <2>3. ASSUME NEW n \in 1 .. N PROVE step[n][f[n - 1]] = onto(n, f[n - 1])
    <3>1. n - 1 \in 0 .. N
      BY <1>1
    <3>2. f[n - 1] \in S
      BY <2>2, <3>1 DEF Rounds
    <3> HIDE DEF onto, S, N
    <3> QED
      BY <3>2
  <2>4. Made(f)
    <3>1. f = [n \in 0 .. N |-> f[n]]
      BY <2>2 DEF Rounds
    <3>2. ASSUME NEW n \in 0 .. N
          PROVE  f[n] = IF n = 0 THEN <<>> ELSE onto(n, f[n - 1])
      <4>1. f[n] = IF n = 0 THEN <<>> ELSE step[n][f[n - 1]]
        <5>1. n = 0 \/ n \in 1 .. N
          BY <1>1
        <5> HIDE DEF step, S, N
        <5> QED
          BY <2>2, <5>1 DEF Rounds
      <4>2. n # 0 => n \in 1 .. N
        BY <1>1
      <4> HIDE DEF step, onto
      <4> QED
        BY <2>3, <4>1, <4>2
    <3>3. f = [n \in 0 .. N |-> IF n = 0 THEN <<>> ELSE onto(n, f[n - 1])]
      <4> HIDE DEF onto
      <4> QED
        BY <3>1, <3>2
    <3> QED
      BY <3>3
  <2> QED
    BY <2>4
<1>4. Made(upTo)
  <2> HIDE DEF Made
  <2> QED
    BY <1>3
<1>5. Selected(lines) = upTo[N]
  BY DEF Selected
<1> HIDE DEF upTo
<1>6. /\ upTo[0] = <<>>
      /\ \A n \in 1 .. N : upTo[n] = onto(n, upTo[n - 1])
  <2>1. 0 \in 0 .. N /\ \A n \in 1 .. N : n \in 0 .. N /\ n # 0
    BY <1>1
  <2> QED
    BY <1>4, <2>1
<1> DEFINE T == {n \in 0 .. N : upTo[n] \notin S}
<1>7. T = {}
  <2> SUFFICES ASSUME T # {} PROVE FALSE
    OBVIOUS
  <2>1. PICK m \in T : \A k \in T : m <= k
    <3>1. T \in SUBSET Nat
      OBVIOUS
    <3> HIDE DEF T
    <3> QED
      BY <3>1, LeastElement
  <2>2. m \in 0 .. N /\ upTo[m] \notin S
    BY <2>1
  <2>3. m # 0
    BY <1>1, <1>6, <2>2
  <2>4. m - 1 \in 0 .. N /\ m \in 1 .. N /\ ~(m <= m - 1)
    BY <1>1, <2>2, <2>3
  <2>5. m - 1 \notin T
    <3> HIDE DEF T
    <3> QED
      BY <2>1, <2>4
  <2>6. upTo[m - 1] \in S
    BY <2>4, <2>5
  <2> HIDE DEF S, onto
  <2> QED
    BY <1>2, <1>6, <2>2, <2>4, <2>6
<1>8. upTo \in [0 .. N -> S]
  <2>1. \A n \in 0 .. N : upTo[n] \in S
    BY <1>7
  <2>2. upTo = [n \in 0 .. N |-> upTo[n]]
    BY <1>4
  <2> QED
    BY <2>1, <2>2
<1>9. Picked(search.req, lines, upTo)
  BY <1>6, <1>8 DEF Picked
<1> QED
  BY <1>5, <1>9

\* One more line is looked at.
LEMMA DrawnMore ==
  ASSUME NEW lines \in Seq(Line), NEW n \in 1 .. Len(lines),
         NEW found, Drawn(found, lines, 1 .. n - 1)
  PROVE  /\ Drawn(found, lines, 1 .. n)
         /\ Drawn(Append(found, lines[n]), lines, 1 .. n)
<1> DEFINE t == Append(found, lines[n])
<1>1. found \in Seq(Line) /\ Len(found) \in Nat /\ lines[n] \in Line
  BY DEF Drawn
<1>2. n \in 1 .. n /\ \A a \in 1 .. n - 1 : a \in 1 .. n /\ a < n
  OBVIOUS
<1>3. /\ t \in Seq(Line)
      /\ \A i \in 1 .. Len(t) : \/ i \in 1 .. Len(found) /\ t[i] = found[i]
                                \/ i = Len(found) + 1 /\ t[i] = lines[n]
  BY <1>1, AppendProperties
<1> HIDE DEF t
<1>4. \A i \in 1 .. Len(found) : \E a \in 1 .. n : found[i] = lines[a]
  BY <1>2 DEF Drawn
<1>5. \A i, j \in 1 .. Len(found) : i < j =>
        \E a, b \in 1 .. n : a < b /\ found[i] = lines[a] /\ found[j] = lines[b]
  BY <1>2 DEF Drawn
<1>6. \A i \in 1 .. Len(t) : \E a \in 1 .. n : t[i] = lines[a]
  BY <1>2, <1>3, <1>4
<1>7. ASSUME NEW i \in 1 .. Len(t), NEW j \in 1 .. Len(t), i < j
      PROVE  \E a, b \in 1 .. n : a < b /\ t[i] = lines[a] /\ t[j] = lines[b]
  <2>1. i \in 1 .. Len(found) /\ t[i] = found[i]
    <3>1. j \in 1 .. Len(found) \/ j = Len(found) + 1
      BY <1>3
    <3>2. i # Len(found) + 1
      BY ONLY <1>1, <3>1, i < j
    <3> QED
      BY <1>3, <3>2
  <2>2. CASE j \in 1 .. Len(found) /\ t[j] = found[j]
    BY <1>5, <1>7, <2>1, <2>2
  <2>3. CASE t[j] = lines[n]
    <3>1. PICK a \in 1 .. n - 1 : found[i] = lines[a]
      BY <2>1 DEF Drawn
    <3>2. a \in 1 .. n /\ n \in 1 .. n /\ a < n /\ t[i] = lines[a]
      BY <1>2, <2>1, <3>1
    <3> QED
      BY <2>3, <3>2
  <2> QED
    BY <1>3, <2>2, <2>3
<1>8. Drawn(found, lines, 1 .. n)
  BY <1>1, <1>4, <1>5 DEF Drawn
<1>9. Drawn(t, lines, 1 .. n)
  BY <1>3, <1>6, <1>7 DEF Drawn
<1> QED
  BY <1>8, <1>9 DEF t

\* The lines of the resource asked for, in their order.
LEMMA SelectedDraws ==
  ASSUME NEW lines \in Seq(Line)
  PROVE  /\ Drawn(Selected(lines), lines, 1 .. Len(lines))
         /\ \A i \in 1 .. Len(Selected(lines)) : OfResource(search.req, Selected(lines)[i])
<1> DEFINE N == Len(lines)
           OfIt(found) == \A i \in 1 .. Len(found) : OfResource(search.req, found[i])
           D(found, n) == Drawn(found, lines, 1 .. n) /\ OfIt(found)
<1>1. PICK f : Picked(search.req, lines, f) /\ Selected(lines) = f[N]
  BY SelectedIsPicked
<1>2. N \in Nat
  OBVIOUS
<1>3. D(f[0], 0)
  <2>1. f[0] = <<>> /\ <<>> \in Seq(Line) /\ 1 .. Len(<<>>) = {}
    BY <1>1, EmptySeq DEF Picked
  <2> QED
    BY <2>1 DEF Drawn
<1>4. ASSUME NEW n \in 1 .. N, D(f[n - 1], n - 1) PROVE D(f[n], n)
  <2> DEFINE found == f[n - 1]
             l == lines[n]
  <2>1. Drawn(found, lines, 1 .. n - 1) /\ OfIt(found)
    BY <1>4
  <2>2. f[n] = IF OfResource(search.req, l) THEN Append(found, l) ELSE found
    BY <1>1 DEF Picked
  <2> HIDE DEF found
  <2>3. Drawn(found, lines, 1 .. n) /\ Drawn(Append(found, l), lines, 1 .. n)
    BY <2>1, DrawnMore
  <2>4. OfResource(search.req, l) => OfIt(Append(found, l))
    <3>1. found \in Seq(Line) /\ l \in Line
      BY <2>1 DEF Drawn
    <3> HIDE DEF l
    <3>2. \A i \in 1 .. Len(Append(found, l)) :
            \/ i \in 1 .. Len(found) /\ Append(found, l)[i] = found[i]
            \/ Append(found, l)[i] = l
      BY <3>1, AppendedLine
    <3> QED
      BY <2>1, <3>2
  <2> HIDE DEF OfIt, l
  <2> QED
    BY <2>1, <2>2, <2>3, <2>4
<1> HIDE DEF D
<1> DEFINE T == {n \in 0 .. N : ~D(f[n], n)}
<1>5. T = {}
  <2> SUFFICES ASSUME T # {} PROVE FALSE
    OBVIOUS
  <2>1. PICK m \in T : \A k \in T : m <= k
    <3>1. T \in SUBSET Nat
      OBVIOUS
    <3> HIDE DEF T
    <3> QED
      BY <3>1, LeastElement
  <2>2. m \in 0 .. N /\ ~D(f[m], m)
    BY <2>1
  <2>3. m # 0
    BY <1>3, <2>2
  <2>4. m - 1 \in 0 .. N /\ m \in 1 .. N /\ ~(m <= m - 1)
    BY <1>2, <2>2, <2>3
  <2>5. m - 1 \notin T
    <3> HIDE DEF T
    <3> QED
      BY <2>1, <2>4
  <2>6. D(f[m - 1], m - 1)
    BY <2>4, <2>5
  <2> QED
    BY <1>4, <2>2, <2>4, <2>6
<1>6. D(f[N], N)
  <2>1. N \in 0 .. N
    BY <1>2
  <2> QED
    BY <1>5, <2>1
<1> QED
  BY <1>1, <1>6 DEF D

\* All the lines are drawn from themselves.
LEMMA DrawnSelf ==
  ASSUME NEW lines \in Seq(Line)
  PROVE  Drawn(lines, lines, 1 .. Len(lines))
BY DEF Drawn

\* The lesser of what was found and what there is room for.
LEMMA SmallerOfTwo ==
  ASSUME NEW a \in Int, NEW b \in Int
  PROVE  Min({a, b}) \in Int /\ Min({a, b}) <= a
<1>1. \E x \in {a, b} : \A y \in {a, b} : x <= y
  <2>1. CASE a <= b
    <3>1. a <= a
      OBVIOUS
    <3> QED
      BY <2>1, <3>1
  <2>2. CASE b <= a
    <3>1. b <= b
      OBVIOUS
    <3> QED
      BY <2>2, <3>1
  <2> QED
    BY <2>1, <2>2
<1>2. Min({a, b}) \in {a, b} /\ \A y \in {a, b} : Min({a, b}) <= y
  BY <1>1 DEF Min
<1> QED
  BY <1>2

\* What a search finds in a file with the lines all.
Found(all) ==
  LET lines == SubSeq(all, search.offset + 1, Len(all))
  IN IF search.req.end # None THEN ReadByEndTime(lines) ELSE ReadLines(lines)

\* A line fits what was asked for but perhaps for the begin.
Fits(req, l) == OfResource(req, l) /\ (req.end # None => l.second <= req.end)

\* The types of the fields of a search.
LEMMA SearchTypes ==
  ASSUME search \in SearchRec
  PROVE  /\ search.req \in Requests /\ search.names \in Seq(Nat \X Nat)
         /\ search.pos \in Nat /\ search.from \in Int /\ search.offset \in Nat
         /\ search.result \in Seq(Line) /\ Len(search.result) \in Nat
         /\ search.at \in {"scan", "read", "done"} /\ Len(search.names) \in Nat
         /\ search.req.begin \in Nat /\ search.req.end \in Nat \cup {None}
         /\ search.warm \in BOOLEAN /\ search.findable \in SUBSET Line
<1>1. /\ search.req \in Requests /\ search.names \in Seq(Nat \X Nat)
      /\ search.pos \in Nat /\ search.from \in Int /\ search.offset \in Nat
      /\ search.result \in Seq(Line) /\ search.at \in {"scan", "read", "done"}
      /\ search.warm \in BOOLEAN /\ search.findable \in SUBSET Line
  BY DEF SearchRec
<1>2. search.req.begin \in Nat /\ search.req.end \in Nat \cup {None}
  BY <1>1, MetricLogAssumption
<1>3. Len(search.result) \in Nat /\ Len(search.names) \in Nat
  BY <1>1
<1> QED
  BY <1>1, <1>2, <1>3

\* Both readers draw, from the offset on, lines that fit.
LEMMA FoundDraws ==
  ASSUME search \in SearchRec, NEW all \in Seq(Line)
  PROVE  /\ Drawn(Found(all), all, search.offset + 1 .. Len(all))
         /\ \A i \in 1 .. Len(Found(all)) : Fits(search.req, Found(all)[i])
<1> DEFINE o == search.offset
           lines == SubSeq(all, o + 1, Len(all))
           T == o + 1 .. Len(all)
<1>1. /\ o \in Nat /\ search.req.begin \in Nat /\ search.req.end \in Nat \cup {None}
      /\ Len(search.result) \in Nat /\ MaxLinesReturn \in Int
  BY SearchTypes, MetricLogAssumption
<1>2. /\ lines \in Seq(Line) /\ Len(lines) \in Nat
      /\ \A i \in 1 .. Len(lines) : i + o \in T /\ lines[i] = all[i + o]
  <2> HIDE DEF o
  <2> QED
    BY <1>1, TailDraws
<1>3. Found(all) = IF search.req.end # None THEN ReadByEndTime(lines) ELSE ReadLines(lines)
  BY DEF Found
<1> HIDE DEF lines, o, T
<1>4. CASE search.req.end # None
  <2> DEFINE r == InRange(lines)
             s == Selected(r)
             left == MaxLinesReturn - Len(search.result)
             m == Min({Len(s), left})
             found == SubSeq(s, 1, m)
  <2>1. /\ r \in Seq(Line) /\ Len(r) \in Nat
        /\ \A i \in 1 .. Len(r) :
             /\ i \in 1 .. Len(lines) /\ r[i] = lines[i]
             /\ lines[i].second \in search.req.begin .. search.req.end
    BY <1>2, PrefixDraws DEF InRange
  <2>2. /\ \A i \in 1 .. Len(r) : i + o \in T /\ r[i] = all[i + o]
        /\ \A i \in 1 .. Len(r) : r[i].second <= search.req.end
    <3>1. search.req.end \in Nat /\ search.req.begin \in Nat
      BY <1>1, <1>4
    <3>2. \A x \in search.req.begin .. search.req.end : x <= search.req.end
      BY <3>1
    <3> QED
      BY <1>2, <2>1, <3>2
  <2> HIDE DEF r
  <2>3. Drawn(s, r, 1 .. Len(r)) /\ \A i \in 1 .. Len(s) : OfResource(search.req, s[i])
    BY <2>1, SelectedDraws
  <2> HIDE DEF s
  <2>4. s \in Seq(Line) /\ Len(s) \in Nat
    BY <2>3 DEF Drawn
  <2>5. m \in Int /\ m <= Len(s)
    <3>1. left \in Int /\ Len(s) \in Int
      BY <1>1, <2>4
    <3> HIDE DEF left
    <3> QED
      BY ONLY <3>1, SmallerOfTwo DEF m
  <2> HIDE DEF m, left
  <2>6. /\ Drawn(found, r, 1 .. Len(r))
        /\ \A i \in 1 .. Len(found) : i \in 1 .. Len(s) /\ found[i] = s[i]
    BY <2>3, <2>4, <2>5, FewerDrawn, StartDraws
  <2> HIDE DEF found
  <2>7. Drawn(found, all, T)
    <3>1. 1 .. Len(r) \subseteq Int /\ o \in Int
      BY <1>1
    <3> QED
      BY <2>2, <2>6, <3>1, DrawnOn
  <2>8. ASSUME NEW i \in 1 .. Len(found) PROVE Fits(search.req, found[i])
    <3>1. OfResource(search.req, found[i])
      BY <2>3, <2>6
    <3>2. PICK a \in 1 .. Len(r) : found[i] = r[a]
      BY <2>6 DEF Drawn
    <3> QED
      BY <2>2, <3>1, <3>2 DEF Fits
  <2>9. Found(all) = found
    BY <1>3, <1>4 DEF ReadByEndTime, found, m, left, s, r
  <2> QED
    BY <2>7, <2>8, <2>9 DEF T, o
<1>5. CASE search.req.end = None
  <2> DEFINE p == ReadLines(lines)
  <2>1. /\ p \in Seq(Line) /\ Len(p) \in Nat
        /\ \A i \in 1 .. Len(p) : i \in 1 .. Len(lines) /\ p[i] = lines[i]
    BY <1>2, PrefixDraws DEF ReadLines
  <2>2. Found(all) = p
    BY <1>3, <1>5
  <2> HIDE DEF p
  <2>3. Drawn(p, p, 1 .. Len(p))
    BY <2>1, DrawnSelf
  <2>4. \A i \in 1 .. Len(p) : i + o \in T /\ p[i] = all[i + o]
    BY <1>2, <2>1
  <2>5. Drawn(p, all, T)
    <3>1. 1 .. Len(p) \subseteq Int /\ o \in Int
      BY <1>1
    <3> QED
      BY <2>3, <2>4, <3>1, DrawnOn
  <2>6. \A i \in 1 .. Len(p) : Fits(search.req, p[i])
    BY <1>5 DEF Fits, OfResource
  <2> QED
    BY <2>2, <2>5, <2>6 DEF T, o
<1> QED
  BY <1>4, <1>5

-----------------------------------------------------------------------------
(***************************************************************************)
(* The steps of a search.                                                  *)
(***************************************************************************)
LEMMA BeforeOrder ==
  ASSUME NEW n \in Nat \X Nat, NEW m \in Nat \X Nat, NEW k \in Nat \X Nat
  PROVE  ~Before(n, n) /\ (Before(n, m) /\ Before(m, k) => Before(n, k))
<1>1. \A x \in Nat \X Nat : x[1] \in Nat /\ x[2] \in Nat
  OBVIOUS
<1>2. /\ n[1] \in Nat /\ n[2] \in Nat /\ m[1] \in Nat /\ m[2] \in Nat
      /\ k[1] \in Nat /\ k[2] \in Nat
  BY <1>1
<1> QED
  BY <1>2 DEF Before

\* What is still to be read stays ahead of what was found.
LEMMA AheadKept ==
  ASSUME NEW fs, NEW gs \in Seq(FileRec), NEW e \in Nat, NEW w, Keeps(fs, gs, e, w),
         NEW s \in SearchRec, Ahead(fs, s), s.req.begin \in Nat, s.req.begin <= e,
         \A j \in 1 .. Len(s.result) : s.result[j] \in w
  PROVE  Ahead(gs, s)
<1> SUFFICES ASSUME NEW i \in 1 .. Len(gs), ~Before(gs[i].name, s.names[s.pos]),
                    NEW b \in 1 .. Len(gs[i].lines)
             PROVE  /\ After(s.result, gs[i].lines[b])
                    /\ (gs[i].name = s.names[s.pos] => b > s.offset) =>
                         s.req.begin <= gs[i].lines[b].second
  BY DEF Ahead
<1>1. CASE Stays(fs, gs[i].name, b, gs[i].lines[b])
  <2>1. PICK k \in 1 .. Len(fs) : /\ fs[k].name = gs[i].name /\ b \in 1 .. Len(fs[k].lines)
                                  /\ fs[k].lines[b] = gs[i].lines[b]
    BY <1>1 DEF Stays
  <2>2. /\ After(s.result, fs[k].lines[b])
        /\ (fs[k].name = s.names[s.pos] => b > s.offset) =>
             s.req.begin <= fs[k].lines[b].second
    BY <2>1 DEF Ahead
  <2> QED
    BY <2>1, <2>2
<1>2. CASE Newer(gs[i].lines[b], e, w)
  <2>1. gs[i].lines[b].second \in Nat
    <3>1. gs[i] \in FileRec
      OBVIOUS
    <3> QED
      BY <3>1, FileTypes
  <2>2. s.req.begin <= gs[i].lines[b].second
    BY <1>2, <2>1 DEF Newer
  <2>3. After(s.result, gs[i].lines[b])
    BY <1>2 DEF After, Newer
  <2> QED
    BY <2>2, <2>3
<1> QED
  BY <1>1, <1>2 DEF Keeps

\* The file of a name, where there is one.
LEMMA FileFound ==
  ASSUME files \in Seq(FileRec), NEW name, Exists(name)
  PROVE  \E k \in 1 .. Len(files) : files[k].name = name /\ File(name) = files[k]
<1>1. \E k \in 1 .. Len(files) : files[k].name = name
  <2>1. name \in ToSet(Names(files))
    BY DEF Exists
  <2> QED
    BY <2>1 DEF ToSet, Names
<1> DEFINE k == CHOOSE i \in 1 .. Len(files) : files[i].name = name
<1>2. k \in 1 .. Len(files) /\ files[k].name = name
  BY <1>1
<1>3. File(name) = files[k]
  BY DEF File
<1> QED
  BY <1>2, <1>3

\* A search in its place has the fields of one.
LEMMA SearchIsOn ==
  ASSUME SearchTypeOK, search.at \in {"scan", "read", "done"}
  PROVE  search # NoSearch /\ search \in SearchRec
BY DEF SearchTypeOK, NoSearch

\* The record of a search after a step of it.
LEMMA OffsetFound ==
  ASSUME NEW s \in SearchRec, NEW o \in Nat
  PROVE  LET t == [s EXCEPT !.at = "read", !.offset = o]
         IN  /\ t \in SearchRec /\ t.at = "read" /\ t.req = s.req /\ t.names = s.names
             /\ t.pos = s.pos /\ t.offset = o /\ t.result = s.result
             /\ t.warm = s.warm /\ t.findable = s.findable
<1> DEFINE t == [s EXCEPT !.at = "read", !.offset = o]
<1>1. /\ t.at = "read" /\ t.req = s.req /\ t.names = s.names /\ t.pos = s.pos
      /\ t.offset = o /\ t.result = s.result
      /\ t.warm = s.warm /\ t.findable = s.findable
  BY DEF SearchRec
<1>2. t \in SearchRec
  BY DEF SearchRec
<1> QED
  BY <1>1, <1>2

\* The same when the search goes on to the next name.
LEMMA NextName ==
  ASSUME NEW s \in SearchRec, NEW p \in Nat
  PROVE  LET t == [s EXCEPT !.pos = p, !.from = 0]
         IN  /\ t \in SearchRec /\ t.at = s.at /\ t.req = s.req /\ t.names = s.names
             /\ t.pos = p /\ t.offset = s.offset /\ t.result = s.result
             /\ t.from = 0 /\ t.warm = s.warm /\ t.findable = s.findable
<1> DEFINE t == [s EXCEPT !.pos = p, !.from = 0]
<1>1. /\ t.at = s.at /\ t.req = s.req /\ t.names = s.names /\ t.pos = p /\ t.from = 0
      /\ t.offset = s.offset /\ t.result = s.result
      /\ t.warm = s.warm /\ t.findable = s.findable
  BY DEF SearchRec
<1>2. t \in SearchRec
  <2>1. 0 \in Int /\ 0 \in Nat
    OBVIOUS
  <2> QED
    BY <2>1 DEF SearchRec
<1> QED
  BY <1>1, <1>2

\* The search at its next name with more found, or at its end.
TurnTo(s, r, p, a) == [s EXCEPT !.result = r, !.pos = p, !.offset = 0, !.at = a]

\* It has the fields of a search.
LEMMA FileDone ==
  ASSUME NEW s \in SearchRec, NEW p \in Nat, NEW r \in Seq(Line), NEW a,
         a = "read" \/ a = "done"
  PROVE  LET t == TurnTo(s, r, p, a)
         IN  /\ t \in SearchRec /\ t.at = a /\ t.req = s.req /\ t.names = s.names
             /\ t.pos = p /\ t.offset = 0 /\ t.result = r
             /\ t.warm = s.warm /\ t.findable = s.findable
<1> DEFINE t == TurnTo(s, r, p, a)
<1>0. t = [s EXCEPT !.result = r, !.pos = p, !.offset = 0, !.at = a]
  BY DEF TurnTo
<1>1. /\ t.at = a /\ t.req = s.req /\ t.names = s.names /\ t.pos = p
      /\ t.offset = 0 /\ t.result = r
      /\ t.warm = s.warm /\ t.findable = s.findable
  BY <1>0 DEF SearchRec
<1>2. t \in SearchRec
  <2>1. 0 \in Int /\ 0 \in Nat /\ a \in {"scan", "read", "done"}
    OBVIOUS
  <2> QED
    BY <1>0, <2>1 DEF SearchRec
<1> QED
  BY <1>1, <1>2

\* The lines within the reach of the index are lines.
LEMMA FindableLines ==
  ASSUME NEW req
  PROVE  Findable(req) \subseteq Line
BY DEF Findable

\* Begin: the names are in order, nothing is found yet.
LEMMA BeginSearches ==
  ASSUME LogSafe, SearchTypeOK, NEW req \in Requests, Begin(req)
  PROVE  SearchTypeOK' /\ SearchInv'
<1>1. files \in Seq(FileRec) /\ Len(files) \in Nat /\ Named(files)
  BY DEF LogSafe, LogInv, Good
<1>2. PICK garbage \in BOOLEAN :
        LET warm == ValidPosition(garbage)
        IN search' = [at |-> "scan", req |-> req, names |-> Names(files),
                      pos |-> IF warm THEN CHOOSE i \in 1 .. Len(files) :
                                             files[i].name = lastPos.name
                              ELSE 1,
                      from |-> IF warm THEN lastPos.offset ELSE 0,
                      offset |-> 0, result |-> <<>>,
                      warm |-> warm, findable |-> Findable(req)]
  BY DEF Begin
<1> DEFINE warm == ValidPosition(garbage)
           pos == IF warm THEN CHOOSE i \in 1 .. Len(files) : files[i].name = lastPos.name
                  ELSE 1
           from == IF warm THEN lastPos.offset ELSE 0
           names == Names(files)
           may == Findable(req)
<1>3. names \in Seq(Nat \X Nat) /\ Len(names) = Len(files)
      /\ \A i \in 1 .. Len(files) : names[i] = files[i].name
  <2>1. ASSUME NEW i \in 1 .. Len(files) PROVE files[i].name \in Nat \X Nat
    <3>1. files[i] \in FileRec
      BY <1>1
    <3> QED
      BY <3>1, FileTypes
  <2> QED
    BY <1>1, <2>1 DEF Names
<1>4. Ordered(names)
  BY <1>3, <1>1 DEF Ordered, Named
<1>5. pos \in Nat /\ pos >= 1
  <2>1. CASE warm
    <3>1. Exists(lastPos.name)
      BY <2>1 DEF ValidPosition
    <3>2. \E i \in 1 .. Len(files) : files[i].name = lastPos.name
      BY <1>1, <3>1, FileFound
    <3>3. pos \in 1 .. Len(files)
      BY <2>1, <3>2
    <3> QED
      BY <1>1, <3>3
  <2>2. CASE ~warm
    BY <2>2
  <2> QED
    BY <2>1, <2>2
<1>6. from \in Int
  BY DEF SearchTypeOK
<1>7. warm \in BOOLEAN
  BY DEF ValidPosition
<1>8. may \in SUBSET Line
  BY FindableLines
<1>9. search' = [at |-> "scan", req |-> req, names |-> names, pos |-> pos, from |-> from,
                 offset |-> 0, result |-> <<>>, warm |-> warm, findable |-> may]
  BY <1>2
<1> HIDE DEF names, pos, from, warm, may
<1>10. <<>> \in Seq(Line) /\ 1 .. Len(<<>>) = {}
  BY EmptySeq
<1>11. search' \in SearchRec
  BY <1>3, <1>5, <1>6, <1>7, <1>8, <1>9, <1>10 DEF SearchRec
<1>12. lastPos' = lastPos
  BY DEF Begin
<1>13. search'.pos >= 1
  BY <1>5, <1>9
<1>14. SearchTypeOK'
  BY <1>11, <1>12, <1>13 DEF SearchTypeOK
<1>15. /\ search'.names = names /\ search'.result = <<>> /\ search'.at = "scan"
       /\ search'.offset = 0
  BY <1>9
<1>16. Answers(search.req, search.result)'
  BY <1>10, <1>15 DEF Answers
<1>17. SearchInv'
  BY <1>4, <1>15, <1>16 DEF SearchInv
<1> QED
  BY <1>14, <1>17

\* FindOffset: what follows the entry it stops at is as young as the begin.
LEMMA OffsetIsRight ==
  ASSUME LogSafe, NEW k \in 1 .. Len(files), NEW j \in 1 .. Len(files[k].idx),
         NEW s \in SearchRec, s.names[s.pos] = files[k].name,
         s.result = <<>>, s.offset = files[k].idx[j][2],
         s.req.begin \in Nat, s.req.begin <= files[k].idx[j][1]
  PROVE  Ahead(files, s) /\ s.req.begin <= Edge
<1> DEFINE second == files[k].idx[j][1]
           offset == files[k].idx[j][2]
<1>1. /\ Good(files, Edge, written) /\ Edge \in Nat
      /\ files \in Seq(FileRec) /\ Len(files) \in Nat
      /\ Named(files) /\ Indexed(files)
      /\ SoundIndex(files[k]) /\ Bounded(files[k], Edge, written)
  BY EdgeTypes DEF LogSafe, LogInv, Good
<1>2. second \in Nat /\ offset \in Nat
  <2>1. files[k] \in FileRec
    BY <1>1
  <2> QED
    BY <2>1, FileTypes
<1>3. second <= Edge
  BY <1>1 DEF Bounded
<1>4. ASSUME NEW i \in 1 .. Len(files), ~Before(files[i].name, files[k].name),
             NEW b \in 1 .. Len(files[i].lines), files[i].name = files[k].name => b > offset
      PROVE  s.req.begin <= files[i].lines[b].second
  <2>1. files[i].lines[b].second \in Nat
    <3>1. files[i] \in FileRec
      BY <1>1
    <3> QED
      BY <3>1, FileTypes
  <2>2. second <= files[i].lines[b].second
    <3>1. CASE i = k
      <4>1. b > offset /\ b \in 1 .. Len(files[k].lines)
        BY <1>4, <3>1
      <4>2. files[k].lines[b].second >= second
        BY <1>1, <4>1 DEF SoundIndex
      <4> QED
        BY <1>2, <2>1, <3>1, <4>2
    <3>2. CASE i # k
      <4>1. ~(i < k)
        BY <1>1, <1>4 DEF Named
      <4>2. k < i
        BY ONLY <1>1, <3>2, <4>1, i \in 1 .. Len(files), k \in 1 .. Len(files)
      <4> QED
        BY <1>1, <4>2 DEF Indexed
    <3> QED
      BY <3>1, <3>2
  <2>3. s.req.begin \in Nat /\ s.req.begin <= second
    OBVIOUS
  <2> HIDE DEF second
  <2> QED
    BY ONLY <1>2, <2>1, <2>2, <2>3
<1>5. \A l : After(<<>>, l)
  <2>1. 1 .. Len(<<>>) = {}
    BY EmptySeq
  <2> QED
    BY <2>1 DEF After
<1>6. Ahead(files, s)
  <2> SUFFICES ASSUME NEW i \in 1 .. Len(files), ~Before(files[i].name, files[k].name),
                      NEW b \in 1 .. Len(files[i].lines)
               PROVE  (files[i].name = files[k].name => b > offset) =>
                         s.req.begin <= files[i].lines[b].second
    BY <1>5 DEF Ahead
  <2> QED
    BY <1>4
<1>7. s.req.begin \in Nat /\ s.req.begin <= second
  OBVIOUS
<1> HIDE DEF second
<1>8. s.req.begin <= Edge
  BY ONLY <1>1, <1>2, <1>3, <1>7
<1> QED
  BY <1>6, <1>8

\* FindOffset keeps the invariant of the search.
LEMMA FindOffsetSearches ==
  ASSUME LogSafe, SearchTypeOK, SearchInv, FindOffset
  PROVE  SearchTypeOK' /\ SearchInv'
<1> DEFINE name == search.names[search.pos]
           idx == File(name).idx
           rest == IF Exists(name) /\ search.from >= 0
                   THEN search.from + 1 .. Len(idx) ELSE {}
           later == {j \in rest : IsAtOrAfter(idx[j])}
           first == Min(later)
<1>1. search.at = "scan" /\ search.pos <= Len(search.names) /\ UNCHANGED logVars
  BY DEF FindOffset, logVars
<1>2. /\ search # NoSearch /\ search \in SearchRec /\ search.pos >= 1
      /\ Ordered(search.names) /\ Answers(search.req, search.result)
      /\ search.result = <<>> /\ search.offset = 0
  BY <1>1, SearchIsOn DEF SearchInv, SearchTypeOK
<1>3. /\ search.names \in Seq(Nat \X Nat) /\ search.pos \in Nat /\ search.from \in Int
      /\ search.req.begin \in Nat /\ search.pos \in 1 .. Len(search.names)
      /\ Len(search.names) \in Nat /\ lastPos.offset \in Int
  BY <1>1, <1>2, SearchTypes DEF SearchTypeOK
<1>4. name \in Nat \X Nat
  BY <1>3
<1>5. \/ /\ later # {}
         /\ search' = [search EXCEPT !.at = "read", !.offset = idx[first][2]]
         /\ lastPos' = [name |-> name,
                        offset |-> IF first = search.from + 1
                                   THEN lastPos.offset ELSE first - 1]
      \/ /\ search' = [search EXCEPT !.pos = @ + 1, !.from = 0]
         /\ \E o \in {lastPos.offset, -1} : lastPos' = [name |-> None, offset |-> o]
  BY DEF FindOffset
<1>6. files \in Seq(FileRec)
  BY DEF LogSafe, LogInv, Good
<1> HIDE DEF name
<1>7. CASE /\ later # {}
           /\ search' = [search EXCEPT !.at = "read", !.offset = idx[first][2]]
           /\ lastPos' = [name |-> name,
                          offset |-> IF first = search.from + 1
                                     THEN lastPos.offset ELSE first - 1]
  <2>1. Exists(name) /\ search.from >= 0 /\ rest = search.from + 1 .. Len(idx)
    BY <1>7
  <2>2. PICK k \in 1 .. Len(files) : files[k].name = name /\ File(name) = files[k]
    BY <1>6, <2>1, FileFound
  <2>3. files[k] \in FileRec /\ idx = files[k].idx /\ Len(idx) \in Nat
    <3>1. files[k] \in FileRec
      BY <1>6
    <3> QED
      BY <2>2, <3>1, FileTypes
  <2> HIDE DEF idx
  <2>4. later \in SUBSET Nat /\ \A j \in later : j \in 1 .. Len(idx)
    BY <1>3, <2>1, <2>3
  <2>5. first \in later /\ first \in Nat
    <3>1. later # {}
      BY <1>7
    <3> HIDE DEF later
    <3> QED
      BY <2>4, <3>1, MinProperties
  <2>6. first \in 1 .. Len(files[k].idx) /\ search.req.begin <= files[k].idx[first][1]
    <3>1. first \in 1 .. Len(idx)
      BY <2>4, <2>5
    <3>2. IsAtOrAfter(idx[first])
      BY <2>5
    <3>3. files[k].idx[first][1] \in Nat
      BY <2>3, <3>1, FileTypes
    <3> HIDE DEF first
    <3> QED
      BY <1>3, <2>3, <3>1, <3>2, <3>3 DEF IsAtOrAfter
  <2> HIDE DEF later, rest, first
  <2> DEFINE o == idx[first][2]
  <2>7. o = files[k].idx[first][2] /\ o \in Nat
    BY <2>3, <2>6, FileTypes
  <2> HIDE DEF o
  <2>8. search' = [search EXCEPT !.at = "read", !.offset = o]
    BY <1>7 DEF o
  <2>9. /\ search' \in SearchRec /\ search'.at = "read" /\ search'.offset = o
        /\ search'.names = search.names /\ search'.pos = search.pos
        /\ search'.req = search.req /\ search'.result = search.result
    <3>1. search \in SearchRec
      BY <1>2
    <3> QED
      BY ONLY <2>7, <2>8, <3>1, OffsetFound
  <2>10. PICK s \in SearchRec : s = search'
    BY <2>9
  <2>11. Ahead(files, s) /\ s.req.begin <= Edge
    <3>1. /\ s.names[s.pos] = files[k].name /\ s.result = <<>>
          /\ s.offset = files[k].idx[first][2]
          /\ s.req.begin \in Nat /\ s.req.begin <= files[k].idx[first][1]
      BY <1>2, <1>3, <2>2, <2>6, <2>7, <2>9, <2>10 DEF name
    <3> QED
      BY <2>6, <3>1, OffsetIsRight
  <2>12. files' = files /\ Edge' = Edge /\ written' = written
    BY <1>1 DEF logVars, Edge, Second, Pending, disk, round, writer
  <2>13. lastPos' \in [name : (Nat \X Nat) \cup {None}, offset : Int]
    <3>1. first - 1 \in Int
      BY <2>5
    <3> QED
      BY <1>3, <1>4, <1>7, <3>1
  <2>14. SearchTypeOK'
    BY <1>2, <2>9, <2>13 DEF SearchTypeOK
  <2>15. Ahead(files, search)' /\ (search.req.begin <= Edge)'
    BY <2>10, <2>11, <2>12 DEF Ahead
  <2>16. Answers(search.req, search.result)'
    BY <1>2, <2>9, <2>12 DEF Answers
  <2> QED
    BY <1>1, <1>2, <2>9, <2>14, <2>15, <2>16 DEF SearchInv
<1>8. CASE /\ search' = [search EXCEPT !.pos = @ + 1, !.from = 0]
           /\ \E o \in {lastPos.offset, -1} : lastPos' = [name |-> None, offset |-> o]
  <2> DEFINE p == search.pos + 1
  <2>0. search' = [search EXCEPT !.pos = p, !.from = 0] /\ p \in Nat /\ p >= 1
    BY <1>3, <1>8
  <2> HIDE DEF p
  <2>1. /\ search' \in SearchRec /\ search'.at = "scan" /\ search'.offset = 0
        /\ search'.names = search.names /\ search'.pos = p
        /\ search'.req = search.req /\ search'.result = <<>>
    <3>1. search \in SearchRec
      BY <1>2
    <3>2. /\ search' \in SearchRec /\ search'.at = search.at /\ search'.offset = search.offset
          /\ search'.names = search.names /\ search'.pos = p
          /\ search'.req = search.req /\ search'.result = search.result
      BY ONLY <2>0, <3>1, NextName
    <3> QED
      BY <1>1, <1>2, <3>2
  <2>2. lastPos' \in [name : (Nat \X Nat) \cup {None}, offset : Int]
    BY <1>3, <1>8
  <2>3. search'.pos >= 1
    BY <2>0, <2>1
  <2>4. written' = written
    BY <1>1 DEF logVars, disk
  <2>5. Answers(search.req, search.result)'
    BY <1>2, <2>1, <2>4 DEF Answers
  <2> QED
    BY <1>2, <2>1, <2>2, <2>3, <2>5 DEF SearchTypeOK, SearchInv
<1> QED
  BY <1>5, <1>7, <1>8

\* Where a line of a concatenation comes from.
LEMMA JoinedElements ==
  ASSUME NEW r \in Seq(Line), NEW found \in Seq(Line), NEW i \in 1 .. Len(r \o found)
  PROVE  \/ i \in 1 .. Len(r) /\ (r \o found)[i] = r[i]
         \/ /\ i > Len(r) /\ i - Len(r) \in 1 .. Len(found)
            /\ (r \o found)[i] = found[i - Len(r)]
<1> DEFINE t == r \o found
<1>1. /\ Len(r) \in Nat /\ Len(found) \in Nat /\ Len(t) = Len(r) + Len(found)
      /\ \A j \in 1 .. Len(r) + Len(found) :
           t[j] = IF j <= Len(r) THEN r[j] ELSE found[j - Len(r)]
  <2>1. Len(r) \in Nat /\ Len(found) \in Nat
    OBVIOUS
  <2> HIDE DEF t
  <2> QED
    BY <2>1, ConcatProperties DEF t
<1> HIDE DEF t
<1>2. i \in 1 .. Len(r) + Len(found)
  BY <1>1 DEF t
<1>3. CASE i <= Len(r)
  <2>1. i \in 1 .. Len(r)
    BY <1>1, <1>2, <1>3
  <2>2. t[i] = r[i]
    BY <1>1, <1>2, <1>3
  <2> QED
    BY <2>1, <2>2 DEF t
<1>4. CASE ~(i <= Len(r))
  <2>1. i > Len(r) /\ i - Len(r) \in 1 .. Len(found)
    BY <1>1, <1>2, <1>4
  <2>2. t[i] = found[i - Len(r)]
    BY <1>1, <1>2, <1>4
  <2> QED
    BY <2>1, <2>2 DEF t
<1> QED
  BY <1>3, <1>4

\* Answers that others follow, all of them right, are answers.
LEMMA AnswersGrow ==
  ASSUME NEW req, NEW r \in Seq(Line), NEW found \in Seq(Line), Answers(req, r),
         \A q \in 1 .. Len(found) :
           /\ found[q] \in written /\ InTime(req, found[q]) /\ OfResource(req, found[q])
           /\ After(r, found[q]),
         \A p, q \in 1 .. Len(found) : p < q =>
           found[p] # found[q] /\ found[p].second <= found[q].second
  PROVE  Answers(req, r \o found)
<1> DEFINE t == r \o found
<1>1. Len(r) \in Nat /\ Len(found) \in Nat
  OBVIOUS
<1>2. \A i \in 1 .. Len(t) :
        \/ i \in 1 .. Len(r) /\ t[i] = r[i]
        \/ i > Len(r) /\ i - Len(r) \in 1 .. Len(found) /\ t[i] = found[i - Len(r)]
  BY JoinedElements
<1> HIDE DEF t
<1>3. \A i \in 1 .. Len(t) :
        t[i] \in written /\ InTime(req, t[i]) /\ OfResource(req, t[i])
  BY <1>2 DEF Answers
<1>4. ASSUME NEW i \in 1 .. Len(t), NEW j \in 1 .. Len(t), i < j
      PROVE  t[i] # t[j] /\ t[i].second <= t[j].second
  <2>1. CASE i \in 1 .. Len(r) /\ t[i] = r[i] /\ j \in 1 .. Len(r) /\ t[j] = r[j]
    BY <1>4, <2>1 DEF Answers
  <2>2. CASE /\ i \in 1 .. Len(r) /\ t[i] = r[i]
             /\ j - Len(r) \in 1 .. Len(found) /\ t[j] = found[j - Len(r)]
    BY <2>2 DEF After
  <2>3. CASE /\ i - Len(r) \in 1 .. Len(found) /\ t[i] = found[i - Len(r)]
             /\ j - Len(r) \in 1 .. Len(found) /\ t[j] = found[j - Len(r)]
    <3>1. i - Len(r) < j - Len(r)
      BY <1>1, <1>4
    <3> QED
      BY <2>3, <3>1
  <2>4. ~(i > Len(r) /\ j \in 1 .. Len(r))
    BY <1>1, <1>4
  <2> QED
    BY <1>2, <2>1, <2>2, <2>3, <2>4
<1>5. Answers(req, t)
  BY <1>3, <1>4 DEF Answers
<1> QED
  BY <1>5 DEF t

\* A line that follows both parts follows the whole.
LEMMA AfterJoined ==
  ASSUME NEW r \in Seq(Line), NEW found \in Seq(Line), NEW l, After(r, l),
         \A q \in 1 .. Len(found) : found[q] # l /\ found[q].second <= l.second
  PROVE  After(r \o found, l)
<1> DEFINE t == r \o found
<1>1. \A i \in 1 .. Len(t) :
        \/ i \in 1 .. Len(r) /\ t[i] = r[i]
        \/ i - Len(r) \in 1 .. Len(found) /\ t[i] = found[i - Len(r)]
  BY JoinedElements
<1> HIDE DEF t
<1>2. After(t, l)
  BY <1>1 DEF After
<1> QED
  BY <1>2 DEF t

\* What is read from a file goes with what was found and with what remains.
LEMMA FileAnswers ==
  ASSUME LogSafe, search \in SearchRec, Ahead(files, search),
         Answers(search.req, search.result),
         NEW k \in 1 .. Len(files), files[k].name = search.names[search.pos],
         NEW found, found = Found(files[k].lines)
  PROVE  /\ found \in Seq(Line) /\ Answers(search.req, search.result \o found)
         /\ \A i \in 1 .. Len(files) : k < i => \A b \in 1 .. Len(files[i].lines) :
              \A q \in 1 .. Len(found) :
                /\ found[q] # files[i].lines[b]
                /\ found[q].second <= files[i].lines[b].second
<1> DEFINE all == files[k].lines
           r == search.result
           req == search.req
           o == search.offset
<1>1. /\ files \in Seq(FileRec) /\ Sorted(files) /\ Bounded(files[k], Edge, written)
      /\ files[k] \in FileRec
  BY DEF LogSafe, LogInv, Good
<1>2. /\ all \in Seq(Line) /\ Len(all) \in Nat /\ files[k].name \in Nat \X Nat
      /\ \A a \in 1 .. Len(all) : all[a].second \in Nat
  BY <1>1, FileTypes
<1>3. r \in Seq(Line) /\ o \in Nat /\ req.begin \in Nat
  BY SearchTypes
<1>4. /\ Drawn(found, all, o + 1 .. Len(all))
      /\ \A q \in 1 .. Len(found) : Fits(req, found[q])
  BY <1>2, FoundDraws
<1>5. ~Before(files[k].name, search.names[search.pos])
  <2>1. ~Before(files[k].name, files[k].name)
    BY <1>2, BeforeOrder
  <2> QED
    BY <2>1
<1>6. ASSUME NEW a \in o + 1 .. Len(all)
      PROVE  /\ a \in 1 .. Len(all) /\ all[a] \in written /\ After(r, all[a])
             /\ all[a].second >= req.begin
  <2>1. a \in 1 .. Len(all) /\ a > o
    BY <1>2, <1>3
  <2>2. all[a] \in written
    BY <1>1, <2>1 DEF Bounded
  <2>3. After(r, all[a]) /\ req.begin <= all[a].second
    BY <1>5, <2>1 DEF Ahead
  <2> QED
    BY <1>2, <1>3, <2>1, <2>2, <2>3
<1> HIDE DEF all, r, o, req
<1>7. found \in Seq(Line)
  BY <1>4 DEF Drawn
<1>8. ASSUME NEW q \in 1 .. Len(found)
      PROVE  /\ found[q] \in written /\ InTime(req, found[q]) /\ OfResource(req, found[q])
             /\ After(r, found[q])
  <2>1. PICK a \in o + 1 .. Len(all) : found[q] = all[a]
    BY <1>4 DEF Drawn
  <2>2. Fits(req, found[q])
    BY <1>4
  <2>3. found[q] \in written /\ After(r, found[q]) /\ found[q].second >= req.begin
    BY <1>6, <2>1
  <2> QED
    BY <2>2, <2>3 DEF Fits, InTime
<1>9. ASSUME NEW p \in 1 .. Len(found), NEW q \in 1 .. Len(found), p < q
      PROVE  found[p] # found[q] /\ found[p].second <= found[q].second
  <2>1. PICK a, b \in o + 1 .. Len(all) : a < b /\ found[p] = all[a] /\ found[q] = all[b]
    BY <1>4, <1>9 DEF Drawn
  <2>2. a \in 1 .. Len(files[k].lines) /\ b \in 1 .. Len(files[k].lines)
    BY <1>6 DEF all
  <2>3. /\ files[k].lines[a] # files[k].lines[b]
        /\ files[k].lines[a].second <= files[k].lines[b].second
    BY <1>1, <2>1, <2>2 DEF Sorted
  <2> QED
    BY <2>1, <2>3 DEF all
<1>10. Answers(req, r \o found)
  <2>1. Answers(req, r)
    BY DEF r, req
  <2> QED
    BY <1>3, <1>7, <1>8, <1>9, <2>1, AnswersGrow
<1>11. ASSUME NEW i \in 1 .. Len(files), k < i, NEW b \in 1 .. Len(files[i].lines),
              NEW q \in 1 .. Len(found)
       PROVE  found[q] # files[i].lines[b] /\ found[q].second <= files[i].lines[b].second
  <2>1. PICK a \in o + 1 .. Len(all) : found[q] = all[a]
    BY <1>4 DEF Drawn
  <2>2. a \in 1 .. Len(files[k].lines) /\ found[q] = files[k].lines[a]
    BY <1>6, <2>1 DEF all
  <2>3. /\ files[k].lines[a] # files[i].lines[b]
        /\ files[k].lines[a].second <= files[i].lines[b].second
    BY <1>1, <1>11, <2>2 DEF Sorted
  <2> QED
    BY <2>2, <2>3
<1> QED
  BY <1>7, <1>10, <1>11 DEF r, req

\* After a place that is not the last there is another.
LEMMA PlaceAfter ==
  ASSUME NEW n \in Nat, NEW k \in 1 .. n, k # n
  PROVE  k + 1 \in 1 .. n
OBVIOUS

\* A name that is not before a later one comes after the earlier one.
LEMMA BeforeTrans ==
  ASSUME NEW n \in Nat \X Nat, NEW m \in Nat \X Nat, NEW k \in Nat \X Nat,
         Before(n, m), ~Before(k, m)
  PROVE  Before(n, k)
<1>1. \A x \in Nat \X Nat : x[1] \in Nat /\ x[2] \in Nat
  OBVIOUS
<1>2. /\ n[1] \in Nat /\ n[2] \in Nat /\ m[1] \in Nat /\ m[2] \in Nat
      /\ k[1] \in Nat /\ k[2] \in Nat
  BY <1>1
<1> QED
  BY <1>2 DEF Before

\* Read turns to the name that comes next.
LEMMA NextIsAhead ==
  ASSUME LogSafe, search \in SearchRec, search.pos \in 1 .. Len(search.names),
         search.pos + 1 \in 1 .. Len(search.names), Ordered(search.names),
         Ahead(files, search), NEW found \in Seq(Line),
         \A i \in 1 .. Len(files) : ~Before(files[i].name, search.names[search.pos + 1]) =>
           \A b \in 1 .. Len(files[i].lines) : \A q \in 1 .. Len(found) :
             /\ found[q] # files[i].lines[b]
             /\ found[q].second <= files[i].lines[b].second,
         NEW s \in SearchRec, s.names = search.names, s.pos = search.pos + 1,
         s.req = search.req, s.result = search.result \o found
  PROVE  Ahead(files, s)
<1> DEFINE name == search.names[search.pos]
           turn == search.names[search.pos + 1]
<1>1. /\ name \in Nat \X Nat /\ turn \in Nat \X Nat /\ Before(name, turn)
      /\ s.names[s.pos] = turn
  <2>1. search.pos < search.pos + 1 /\ search.names \in Seq(Nat \X Nat)
    BY SearchTypes
  <2>2. Before(name, turn)
    BY <2>1 DEF Ordered
  <2>3. name \in Nat \X Nat /\ turn \in Nat \X Nat
    <3>1. \A i \in 1 .. Len(search.names) : search.names[i] \in Nat \X Nat
      BY <2>1
    <3> QED
      BY <3>1
  <2> QED
    BY <2>2, <2>3
<1>2. files \in Seq(FileRec) /\ search.result \in Seq(Line)
  BY SearchTypes DEF LogSafe, LogInv, Good
<1> HIDE DEF turn
<1> SUFFICES ASSUME NEW i \in 1 .. Len(files), ~Before(files[i].name, turn),
                    NEW b \in 1 .. Len(files[i].lines)
             PROVE  /\ After(s.result, files[i].lines[b])
                    /\ s.req.begin <= files[i].lines[b].second
  BY <1>1 DEF Ahead
<1>3. files[i].name \in Nat \X Nat
  <2>1. files[i] \in FileRec
    BY <1>2
  <2> QED
    BY <2>1, FileTypes
<1>4. ~Before(files[i].name, name) /\ files[i].name # name
  BY <1>1, <1>3, BeforeOrder
<1>5. After(search.result, files[i].lines[b]) /\ search.req.begin <= files[i].lines[b].second
  BY <1>4 DEF Ahead
<1>6. \A q \in 1 .. Len(found) :
        found[q] # files[i].lines[b] /\ found[q].second <= files[i].lines[b].second
  BY DEF turn
<1>7. After(search.result \o found, files[i].lines[b])
  BY <1>2, <1>5, <1>6, AfterJoined
<1> QED
  BY <1>5, <1>7

\* The lines one step of Read finds.
NowFound ==
  LET name == search.names[search.pos]
  IN IF ~Exists(name) THEN <<>> ELSE Found(File(name).lines)

\* Why a search ends: at its last name, at its limit, or, by end time, at a
\* line beyond the end or at a file that is gone.
Ends(r) ==
  \/ search.pos = Len(search.names) \/ Len(r) >= Limit(search.req)
  \/ /\ search.req.end # None
     /\ LET name == search.names[search.pos]
            all == File(name).lines
            lines == SubSeq(all, search.offset + 1, Len(all))
        IN Exists(name) => InRange(lines) # lines

\* What Read does to the search.
LEMMA ReadFinds ==
  ASSUME Read
  PROVE  /\ search.at = "read" /\ UNCHANGED logVars /\ UNCHANGED lastPos
         /\ \E a \in {"read", "done"} :
              /\ a = "read" => search.pos # Len(search.names)
              /\ a = "done" <=> Ends(search.result \o NowFound)
              /\ search' = [search EXCEPT !.result = search.result \o NowFound,
                                          !.pos = search.pos + 1, !.offset = 0, !.at = a]
<1> DEFINE name == search.names[search.pos]
           all == File(name).lines
           lines == SubSeq(all, search.offset + 1, Len(all))
           byEnd == search.req.end # None
           result == search.result \o
                     (IF ~Exists(name) THEN <<>>
                      ELSE IF byEnd THEN ReadByEndTime(lines) ELSE ReadLines(lines))
           ends == \/ search.pos = Len(search.names)
                   \/ Len(result) >= Limit(search.req)
                   \/ byEnd /\ ~Exists(name)
                   \/ byEnd /\ Exists(name) /\ InRange(lines) # lines
<1>1. result = search.result \o NowFound
  BY DEF NowFound, Found
<1>2. /\ search.at = "read"
      /\ search' = [search EXCEPT !.result = result, !.pos = search.pos + 1, !.offset = 0,
                                  !.at = IF ends THEN "done" ELSE "read"]
      /\ UNCHANGED logVars /\ UNCHANGED lastPos
  BY DEF Read, logVars
<1>3. ends <=> Ends(result)
  <2> HIDE DEF result
  <2> QED
    BY DEF Ends
<1>4. Ends(result) <=> Ends(search.result \o NowFound)
  BY <1>1
<1>5. ~ends => search.pos # Len(search.names)
  OBVIOUS
<1> HIDE DEF ends, result
<1>6. CASE ends
  <2>1. search' = [search EXCEPT !.result = search.result \o NowFound,
                                 !.pos = search.pos + 1, !.offset = 0, !.at = "done"]
    BY <1>1, <1>2, <1>6
  <2> QED
    BY <1>2, <1>3, <1>4, <1>6, <2>1
<1>7. CASE ~ends
  <2>1. search' = [search EXCEPT !.result = search.result \o NowFound,
                                 !.pos = search.pos + 1, !.offset = 0, !.at = "read"]
    BY <1>1, <1>2, <1>7
  <2> QED
    BY <1>2, <1>3, <1>4, <1>5, <1>7, <2>1
<1> QED
  BY <1>6, <1>7

\* What is found now goes with the answer and is followed by what is left.
LEMMA NowAnswers ==
  ASSUME LogSafe, search \in SearchRec, search.pos \in 1 .. Len(search.names),
         Ahead(files, search), Answers(search.req, search.result)
  PROVE  /\ NowFound \in Seq(Line) /\ Answers(search.req, search.result \o NowFound)
         /\ \A i \in 1 .. Len(files) : Before(search.names[search.pos], files[i].name) =>
              \A b \in 1 .. Len(files[i].lines) : \A q \in 1 .. Len(NowFound) :
                /\ NowFound[q] # files[i].lines[b]
                /\ NowFound[q].second <= files[i].lines[b].second
<1> DEFINE name == search.names[search.pos]
<1>0. /\ files \in Seq(FileRec) /\ Len(files) \in Nat /\ Named(files) /\ name \in Nat \X Nat
      /\ search.result \in Seq(Line)
  BY SearchTypes DEF LogSafe, LogInv, Good
<1>1. CASE ~Exists(name)
  <2>1. NowFound = <<>>
    BY <1>1 DEF NowFound
  <2>2. NowFound \in Seq(Line) /\ 1 .. Len(NowFound) = {}
    BY <2>1, EmptySeq
  <2>3. search.result \o NowFound = search.result
    BY <1>0, <2>1, ConcatEmptySeq
  <2> QED
    BY <2>2, <2>3
<1>2. CASE Exists(name)
  <2>1. PICK k \in 1 .. Len(files) : files[k].name = name /\ File(name) = files[k]
    BY <1>0, <1>2, FileFound
  <2>2. NowFound = Found(files[k].lines)
    BY <1>2, <2>1 DEF NowFound
  <2> HIDE DEF NowFound
  <2>3. /\ NowFound \in Seq(Line) /\ Answers(search.req, search.result \o NowFound)
        /\ \A i \in 1 .. Len(files) : k < i => \A b \in 1 .. Len(files[i].lines) :
             \A q \in 1 .. Len(NowFound) :
               /\ NowFound[q] # files[i].lines[b]
               /\ NowFound[q].second <= files[i].lines[b].second
    BY <2>1, <2>2, FileAnswers
  <2>4. ASSUME NEW i \in 1 .. Len(files), Before(name, files[i].name)
        PROVE  k < i
    <3>1. files[i].name \in Nat \X Nat
      <4>1. files[i] \in FileRec
        BY <1>0
      <4> QED
        BY <4>1, FileTypes
    <3>2. ~Before(files[i].name, files[k].name) /\ files[i].name # files[k].name
      BY <1>0, <2>1, <2>4, <3>1, BeforeOrder
    <3>3. ~(i < k) /\ i # k
      BY <1>0, <3>2 DEF Named
    <3> QED
      BY ONLY <1>0, <3>3, i \in 1 .. Len(files), k \in 1 .. Len(files)
  <2> QED
    BY <2>3, <2>4
<1> QED
  BY <1>1, <1>2

\* Read keeps the invariant of the search.
LEMMA ReadSearches ==
  ASSUME LogSafe, SearchTypeOK, SearchInv, Read
  PROVE  SearchTypeOK' /\ SearchInv'
<1>1. search.at = "read" /\ UNCHANGED logVars /\ UNCHANGED lastPos
  BY ReadFinds
<1>2. PICK a \in {"read", "done"} :
        /\ a = "read" => search.pos # Len(search.names)
        /\ search' = [search EXCEPT !.result = search.result \o NowFound,
                                    !.pos = search.pos + 1, !.offset = 0, !.at = a]
  BY ReadFinds
<1>3. /\ search # NoSearch /\ search \in SearchRec /\ search.pos >= 1
      /\ Ordered(search.names) /\ Answers(search.req, search.result)
      /\ search.pos <= Len(search.names) /\ search.req.begin <= Edge
      /\ Ahead(files, search)
  BY <1>1, SearchIsOn DEF SearchInv, SearchTypeOK
<1>4. /\ search.names \in Seq(Nat \X Nat) /\ search.pos \in Nat /\ Len(search.names) \in Nat
      /\ search.pos \in 1 .. Len(search.names) /\ search.result \in Seq(Line)
  BY <1>3, SearchTypes
<1>5. /\ NowFound \in Seq(Line) /\ Answers(search.req, search.result \o NowFound)
      /\ \A i \in 1 .. Len(files) : Before(search.names[search.pos], files[i].name) =>
           \A b \in 1 .. Len(files[i].lines) : \A q \in 1 .. Len(NowFound) :
             /\ NowFound[q] # files[i].lines[b]
             /\ NowFound[q].second <= files[i].lines[b].second
  BY <1>3, <1>4, NowAnswers
<1> DEFINE r == search.result \o NowFound
           p == search.pos + 1
<1>6. r \in Seq(Line) /\ p \in Nat /\ p >= 1
  BY <1>4, <1>5
<1>7. search' = TurnTo(search, r, p, a)
  BY <1>2 DEF TurnTo
<1> HIDE DEF r, p
<1>a. a = "read" \/ a = "done"
  BY <1>2
<1>8. /\ search' \in SearchRec /\ search'.at = a /\ search'.req = search.req
      /\ search'.names = search.names /\ search'.pos = p /\ search'.offset = 0
      /\ search'.result = r
  BY <1>3, <1>6, <1>7, <1>a, FileDone
<1>9. files' = files /\ Edge' = Edge /\ written' = written
  BY <1>1 DEF logVars, Edge, Second, Pending, disk, round, writer
<1>10. SearchTypeOK'
  BY <1>1, <1>6, <1>8 DEF SearchTypeOK
<1>11. Answers(search.req, search.result)'
  BY <1>5, <1>8, <1>9 DEF Answers, r
<1>12. ASSUME a = "read" PROVE search'.pos <= Len(search'.names) /\ Ahead(files, search)'
  <2>1. p \in 1 .. Len(search.names) /\ search.pos # Len(search.names)
    <3>1. search.pos # Len(search.names) /\ p = search.pos + 1
      BY <1>2, <1>12 DEF p
    <3>2. search.pos + 1 \in 1 .. Len(search.names)
      BY <1>4, <3>1, PlaceAfter
    <3> QED
      BY <3>1, <3>2
  <2>2. p = search.pos + 1
    BY DEF p
  <2>3. PICK s \in SearchRec : s = search'
    BY <1>8
  <2>4. ASSUME NEW i \in 1 .. Len(files), ~Before(files[i].name, search.names[search.pos + 1])
        PROVE  Before(search.names[search.pos], files[i].name)
    <3>1. files[i].name \in Nat \X Nat
      <4>1. files[i] \in FileRec
        BY DEF LogSafe, LogInv, Good
      <4> QED
        BY <4>1, FileTypes
    <3>2. Before(search.names[search.pos], search.names[search.pos + 1])
      <4>1. search.pos < search.pos + 1
        BY <1>4
      <4> QED
        BY <1>3, <1>4, <2>1, <2>2, <4>1 DEF Ordered
    <3>3. /\ search.names[search.pos] \in Nat \X Nat
          /\ search.names[search.pos + 1] \in Nat \X Nat
      <4>1. \A j \in 1 .. Len(search.names) : search.names[j] \in Nat \X Nat
        BY <1>4
      <4> QED
        BY <1>4, <2>1, <2>2, <4>1
    <3> QED
      BY <2>4, <3>1, <3>2, <3>3, BeforeTrans
  <2>5. Ahead(files, s)
    <3>1. /\ s.names = search.names /\ s.pos = search.pos + 1
          /\ s.req = search.req /\ s.result = search.result \o NowFound
      BY <1>8, <2>2, <2>3 DEF r
    <3> QED
      BY <1>3, <1>4, <1>5, <2>1, <2>2, <2>4, <3>1, NextIsAhead
  <2>6. Ahead(files, search)'
    BY <1>9, <2>3, <2>5 DEF Ahead
  <2> QED
    BY <1>8, <2>1, <2>6
<1> QED
  BY <1>3, <1>8, <1>9, <1>10, <1>11, <1>12 DEF SearchInv

\* The answer that is ready, or that there is none.
LEMMA AtDone ==
  ASSUME NEW s \in SearchRec
  PROVE  LET t == [s EXCEPT !.at = "done"]
         IN  /\ t \in SearchRec /\ t.at = "done" /\ t.req = s.req /\ t.names = s.names
             /\ t.pos = s.pos /\ t.offset = s.offset /\ t.result = s.result
<1> DEFINE t == [s EXCEPT !.at = "done"]
<1>1. /\ t.at = "done" /\ t.req = s.req /\ t.names = s.names /\ t.pos = s.pos
      /\ t.offset = s.offset /\ t.result = s.result
  BY DEF SearchRec
<1>2. t \in SearchRec
  BY DEF SearchRec
<1> QED
  BY <1>1, <1>2

\* So does an answer without lines.
LEMMA NotFoundSearches ==
  ASSUME SearchTypeOK, SearchInv, NotFound
  PROVE  SearchTypeOK' /\ SearchInv'
<1>1. /\ search.at = "scan" /\ search' = [search EXCEPT !.at = "done"]
      /\ lastPos' = lastPos /\ written' = written
  BY DEF NotFound, disk
<1>2. /\ search # NoSearch /\ search \in SearchRec /\ search.pos >= 1
      /\ Ordered(search.names) /\ Answers(search.req, search.result)
  BY <1>1, SearchIsOn DEF SearchInv, SearchTypeOK
<1>3. /\ search' \in SearchRec /\ search'.at = "done" /\ search'.req = search.req
      /\ search'.names = search.names /\ search'.pos = search.pos
      /\ search'.result = search.result
  BY <1>1, <1>2, AtDone
<1>4. Answers(search.req, search.result)'
  BY <1>1, <1>2, <1>3 DEF Answers
<1> QED
  BY <1>1, <1>2, <1>3, <1>4 DEF SearchTypeOK, SearchInv

\* The steps of the writer and of the nodes leave a search as it was, and what
\* it has yet to read ahead of it.
LEMMA OthersSearch ==
  ASSUME LogSafe, LogSafe', (Edge \in Nat)', [Next]_vars, SearchTypeOK, SearchInv,
         UNCHANGED <<lastPos, search>>
  PROVE  SearchTypeOK' /\ SearchInv'
<1>1. /\ Keeps(files, files', Edge, written) /\ Edge <= Edge' /\ written \subseteq written'
      /\ files' \in Seq(FileRec) /\ Edge \in Nat /\ Edge' \in Nat
  <2>1. Edge \in Nat
    BY EdgeTypes DEF LogSafe
  <2>2. files' \in Seq(FileRec)
    BY DEF LogSafe, LogInv, Good
  <2> QED
    BY <2>1, <2>2, FilesKept
<1>2. SearchTypeOK'
  BY DEF SearchTypeOK
<1>3. ASSUME search # NoSearch
      PROVE  /\ Answers(search.req, search.result)'
             /\ search.at = "read" => (search.req.begin <= Edge)' /\ Ahead(files, search)'
  <2>1. search \in SearchRec /\ Answers(search.req, search.result)
    BY <1>3 DEF SearchTypeOK, SearchInv
  <2>2. Answers(search.req, search.result)'
    BY <1>1, <2>1 DEF Answers
  <2>3. ASSUME search.at = "read"
        PROVE  (search.req.begin <= Edge)' /\ Ahead(files, search)'
    <3>1. search.req.begin <= Edge /\ Ahead(files, search)
      BY <1>3, <2>3 DEF SearchInv
    <3>2. search.req.begin \in Nat
      BY <2>1, SearchTypes
    <3>3. (search.req.begin <= Edge)'
      BY <1>1, <3>1, <3>2
    <3>4. \A j \in 1 .. Len(search.result) : search.result[j] \in written
      BY <2>1 DEF Answers
    <3>5. PICK gs \in Seq(FileRec) : gs = files'
      BY <1>1
    <3>6. Keeps(files, gs, Edge, written)
      BY <1>1, <3>5
    <3>7. Ahead(gs, search)
      BY <1>1, <2>1, <3>1, <3>2, <3>4, <3>6, AheadKept
    <3>8. Ahead(files, search)'
      BY <3>5, <3>7 DEF Ahead
    <3> QED
      BY <3>3, <3>8
  <2> QED
    BY <2>2, <2>3
<1>4. SearchInv'
  BY <1>3 DEF SearchInv
<1> QED
  BY <1>2, <1>4

\* The handler's search is over when it responds or the process is gone.
LEMMA NoneSearches ==
  ASSUME SearchTypeOK, Respond \/ Crash
  PROVE  SearchTypeOK' /\ SearchInv'
<1>1. search' = NoSearch /\ (lastPos' = lastPos \/ lastPos' = [name |-> None, offset |-> -1])
  BY DEF Respond, Crash
<1> QED
  BY <1>1 DEF SearchTypeOK, SearchInv

\* Every step keeps the invariant of the search.
LEMMA NextSearch ==
  ASSUME LogSafe, LogSafe', (Edge \in Nat)', [Next]_vars, SearchTypeOK, SearchInv
  PROVE  SearchTypeOK' /\ SearchInv'
<1>1. CASE UNCHANGED <<lastPos, search>>
  BY <1>1, OthersSearch
<1>2. CASE \E req \in Requests : Find(req) \/ FindByTimeAndResource(req)
  BY <1>2, BeginSearches DEF Find, FindByTimeAndResource
<1>3. CASE FindOffset
  BY <1>3, FindOffsetSearches
<1>4. CASE Read
  BY <1>4, ReadSearches
<1>5. CASE NotFound
  BY <1>5, NotFoundSearches
<1>6. CASE Respond \/ Crash
  BY <1>6, NoneSearches
<1>7. CASE \/ UNCHANGED vars \/ Tick \/ Initialize \/ Collect \/ Write \/ WriteLines \/ Wake
           \/ Stop \/ \E r \in Resources : Record(r)
  <2>1. UNCHANGED <<lastPos, search>>
    BY <1>7 DEF vars, finder, Tick, Initialize, Collect, Write, WriteLines, Wake, Stop, Record
  <2> QED
    BY <2>1, OthersSearch
<1> QED
  BY <1>2, <1>3, <1>4, <1>5, <1>6, <1>7 DEF Next, Task

\* At the start there is no search.
LEMMA InitSearch == Init => SearchTypeOK /\ SearchInv
<1> SUFFICES ASSUME Init PROVE SearchTypeOK /\ SearchInv
  OBVIOUS
<1>1. lastPos = [name |-> None, offset |-> -1] /\ search = NoSearch
  BY DEF Init
<1> QED
  BY <1>1 DEF SearchTypeOK, SearchInv

\* Whatever RunLogTask writes, MetricWriter rolls over and removes between the
\* steps of a search, MetricSearcher answers with lines of the range and the
\* resource asked for, by their seconds and each once.
THEOREM SearchIsSound == Spec => []SearchSound
<1>1. Init => SearchTypeOK /\ SearchInv
  BY InitSearch
<1>2. LogSafe => Edge \in Nat
  BY EdgeTypes DEF LogSafe
<1>3. LogSafe /\ LogSafe' /\ (Edge \in Nat)' /\ SearchTypeOK /\ SearchInv /\ [Next]_vars
        => SearchTypeOK' /\ SearchInv'
  BY NextSearch
<1>4. SearchTypeOK /\ SearchInv => SearchSound
  <2> SUFFICES ASSUME SearchTypeOK, SearchInv, search.at = "done"
               PROVE  /\ \A l \in ToSet(search.result) :
                           InTime(search.req, l) /\ OfResource(search.req, l)
                      /\ \A i, j \in 1 .. Len(search.result) : i < j =>
                           /\ search.result[i] # search.result[j]
                           /\ search.result[i].second <= search.result[j].second
    BY DEF SearchSound
  <2>1. Answers(search.req, search.result)
    BY SearchIsOn DEF SearchInv
  <2> QED
    BY <2>1 DEF Answers, ToSet
<1> QED
  BY <1>1, <1>2, <1>3, <1>4, LogSafeAlways, PTL DEF Spec

-----------------------------------------------------------------------------
(***************************************************************************)
(* Which lines the index leads to.                                         *)
(***************************************************************************)
\* Entry m of file j, which is file i or an older one, comes before line a of i.
Precedes(fs, j, m, i, a) == j = i => fs[j].idx[m][2] < a

\* From file j on there is an entry of second s before line a of file i.
Entered(fs, j, i, a, s) ==
  \E k \in j .. i : \E n \in 1 .. Len(fs[k].idx) :
    Precedes(fs, k, n, i, a) /\ fs[k].idx[n][1] = s

\* A line that comes after some entry comes after one of its own second, in
\* the same file as the other or a younger one.
Covered(fs) ==
  \A i \in 1 .. Len(fs) : \A a \in 1 .. Len(fs[i].lines) :
    \A j \in 1 .. i : \A m \in 1 .. Len(fs[j].idx) :
      Precedes(fs, j, m, i, a) => Entered(fs, j, i, a, fs[i].lines[a].second)

\* So would lines of second s that were to come now.
Headed(fs, s) ==
  \A j \in 1 .. Len(fs) : fs[j].idx # <<>> =>
    \E k \in j .. Len(fs) : \E n \in 1 .. Len(fs[k].idx) : fs[k].idx[n][1] = s

\* Once the writer has entered a second, what it adds to it is covered.
CoverInv ==
  /\ Covered(files)
  /\ task = "off" => firstWrite
  /\ task = "lines" => Headed(files, Second)
  /\ task # "lines" /\ ~firstWrite => Headed(files, lastSecond)

\* CloseAndNewFile takes files away as a whole, with the entries in them.
LEMMA CloseCovers ==
  ASSUME NEW fs, NEW c, NEW d, Closed(fs, c, d)
  PROVE  (Covered(fs) => Covered(c)) /\ \A s : Headed(fs, s) => Headed(c, s)
<1>1. /\ Len(fs) \in Nat /\ d \in 0 .. Len(fs) /\ Len(c) = Len(fs) - d + 1
      /\ \A i \in 1 .. Len(fs) - d : c[i] = fs[i + d]
      /\ 1 .. Len(c[Len(c)].lines) = {} /\ c[Len(c)].idx = <<>>
  BY EmptySeq DEF Closed
<1>2. ASSUME NEW i \in 1 .. Len(c), i # Len(c)
      PROVE  i + d \in 1 .. Len(fs) /\ c[i] = fs[i + d]
  <2>1. i \in 1 .. Len(fs) - d /\ i + d \in 1 .. Len(fs)
    BY <1>1, <1>2
  <2> QED
    BY <1>1, <2>1
<1>3. ASSUME Covered(fs) PROVE Covered(c)
  <2> SUFFICES ASSUME NEW i \in 1 .. Len(c), NEW a \in 1 .. Len(c[i].lines),
                      NEW j \in 1 .. i, NEW m \in 1 .. Len(c[j].idx), Precedes(c, j, m, i, a)
               PROVE  Entered(c, j, i, a, c[i].lines[a].second)
    BY DEF Covered
  <2>1. i # Len(c)
    BY <1>1
  <2>2. i + d \in 1 .. Len(fs) /\ c[i] = fs[i + d]
    BY <1>2, <2>1
  <2>3. j \in 1 .. Len(c) /\ j # Len(c)
    BY <1>1, <2>1
  <2>4. j + d \in 1 .. Len(fs) /\ c[j] = fs[j + d]
    BY <1>2, <2>3
  <2>5. j + d \in 1 .. i + d /\ (j + d = i + d => j = i)
    BY <1>1
  <2>6. Precedes(fs, j + d, m, i + d, a)
    BY <2>4, <2>5 DEF Precedes
  <2>7. Entered(fs, j + d, i + d, a, c[i].lines[a].second)
    BY <1>3, <2>2, <2>4, <2>5, <2>6 DEF Covered
  <2>8. PICK k \in j + d .. i + d : \E n \in 1 .. Len(fs[k].idx) :
               Precedes(fs, k, n, i + d, a) /\ fs[k].idx[n][1] = c[i].lines[a].second
    BY <2>7 DEF Entered
  <2>9. k - d \in j .. i /\ k - d \in 1 .. Len(c) /\ k - d # Len(c) /\ (k - d) + d = k
        /\ (k - d = i => k = i + d)
    <3>1. i + d <= Len(fs) /\ i \in Nat /\ k \in Int /\ d \in Nat /\ j \in Nat /\ j >= 1
      BY <1>1, <2>2
    <3>2. k >= j + d /\ k <= i + d
      BY <3>1
    <3> QED
      BY ONLY <1>1, <3>1, <3>2
  <2>10. c[k - d] = fs[k]
    BY <1>2, <2>9
  <2>11. \A n \in 1 .. Len(fs[k].idx) : Precedes(fs, k, n, i + d, a) => Precedes(c, k - d, n, i, a)
    BY <2>9, <2>10 DEF Precedes
  <2> QED
    BY <2>8, <2>9, <2>10, <2>11 DEF Entered
<1>4. ASSUME NEW s, Headed(fs, s) PROVE Headed(c, s)
  <2> SUFFICES ASSUME NEW j \in 1 .. Len(c), c[j].idx # <<>>
               PROVE  \E k \in j .. Len(c) : \E n \in 1 .. Len(c[k].idx) : c[k].idx[n][1] = s
    BY DEF Headed
  <2>1. j # Len(c)
    BY <1>1
  <2>2. j + d \in 1 .. Len(fs) /\ c[j] = fs[j + d]
    BY <1>2, <2>1
  <2>3. PICK k \in j + d .. Len(fs) : \E n \in 1 .. Len(fs[k].idx) : fs[k].idx[n][1] = s
    BY <1>4, <2>2 DEF Headed
  <2>4. k - d \in j .. Len(c) /\ k - d \in 1 .. Len(c) /\ k - d # Len(c) /\ (k - d) + d = k
    BY <1>1
  <2>5. c[k - d] = fs[k]
    BY <1>2, <2>4
  <2> QED
    BY <2>3, <2>4, <2>5
<1> QED
  BY <1>3, <1>4

\* What WriteMetric's index entry changes.
LEMMA IndexShape ==
  ASSUME NEW fs \in Seq(FileRec), fs # <<>>, NEW s \in Nat
  PROVE  LET n == Len(fs)
             c == WriteIndex(fs, s)
         IN  /\ Len(c) = n /\ n \in Nat /\ n \in 1 .. n
             /\ \A i \in 1 .. n : /\ c[i].name = fs[i].name /\ c[i].lines = fs[i].lines
                                  /\ i # n => c[i].idx = fs[i].idx
             /\ Len(c[n].idx) = Len(fs[n].idx) + 1
             /\ \A m \in 1 .. Len(fs[n].idx) : c[n].idx[m] = fs[n].idx[m]
             /\ c[n].idx[Len(fs[n].idx) + 1] = <<s, Len(fs[n].lines)>>
<1> DEFINE n == Len(fs)
           f == fs[n]
           entry == <<s, Len(f.lines)>>
           g == [f EXCEPT !.idx = Append(@, entry)]
           c == WriteIndex(fs, s)
<1>1. n \in Nat /\ n \in 1 .. n /\ f \in FileRec
  OBVIOUS
<1>2. c = [fs EXCEPT ![n] = g]
  BY DEF WriteIndex
<1>3. f.idx \in Seq(Nat \X Nat) /\ entry \in Nat \X Nat
  BY <1>1, FileTypes
<1>4. g.name = f.name /\ g.lines = f.lines /\ g.idx = Append(f.idx, entry)
  <2> HIDE DEF f, entry
  <2> QED
    BY <1>1 DEF FileRec
<1> HIDE DEF f, entry, g
<1>5. /\ Len(g.idx) = Len(f.idx) + 1 /\ g.idx[Len(f.idx) + 1] = entry
      /\ \A m \in 1 .. Len(f.idx) : g.idx[m] = f.idx[m]
  BY <1>3, <1>4, AppendProperties
<1>6. Len(c) = n /\ \A i \in 1 .. n : c[i] = IF i = n THEN g ELSE fs[i]
  <2>1. n = Len(fs) /\ n \in Nat /\ fs \in Seq(FileRec)
    BY <1>1
  <2> HIDE DEF n, c
  <2>2. Len(c) = n
    BY ONLY <1>2, <2>1
  <2>3. ASSUME NEW i \in 1 .. n PROVE c[i] = IF i = n THEN g ELSE fs[i]
    BY ONLY <1>2, <2>1, <2>3
  <2> QED
    BY <2>2, <2>3
<1> HIDE DEF c
<1>7. c[n] = g
  BY <1>1, <1>6
<1>8. /\ Len(c[n].idx) = Len(f.idx) + 1 /\ c[n].idx[Len(f.idx) + 1] = entry
      /\ \A m \in 1 .. Len(f.idx) : c[n].idx[m] = f.idx[m]
  BY <1>5, <1>7
<1>9. \A i \in 1 .. n : /\ c[i].name = fs[i].name /\ c[i].lines = fs[i].lines
                        /\ i # n => c[i].idx = fs[i].idx
  BY <1>1, <1>4, <1>6 DEF f
<1> QED
  BY <1>1, <1>6, <1>8, <1>9 DEF c, f, entry

\* The entry it adds comes before no line yet, and before those to come.
LEMMA IndexCovers ==
  ASSUME NEW fs \in Seq(FileRec), fs # <<>>, NEW s \in Nat
  PROVE  /\ Covered(fs) => Covered(WriteIndex(fs, s))
         /\ Headed(WriteIndex(fs, s), s)
<1> DEFINE n == Len(fs)
           c == WriteIndex(fs, s)
           x == Len(fs[n].idx)
<1>1. /\ Len(c) = n /\ n \in Nat /\ n \in 1 .. n
      /\ \A i \in 1 .. n : /\ c[i].name = fs[i].name /\ c[i].lines = fs[i].lines
                           /\ i # n => c[i].idx = fs[i].idx
      /\ Len(c[n].idx) = x + 1
      /\ \A m \in 1 .. x : c[n].idx[m] = fs[n].idx[m]
      /\ c[n].idx[x + 1] = <<s, Len(fs[n].lines)>>
  BY IndexShape
<1>2. x \in Nat /\ Len(fs[n].lines) \in Nat
  <2>1. fs[n] \in FileRec
    BY <1>1
  <2> QED
    BY <2>1, FileTypes
<1> HIDE DEF c, x, n
<1>3. \A j \in 1 .. n : \A m \in 1 .. Len(c[j].idx) :
        \/ m \in 1 .. Len(fs[j].idx) /\ c[j].idx[m] = fs[j].idx[m]
        \/ j = n /\ m = x + 1
  <2> SUFFICES ASSUME NEW j \in 1 .. n, NEW m \in 1 .. Len(c[j].idx), ~(j = n /\ m = x + 1)
               PROVE  m \in 1 .. Len(fs[j].idx) /\ c[j].idx[m] = fs[j].idx[m]
    OBVIOUS
  <2>1. CASE j # n
    BY <1>1, <2>1
  <2>2. CASE j = n
    <3>1. m \in 1 .. x + 1 /\ m # x + 1
      BY <1>1, <2>2
    <3>2. m \in 1 .. x
      BY <1>2, <3>1
    <3> QED
      BY <1>1, <2>2, <3>2 DEF x
  <2> QED
    BY <2>1, <2>2
<1>4. \A j \in 1 .. n : \A m \in 1 .. Len(fs[j].idx) :
        m \in 1 .. Len(c[j].idx) /\ c[j].idx[m] = fs[j].idx[m]
  <2> SUFFICES ASSUME NEW j \in 1 .. n, NEW m \in 1 .. Len(fs[j].idx)
               PROVE  m \in 1 .. Len(c[j].idx) /\ c[j].idx[m] = fs[j].idx[m]
    OBVIOUS
  <2>1. CASE j # n
    BY <1>1, <2>1
  <2>2. CASE j = n
    <3>1. m \in 1 .. x
      BY <2>2 DEF x
    <3>2. m \in 1 .. x + 1
      BY <1>2, <3>1
    <3> QED
      BY <1>1, <2>2, <3>1, <3>2
  <2> QED
    BY <2>1, <2>2
<1>5. ASSUME Covered(fs) PROVE Covered(c)
  <2> SUFFICES ASSUME NEW i \in 1 .. n, NEW a \in 1 .. Len(fs[i].lines),
                      NEW j \in 1 .. i, NEW m \in 1 .. Len(c[j].idx), Precedes(c, j, m, i, a)
               PROVE  Entered(c, j, i, a, fs[i].lines[a].second)
    BY <1>1 DEF Covered
  <2>1. j \in 1 .. n /\ (j = n => i = n)
    BY <1>1
  <2>2. ~(j = n /\ m = x + 1)
    <3> SUFFICES ASSUME j = n, m = x + 1 PROVE FALSE
      OBVIOUS
    <3>1. c[j].idx[m][2] < a
      BY <2>1 DEF Precedes
    <3>2. c[j].idx[m][2] = Len(fs[n].lines)
      BY <1>1
    <3>3. a \in 1 .. Len(fs[n].lines)
      BY <2>1
    <3> QED
      BY <1>2, <3>1, <3>2, <3>3
  <2>3. m \in 1 .. Len(fs[j].idx) /\ c[j].idx[m] = fs[j].idx[m]
    BY <1>3, <2>1, <2>2
  <2>4. Precedes(fs, j, m, i, a)
    BY <2>3 DEF Precedes
  <2>5. Entered(fs, j, i, a, fs[i].lines[a].second)
    BY <1>5, <2>3, <2>4 DEF Covered, n
  <2>6. PICK k \in j .. i : \E q \in 1 .. Len(fs[k].idx) :
               Precedes(fs, k, q, i, a) /\ fs[k].idx[q][1] = fs[i].lines[a].second
    BY <2>5 DEF Entered
  <2>7. k \in 1 .. n
    BY <1>1
  <2>8. \A q \in 1 .. Len(fs[k].idx) :
          /\ q \in 1 .. Len(c[k].idx) /\ c[k].idx[q] = fs[k].idx[q]
          /\ Precedes(fs, k, q, i, a) => Precedes(c, k, q, i, a)
    BY <1>4, <2>7 DEF Precedes
  <2> QED
    BY <2>6, <2>8 DEF Entered
<1>6. Headed(c, s)
  <2>1. \A j \in 1 .. Len(c) : n \in j .. Len(c)
    BY <1>1
  <2>2. x + 1 \in 1 .. Len(c[n].idx) /\ c[n].idx[x + 1][1] = s
    BY <1>1, <1>2
  <2> QED
    BY <2>1, <2>2 DEF Headed
<1> QED
  BY <1>5, <1>6 DEF c

\* What DoWrite's lines change.
LEMMA AppendShape ==
  ASSUME NEW fs \in Seq(FileRec), fs # <<>>, NEW ls \in Seq(Line),
         NEW more, more = [fs EXCEPT ![Len(fs)].lines = @ \o ls]
  PROVE  LET n == Len(fs)
             b == Len(fs[n].lines)
         IN  /\ Len(more) = n /\ n \in Nat /\ n \in 1 .. n /\ b \in Nat
             /\ \A i \in 1 .. n : /\ more[i].name = fs[i].name /\ more[i].idx = fs[i].idx
                                  /\ i # n => more[i].lines = fs[i].lines
             /\ Len(more[n].lines) = b + Len(ls)
             /\ \A a \in 1 .. b : more[n].lines[a] = fs[n].lines[a]
             /\ \A a \in 1 .. b + Len(ls) : a > b =>
                  a - b \in 1 .. Len(ls) /\ more[n].lines[a] = ls[a - b]
<1> DEFINE n == Len(fs)
           f == fs[n]
           b == Len(f.lines)
           g == [f EXCEPT !.lines = @ \o ls]
<1>1. n \in Nat /\ n \in 1 .. n /\ f \in FileRec
  OBVIOUS
<1>2. more = [fs EXCEPT ![n] = g]
  OBVIOUS
<1>3. f.lines \in Seq(Line) /\ b \in Nat /\ Len(ls) \in Nat
  BY <1>1, FileTypes
<1>4. g.name = f.name /\ g.idx = f.idx /\ g.lines = f.lines \o ls
  <2> HIDE DEF f
  <2> QED
    BY <1>1 DEF FileRec
<1>5. /\ Len(g.lines) = b + Len(ls)
      /\ \A j \in 1 .. b + Len(ls) : g.lines[j] = IF j <= b THEN f.lines[j] ELSE ls[j - b]
  <2> HIDE DEF g, f
  <2> QED
    BY <1>3, <1>4, ConcatProperties
<1>6. Len(more) = n /\ \A i \in 1 .. n : more[i] = IF i = n THEN g ELSE fs[i]
  <2>1. n = Len(fs) /\ n \in Nat /\ fs \in Seq(FileRec)
    BY <1>1
  <2> HIDE DEF g, n
  <2>2. Len(more) = n
    BY ONLY <1>2, <2>1
  <2>3. ASSUME NEW i \in 1 .. n PROVE more[i] = IF i = n THEN g ELSE fs[i]
    BY ONLY <1>2, <2>1, <2>3
  <2> QED
    BY <2>2, <2>3
<1> HIDE DEF g, b, f
<1>7. more[n] = g
  BY <1>1, <1>6
<1>8. /\ \A a \in 1 .. b : a \in 1 .. b + Len(ls) /\ a <= b
      /\ \A a \in 1 .. b + Len(ls) : a > b => a - b \in 1 .. Len(ls) /\ ~(a <= b)
  BY <1>3
<1>9. /\ Len(more[n].lines) = b + Len(ls)
      /\ \A a \in 1 .. b : more[n].lines[a] = f.lines[a]
      /\ \A a \in 1 .. b + Len(ls) : a > b =>
           a - b \in 1 .. Len(ls) /\ more[n].lines[a] = ls[a - b]
  BY <1>5, <1>7, <1>8
<1>10. \A i \in 1 .. n : /\ more[i].name = fs[i].name /\ more[i].idx = fs[i].idx
                         /\ i # n => more[i].lines = fs[i].lines
  BY <1>4, <1>6 DEF f
<1> HIDE DEF n
<1> QED
  BY <1>1, <1>3, <1>6, <1>9, <1>10 DEF n, f, b

\* Lines of second s come to files whose indexes are sound.
LinesCome(fs, more, ls, s) ==
  /\ fs \in Seq(FileRec) /\ fs # <<>> /\ ls \in Seq(Line)
  /\ more = [fs EXCEPT ![Len(fs)].lines = @ \o ls]
  /\ \A i \in 1 .. Len(fs) : SoundIndex(fs[i])
  /\ \A a \in 1 .. Len(ls) : ls[a].second = s

\* Lines of a second that heads the index are covered when they come.
LEMMA AppendCovers ==
  ASSUME NEW fs, NEW more, NEW ls, NEW s, LinesCome(fs, more, ls, s),
         Covered(fs), Headed(fs, s)
  PROVE  Covered(more) /\ Headed(more, s)
<1>0. /\ fs \in Seq(FileRec) /\ fs # <<>> /\ ls \in Seq(Line)
      /\ more = [fs EXCEPT ![Len(fs)].lines = @ \o ls]
      /\ \A i \in 1 .. Len(fs) : SoundIndex(fs[i])
      /\ \A a \in 1 .. Len(ls) : ls[a].second = s
  BY DEF LinesCome
<1> DEFINE n == Len(fs)
           b == Len(fs[n].lines)
<1>1. /\ Len(more) = n /\ n \in Nat /\ n \in 1 .. n /\ b \in Nat
      /\ \A i \in 1 .. n : /\ more[i].idx = fs[i].idx
                           /\ i # n => more[i].lines = fs[i].lines
      /\ Len(more[n].lines) = b + Len(ls)
      /\ \A a \in 1 .. b : more[n].lines[a] = fs[n].lines[a]
      /\ \A a \in 1 .. b + Len(ls) : a > b =>
           a - b \in 1 .. Len(ls) /\ more[n].lines[a] = ls[a - b]
  BY ONLY <1>0, AppendShape
<1> HIDE DEF n, b
<1>2. \A j, i \in 1 .. n : \A m, a : Precedes(more, j, m, i, a) <=> Precedes(fs, j, m, i, a)
  BY <1>1 DEF Precedes
<1>3. ASSUME NEW i \in 1 .. n, NEW a, NEW j \in 1 .. i, NEW t
      PROVE  Entered(more, j, i, a, t) <=> Entered(fs, j, i, a, t)
  <2>1. \A k \in j .. i : k \in 1 .. n
    BY <1>1
  <2>2. \A k \in j .. i : more[k].idx = fs[k].idx
    BY <1>1, <2>1
  <2> QED
    BY <1>2, <2>1, <2>2 DEF Entered
<1>4. Headed(more, s)
  <2>1. \A j \in 1 .. n : \A k \in j .. n : k \in 1 .. n
    BY <1>1
  <2> SUFFICES ASSUME NEW j \in 1 .. n, more[j].idx # <<>>
               PROVE  \E k \in j .. n : \E q \in 1 .. Len(more[k].idx) : more[k].idx[q][1] = s
    BY <1>1 DEF Headed
  <2>2. fs[j].idx # <<>>
    BY <1>1
  <2>3. PICK k \in j .. n : \E q \in 1 .. Len(fs[k].idx) : fs[k].idx[q][1] = s
    BY <2>2 DEF Headed, n
  <2>4. k \in 1 .. n
    BY <2>1
  <2>5. more[k].idx = fs[k].idx
    BY <1>1, <2>4
  <2> QED
    BY <2>3, <2>5
<1>5. Covered(more)
  <2> SUFFICES ASSUME NEW i \in 1 .. n, NEW a \in 1 .. Len(more[i].lines),
                      NEW j \in 1 .. i, NEW m \in 1 .. Len(more[j].idx),
                      Precedes(more, j, m, i, a)
               PROVE  Entered(fs, j, i, a, more[i].lines[a].second)
    BY <1>1, <1>3 DEF Covered
  <2>1. j \in 1 .. n
    BY <1>1
  <2>2. m \in 1 .. Len(fs[j].idx) /\ Precedes(fs, j, m, i, a)
    BY <1>1, <1>2, <2>1
  <2>3. ASSUME a \in 1 .. Len(fs[i].lines), more[i].lines[a] = fs[i].lines[a]
        PROVE  Entered(fs, j, i, a, more[i].lines[a].second)
    BY <2>2, <2>3 DEF Covered, n
  <2>4. CASE i # n
    BY <1>1, <2>3, <2>4
  <2>5. CASE i = n /\ a <= b
    <3>1. a \in 1 .. b
      BY <1>1, <2>5
    <3> QED
      BY <1>1, <2>3, <2>5, <3>1 DEF b
  <2>6. CASE i = n /\ ~(a <= b)
    <3>1. a \in 1 .. b + Len(ls) /\ a > b
      BY <1>1, <2>6
    <3>2. more[i].lines[a].second = s
      BY <1>0, <1>1, <2>6, <3>1
    <3>3. fs[j].idx # <<>>
      <4>1. 1 .. Len(<<>>) = {}
        BY EmptySeq
      <4> QED
        BY <2>2, <4>1
    <3>4. PICK k \in j .. n : \E q \in 1 .. Len(fs[k].idx) : fs[k].idx[q][1] = s
      BY <2>1, <3>3 DEF Headed, n
    <3>5. PICK q \in 1 .. Len(fs[k].idx) : fs[k].idx[q][1] = s
      BY <3>4
    <3>6. Precedes(fs, k, q, i, a)
      <4> SUFFICES ASSUME k = n PROVE fs[k].idx[q][2] < a
        BY <2>6 DEF Precedes
      <4>1. SoundIndex(fs[n]) /\ fs[n] \in FileRec
        BY <1>0, <1>1 DEF n
      <4>2. fs[n].idx[q][2] \in Nat /\ fs[n].idx[q][2] <= b
        BY <4>1, <3>5, FileTypes DEF SoundIndex, b
      <4>3. Len(ls) \in Nat
        BY <1>0
      <4>4. a \in Int /\ a > b
        BY ONLY <1>1, <3>1, <4>3
      <4>5. fs[n].idx[q][2] < a
        <5>1. fs[n].idx[q][2] \in Int /\ b \in Int
          BY <1>1, <4>2
        <5> QED
          BY ONLY <4>2, <4>4, <5>1
      <4> QED
        BY <4>5
    <3> QED
      BY <2>6, <3>2, <3>4, <3>5, <3>6 DEF Entered
  <2> QED
    BY <2>4, <2>5, <2>6
<1> QED
  BY <1>4, <1>5

\* The entry of a second that Write is about to add lines to.
LEMMA WriteCovers ==
  ASSUME LogSafe, CoverInv, Write
  PROVE  CoverInv'
<1>1. /\ TaskInv /\ task = "write" /\ Pending # {} /\ Second \in Nat /\ lastSecond \in Nat
      /\ Covered(files) /\ (~firstWrite => Headed(files, lastSecond))
      /\ files \in Seq(FileRec) /\ (out => files # <<>>)
      /\ UNCHANGED lastSecond
  <2>1. TaskInv /\ task = "write" /\ Pending # {} /\ UNCHANGED lastSecond
    BY WriteFinds DEF LogSafe
  <2> QED
    BY <2>1, SecondIsFirst DEF LogSafe, TaskInv, PhaseInv, CoverInv, LogInv, Good
<1> DEFINE fs == IF out THEN files ELSE CloseAndNewFile(files, Second)
<1>2. CASE Second < lastSecond
  <2>1. files' = files /\ firstWrite' = firstWrite /\ task' \in {"sleep", "write"}
    <3>1. ~(lastSecond <= Second)
      BY <1>1, <1>2
    <3> QED
      BY <3>1, WriteFinds DEF LogSafe
  <2> QED
    BY <1>1, <2>1 DEF CoverInv
<1>3. CASE ~(Second < lastSecond)
  <2>1. /\ task' = "lines" /\ batch' = batch
        /\ \/ files' = WriteIndex(fs, Second)
           \/ files' = fs /\ ~firstWrite /\ Second = lastSecond
    BY <1>3 DEF Write
  <2>2. Second' = Second
    BY <2>1 DEF Second, Pending
  <2>3. lastSecond <= Second
    BY <1>1, <1>3
  <2>4. Good(files, Second, written)
    <3>1. Good(files, lastSecond, written)
      BY <1>1 DEF LogSafe, LogInv, Edge
    <3> QED
      BY <1>1, <2>3, <3>1, GoodLater
  <2>5. fs \in Seq(FileRec) /\ fs # <<>>
    BY <1>1, <2>4, GoodClose DEF Good
  <2>6. Covered(fs) /\ (~firstWrite => Headed(fs, lastSecond))
    <3>1. PICK d : Closed(files, CloseAndNewFile(files, Second), d)
      BY <1>1, <2>4, CloseRolls
    <3> QED
      BY <1>1, <3>1, CloseCovers
  <2> HIDE DEF fs
  <2>7. CASE files' = WriteIndex(fs, Second)
    <3>1. Covered(WriteIndex(fs, Second)) /\ Headed(WriteIndex(fs, Second), Second)
      BY <1>1, <2>5, <2>6, IndexCovers
    <3> QED
      BY <2>1, <2>2, <2>7, <3>1 DEF CoverInv
  <2>8. CASE files' = fs /\ ~firstWrite /\ Second = lastSecond
    BY <2>1, <2>2, <2>6, <2>8 DEF CoverInv
  <2> QED
    BY <2>1, <2>7, <2>8
<1> QED
  BY <1>2, <1>3

\* The lines themselves, wherever the writer rolls over.
LEMMA LinesCover ==
  ASSUME LogSafe, CoverInv, WriteLines
  PROVE  CoverInv'
<1>1. PICK fs, more : LinesGo(fs, more)
  BY WriteLinesFinds DEF LogSafe
<1> DEFINE ls == batch[Second]
<1>2. /\ Good(files, Second, written) /\ Good(fs, Second, written) /\ fs # <<>>
      /\ fs \in Seq(FileRec) /\ ls \in Seq(Line) /\ Second \in Nat
      /\ Good(more, Second, written')
      /\ more = [fs EXCEPT ![Len(fs)].lines = @ \o ls]
      /\ task' \in {"sleep", "write"} /\ lastSecond' = Second
  BY <1>1 DEF LinesGo, Good
<1>3. Covered(files) /\ Headed(files, Second)
  BY DEF CoverInv, WriteLines
<1>4. Covered(fs) /\ Headed(fs, Second)
  <2>1. PICK d : Closed(files, CloseAndNewFile(files, Second), d)
    BY <1>2, CloseRolls
  <2> QED
    BY <1>1, <1>3, <2>1, CloseCovers DEF LinesGo
<1>5. \A a \in 1 .. Len(ls) : ls[a].second = Second
  <2>1. \A l \in ToSet(ls) : l.second = Second
    BY <1>1 DEF LinesGo
  <2> QED
    BY <2>1 DEF ToSet
<1>6. \A i \in 1 .. Len(fs) : SoundIndex(fs[i])
  BY <1>2 DEF Good
<1>7. Covered(more) /\ Headed(more, Second)
  <2>1. LinesCome(fs, more, ls, Second)
    BY <1>2, <1>5, <1>6 DEF LinesCome
  <2> HIDE DEF ls
  <2> QED
    BY <1>4, <2>1, AppendCovers
<1>8. Covered(files') /\ Headed(files', Second)
  <2>1. PICK d : Closed(more, CloseAndNewFile(more, Second), d)
    BY <1>2, CloseRolls
  <2>2. Covered(CloseAndNewFile(more, Second)) /\ Headed(CloseAndNewFile(more, Second), Second)
    BY <1>7, <2>1, CloseCovers
  <2> QED
    BY <1>1, <1>7, <2>2 DEF LinesGo
<1> QED
  BY <1>2, <1>8 DEF CoverInv

\* Every step covers the lines there are.
LEMMA NextCover == LogSafe /\ CoverInv /\ [Next]_vars => CoverInv'
<1> SUFFICES ASSUME LogSafe, CoverInv, [Next]_vars PROVE CoverInv'
  OBVIOUS
<1> USE DEF nodes, round, writer, disk
<1>1. CASE UNCHANGED logVars
  BY <1>1 DEF logVars, CoverInv, Second, Pending
<1>2. ASSUME NEW r \in Resources, Record(r) PROVE CoverInv'
  BY <1>2 DEF Record, CoverInv, Second, Pending
<1>3. CASE Tick
  BY <1>3 DEF Tick, CoverInv, Second, Pending
<1>4. CASE Initialize \/ Crash
  BY <1>4 DEF Initialize, Crash, CoverInv
<1>5. CASE Collect \/ Wake
  BY <1>5 DEF Collect, Wake, WriteOrSleep, CoverInv
<1> QED
  BY <1>1, <1>2, <1>3, <1>4, <1>5, StepsOfTask, WriteCovers, LinesCover

\* At the start there are no lines.
LEMMA InitCover == Init => CoverInv
<1> SUFFICES ASSUME Init PROVE CoverInv
  OBVIOUS
<1>1. files = <<>> /\ task = "off" /\ firstWrite
  BY DEF Init
<1>2. Covered(<<>>)
  BY EmptySeq DEF Covered
<1> QED
  BY <1>1, <1>2 DEF CoverInv

-----------------------------------------------------------------------------
(***************************************************************************)
(* How the files go on under a search.                                     *)
(***************************************************************************)
\* A file goes on as g: what it has stays in its place.
GoesOn(f, g) ==
  /\ g.name = f.name
  /\ \A a \in 1 .. Len(f.lines) : a \in 1 .. Len(g.lines) /\ g.lines[a] = f.lines[a]
  /\ \A m \in 1 .. Len(f.idx) : m \in 1 .. Len(g.idx) /\ g.idx[m] = f.idx[m]

Extends(fs, gs) ==
  Len(fs) <= Len(gs) /\ \A i \in 1 .. Len(fs) : GoesOn(fs[i], gs[i])

\* The files are only added to, or the oldest of them is gone.
Advances(fs, gs) ==
  \/ Extends(fs, gs)
  \/ fs # <<>> /\ gs # <<>> /\ Before(fs[1].name, gs[1].name)

\* Files that stay the same advance.
LEMMA AdvancesSelf ==
  ASSUME NEW fs \in Seq(FileRec)
  PROVE  Advances(fs, fs)
<1>1. Len(fs) <= Len(fs)
  OBVIOUS
<1> QED
  BY <1>1 DEF Advances, Extends, GoesOn

\* The oldest file has a name.
LEMMA OldestTypes ==
  ASSUME NEW fs \in Seq(FileRec), fs # <<>>
  PROVE  Len(fs) \in Nat /\ 1 \in 1 .. Len(fs) /\ fs[1].name \in Nat \X Nat
<1>1. Len(fs) \in Nat /\ 1 \in 1 .. Len(fs)
  OBVIOUS
<1>2. fs[1] \in FileRec
  BY <1>1
<1> QED
  BY <1>1, <1>2, FileTypes

\* Two advances make one.
LEMMA AdvancesOn ==
  ASSUME NEW fs \in Seq(FileRec), NEW gs \in Seq(FileRec), NEW hs \in Seq(FileRec),
         Advances(fs, gs), Advances(gs, hs)
  PROVE  Advances(fs, hs)
<1>1. Len(fs) \in Nat /\ Len(gs) \in Nat /\ Len(hs) \in Nat
  OBVIOUS
<1>2. fs = <<>> => Advances(fs, hs)
  <2>1. fs = <<>> => Len(fs) = 0
    OBVIOUS
  <2>2. fs = <<>> => Len(fs) <= Len(hs) /\ 1 .. Len(fs) = {}
    BY <1>1, <2>1
  <2> QED
    BY <2>2 DEF Advances, Extends
<1>3. fs # <<>> /\ Extends(fs, gs) => gs # <<>> /\ gs[1].name = fs[1].name
  <2> SUFFICES ASSUME fs # <<>>, Extends(fs, gs)
               PROVE  gs # <<>> /\ gs[1].name = fs[1].name
    OBVIOUS
  <2>1. 1 \in 1 .. Len(fs)
    BY OldestTypes
  <2>2. Len(gs) >= 1
    BY <1>1, <2>1 DEF Extends
  <2>3. gs # <<>>
    BY <2>2
  <2> QED
    BY <2>1, <2>3 DEF Extends, GoesOn
<1>4. gs # <<>> /\ Extends(gs, hs) => hs # <<>> /\ hs[1].name = gs[1].name
  <2> SUFFICES ASSUME gs # <<>>, Extends(gs, hs)
               PROVE  hs # <<>> /\ hs[1].name = gs[1].name
    OBVIOUS
  <2>1. 1 \in 1 .. Len(gs)
    BY OldestTypes
  <2>2. Len(hs) >= 1
    BY <1>1, <2>1 DEF Extends
  <2>3. hs # <<>>
    BY <2>2
  <2> QED
    BY <2>1, <2>3 DEF Extends, GoesOn
<1>5. Extends(fs, gs) /\ Extends(gs, hs) => Extends(fs, hs)
  <2> SUFFICES ASSUME Extends(fs, gs), Extends(gs, hs) PROVE Extends(fs, hs)
    OBVIOUS
  <2>1. Len(fs) <= Len(hs) /\ \A i \in 1 .. Len(fs) : i \in 1 .. Len(gs)
    BY <1>1 DEF Extends
  <2>2. \A f, g, h : GoesOn(f, g) /\ GoesOn(g, h) => GoesOn(f, h)
    BY DEF GoesOn
  <2>3. \A i \in 1 .. Len(fs) : GoesOn(fs[i], gs[i]) /\ GoesOn(gs[i], hs[i])
    BY <2>1 DEF Extends
  <2> QED
    BY <2>1, <2>2, <2>3 DEF Extends
<1>6. ASSUME fs # <<>>, gs # <<>>, hs # <<>>,
             Before(fs[1].name, gs[1].name), Before(gs[1].name, hs[1].name)
      PROVE  Before(fs[1].name, hs[1].name)
  <2>1. fs[1].name \in Nat \X Nat /\ gs[1].name \in Nat \X Nat /\ hs[1].name \in Nat \X Nat
    BY <1>6, OldestTypes
  <2> QED
    BY <1>6, <2>1, BeforeOrder
<1>7. CASE fs # <<>>
  <2>1. CASE Extends(fs, gs) /\ Extends(gs, hs)
    BY <1>5, <2>1 DEF Advances
  <2>2. CASE Extends(fs, gs) /\ gs # <<>> /\ hs # <<>> /\ Before(gs[1].name, hs[1].name)
    BY <1>3, <1>7, <2>2 DEF Advances
  <2>3. CASE gs # <<>> /\ Before(fs[1].name, gs[1].name) /\ Extends(gs, hs)
    BY <1>4, <1>7, <2>3 DEF Advances
  <2>4. CASE /\ gs # <<>> /\ Before(fs[1].name, gs[1].name)
             /\ hs # <<>> /\ Before(gs[1].name, hs[1].name)
    BY <1>6, <1>7, <2>4 DEF Advances
  <2> QED
    BY <1>7, <2>1, <2>2, <2>3, <2>4 DEF Advances
<1> QED
  BY <1>2, <1>7

\* CloseAndNewFile: the oldest files go, or none.
LEMMA CloseAdvances ==
  ASSUME NEW fs, NEW e \in Nat, NEW w, Good(fs, e, w)
  PROVE  Advances(fs, CloseAndNewFile(fs, e))
<1> DEFINE c == CloseAndNewFile(fs, e)
<1>1. PICK d : Closed(fs, c, d)
  BY CloseRolls
<1> HIDE DEF c
<1>2. /\ Len(fs) \in Nat /\ d \in 0 .. Len(fs) /\ Len(c) = Len(fs) - d + 1
      /\ (fs # <<>> => d < Len(fs))
      /\ \A i \in 1 .. Len(fs) - d : c[i] = fs[i + d]
      /\ fs \in Seq(FileRec) /\ c \in Seq(FileRec) /\ Named(fs)
  BY <1>1 DEF Closed, Good
<1>3. CASE d = 0
  <2>1. Len(fs) <= Len(c) /\ \A i \in 1 .. Len(fs) : i \in 1 .. Len(fs) - d /\ i + d = i
    BY ONLY <1>2, <1>3
  <2>2. \A i \in 1 .. Len(fs) : c[i] = fs[i]
    BY <1>2, <2>1
  <2> QED
    BY <2>1, <2>2 DEF Advances, Extends, GoesOn, c
<1>4. CASE d # 0
  <2>1. fs # <<>>
    <3>1. Len(fs) # 0
      BY ONLY <1>2, <1>4
    <3> QED
      BY <3>1
  <2>2. 1 \in 1 .. Len(fs) - d /\ 1 + d \in 1 .. Len(fs) /\ 1 < 1 + d /\ 1 \in 1 .. Len(fs)
        /\ Len(c) # 0
    BY ONLY <1>2, <1>4, <2>1
  <2>3. c[1].name = fs[1 + d].name /\ c # <<>>
    BY <1>2, <2>2
  <2>4. Before(fs[1].name, fs[1 + d].name)
    BY <1>2, <2>2 DEF Named
  <2> QED
    BY <2>1, <2>3, <2>4 DEF Advances, c
<1> QED
  BY <1>3, <1>4

\* An index entry is added to the last file.
LEMMA IndexAdvances ==
  ASSUME NEW fs \in Seq(FileRec), fs # <<>>, NEW s \in Nat
  PROVE  Advances(fs, WriteIndex(fs, s))
<1> DEFINE n == Len(fs)
           c == WriteIndex(fs, s)
           x == Len(fs[n].idx)
<1>1. /\ Len(c) = n /\ n \in Nat /\ n \in 1 .. n
      /\ \A i \in 1 .. n : /\ c[i].name = fs[i].name /\ c[i].lines = fs[i].lines
                           /\ i # n => c[i].idx = fs[i].idx
      /\ Len(c[n].idx) = x + 1
      /\ \A m \in 1 .. x : c[n].idx[m] = fs[n].idx[m]
  BY IndexShape
<1>2. x \in Nat
  <2>1. fs[n] \in FileRec
    BY <1>1
  <2> QED
    BY <2>1, FileTypes
<1> HIDE DEF c, x, n
<1>3. ASSUME NEW i \in 1 .. n, NEW m \in 1 .. Len(fs[i].idx)
      PROVE  m \in 1 .. Len(c[i].idx) /\ c[i].idx[m] = fs[i].idx[m]
  <2>1. CASE i # n
    BY <1>1, <2>1
  <2>2. CASE i = n
    <3>1. m \in 1 .. x
      BY <2>2 DEF x
    <3>2. m \in 1 .. x + 1
      BY <1>2, <3>1
    <3> QED
      BY <1>1, <2>2, <3>1, <3>2
  <2> QED
    BY <2>1, <2>2
<1>4. \A i \in 1 .. n : GoesOn(fs[i], c[i])
  BY <1>1, <1>3 DEF GoesOn
<1>5. n <= Len(c)
  BY <1>1
<1>6. Extends(fs, c)
  BY <1>4, <1>5 DEF Extends, n
<1> QED
  BY <1>6 DEF Advances, c

\* Lines are added to the last file.
LEMMA AppendAdvances ==
  ASSUME NEW fs \in Seq(FileRec), fs # <<>>, NEW ls \in Seq(Line),
         NEW more, more = [fs EXCEPT ![Len(fs)].lines = @ \o ls]
  PROVE  Advances(fs, more)
<1> DEFINE n == Len(fs)
           b == Len(fs[n].lines)
<1>1. /\ Len(more) = n /\ n \in Nat /\ n \in 1 .. n /\ b \in Nat
      /\ \A i \in 1 .. n : /\ more[i].name = fs[i].name /\ more[i].idx = fs[i].idx
                           /\ i # n => more[i].lines = fs[i].lines
      /\ Len(more[n].lines) = b + Len(ls)
      /\ \A a \in 1 .. b : more[n].lines[a] = fs[n].lines[a]
  BY AppendShape
<1>2. Len(ls) \in Nat
  OBVIOUS
<1> HIDE DEF n, b
<1>3. ASSUME NEW i \in 1 .. n, NEW a \in 1 .. Len(fs[i].lines)
      PROVE  a \in 1 .. Len(more[i].lines) /\ more[i].lines[a] = fs[i].lines[a]
  <2>1. CASE i # n
    BY <1>1, <2>1
  <2>2. CASE i = n
    <3>1. a \in 1 .. b
      BY <2>2 DEF b
    <3>2. a \in 1 .. b + Len(ls)
      BY <1>1, <1>2, <3>1
    <3> QED
      BY <1>1, <2>2, <3>1, <3>2
  <2> QED
    BY <2>1, <2>2
<1>4. \A i \in 1 .. n : GoesOn(fs[i], more[i])
  BY <1>1, <1>3 DEF GoesOn
<1>5. n <= Len(more)
  BY <1>1
<1> QED
  BY <1>4, <1>5 DEF Advances, Extends, n

\* Whatever the task does, the files are only added to until the oldest goes.
LEMMA FilesAdvance ==
  ASSUME LogSafe, LogSafe', [Next]_vars
  PROVE  files \in Seq(FileRec) /\ files' \in Seq(FileRec) /\ Advances(files, files')
<1> USE DEF nodes, round, writer, disk, past
<1>0. /\ TaskInv /\ LogInv /\ FetchInv /\ files \in Seq(FileRec)
  BY DEF LogSafe, LogInv, Good
<1>a. files' \in Seq(FileRec)
  BY DEF LogSafe, LogInv, Good
<1>1. CASE files' = files
  BY <1>0, <1>1, AdvancesSelf
<1>2. CASE UNCHANGED logVars \/ Tick \/ Initialize \/ Collect \/ Wake \/ Crash
           \/ \E r \in Resources : Record(r)
  <2>1. files' = files
    BY <1>2 DEF logVars, Tick, Initialize, Collect, Wake, Crash, Record
  <2> QED
    BY <1>1, <2>1, <1>a
<1>3. CASE Write
  <2>1. CASE files' = files
    BY <1>1, <2>1
  <2>2. ASSUME lastSecond <= Second, NEW fs,
               fs = IF out THEN files ELSE CloseAndNewFile(files, Second),
               files' = fs \/ files' = WriteIndex(fs, Second)
        PROVE  Advances(files, files')
    <3>1. Second \in Nat /\ lastSecond \in Nat /\ Edge = lastSecond
      BY <1>0, <1>3, WriteFinds, SecondIsFirst DEF TaskInv, PhaseInv, Edge
    <3>2. Good(files, Second, written)
      BY <1>0, <2>2, <3>1, GoodLater DEF LogInv
    <3>3. Good(fs, Second, written) /\ fs # <<>> /\ fs \in Seq(FileRec)
      BY <1>0, <2>2, <3>1, <3>2, GoodClose DEF LogInv, Good
    <3>4. Advances(files, fs)
      BY <1>0, <2>2, <3>1, <3>2, AdvancesSelf, CloseAdvances
    <3>5. Advances(fs, files')
      BY <2>2, <3>1, <3>3, AdvancesSelf, IndexAdvances
    <3> QED
      BY <1>0, <1>a, <3>3, <3>4, <3>5, AdvancesOn
  <2> QED
    BY <1>0, <1>3, <1>a, <2>1, <2>2, WriteFinds
<1>4. CASE WriteLines
  <2>1. PICK fs, more : LinesGo(fs, more)
    BY <1>0, <1>4, WriteLinesFinds
  <2>2. /\ Good(files, Second, written) /\ fs \in Seq(FileRec) /\ fs # <<>>
        /\ batch[Second] \in Seq(Line) /\ Good(more, Second, written')
        /\ more \in Seq(FileRec) /\ Second \in Nat
    BY <2>1 DEF LinesGo, Good
  <2>3. Advances(files, fs)
    BY <1>0, <2>1, <2>2, AdvancesSelf, CloseAdvances DEF LinesGo
  <2>4. Advances(fs, more)
    <3>1. more = [fs EXCEPT ![Len(fs)].lines = @ \o batch[Second]]
      BY <2>1 DEF LinesGo
    <3> QED
      BY ONLY <2>2, <3>1, AppendAdvances
  <2>5. Advances(more, files')
    <3>1. files' = more \/ files' = CloseAndNewFile(more, Second)
      BY <2>1 DEF LinesGo
    <3>2. Advances(more, more)
      BY <2>2, AdvancesSelf
    <3>3. Advances(more, CloseAndNewFile(more, Second))
      BY <2>2, CloseAdvances
    <3> QED
      BY <3>1, <3>2, <3>3
  <2>6. Advances(files, more)
    BY <1>0, <2>2, <2>3, <2>4, AdvancesOn
  <2>7. Advances(files, files')
    BY <1>0, <1>a, <2>2, <2>5, <2>6, AdvancesOn
  <2> QED
    BY <1>0, <1>a, <2>7
<1> QED
  BY <1>0, <1>1, <1>2, <1>3, <1>4, StepsOfTask

-----------------------------------------------------------------------------
(***************************************************************************)
(* What a search has still to find.                                        *)
(***************************************************************************)
\* The oldest file the search has listed is still the oldest.
Intact(fs, names) == names # <<>> /\ fs # <<>> /\ fs[1].name = names[1]

\* It is, or it is gone.
Oldest(fs, names) ==
  names # <<>> => fs # <<>> /\ (fs[1].name = names[1] \/ Before(names[1], fs[1].name))

\* The files are in the places of their names.
InPlace(fs, names) ==
  Len(names) <= Len(fs) /\ \A q \in 1 .. Len(names) : fs[q].name = names[q]

\* Every line to be found comes after an entry of its second that the search
\* has yet to look at.
Sought(fs, s) ==
  \A l \in s.findable : \E i \in s.pos .. Len(s.names) : \E a \in 1 .. Len(fs[i].lines) :
    fs[i].lines[a] = l /\ Entered(fs, s.pos, i, a, l.second)

\* Every line to be found is found or yet to be read.
Unread(fs, s) ==
  \A l \in s.findable \ ToSet(s.result) :
    \E i \in s.pos .. Len(s.names) : \E a \in 1 .. Len(fs[i].lines) :
      fs[i].lines[a] = l /\ (i = s.pos => a > s.offset)

\* Every line to be found is found, or beyond the limit.
AllFound(s) ==
  \A l \in s.findable \ ToSet(s.result) :
    Len(s.result) >= Limit(s.req) /\ l.second >= Last(s.result).second

\* Where a search is that misses nothing.
Hunts(fs, s) ==
  /\ InPlace(fs, s.names)
  /\ s.at = "scan" => s.from = 0 /\ Sought(fs, s)
  /\ s.at = "read" => ~(Len(s.result) >= Limit(s.req)) /\ Unread(fs, s)
  /\ s.at = "done" => AllFound(s)

\* What was asked for.
Asked(s) ==
  /\ s.req.end = None => s.req.maxLines # None
  /\ \A l \in s.findable : InTime(s.req, l) /\ OfResource(s.req, l)
  /\ s.names = <<>> => s.findable = {}

HuntInv ==
  search # NoSearch =>
    /\ Asked(search) /\ Oldest(files, search.names)
    /\ ~search.warm /\ Intact(files, search.names) => Hunts(files, search)

\* An entry stays where it is while the files go on.
LEMMA EnteredOn ==
  ASSUME NEW fs \in Seq(FileRec), NEW gs \in Seq(FileRec), Extends(fs, gs),
         NEW j \in Nat, j >= 1, NEW i \in 1 .. Len(fs), NEW a, NEW t, Entered(fs, j, i, a, t)
  PROVE  Entered(gs, j, i, a, t)
<1>0. PICK k \in j .. i : \E m \in 1 .. Len(fs[k].idx) :
        Precedes(fs, k, m, i, a) /\ fs[k].idx[m][1] = t
  BY DEF Entered
<1>1. PICK m \in 1 .. Len(fs[k].idx) : Precedes(fs, k, m, i, a) /\ fs[k].idx[m][1] = t
  BY <1>0
<1>2. k \in 1 .. Len(fs)
  <2>1. Len(fs) \in Nat
    OBVIOUS
  <2> QED
    BY <2>1
<1>3. m \in 1 .. Len(gs[k].idx) /\ gs[k].idx[m] = fs[k].idx[m]
  BY <1>1, <1>2 DEF Extends, GoesOn
<1>4. Precedes(gs, k, m, i, a)
  BY <1>1, <1>3 DEF Precedes
<1> QED
  BY <1>1, <1>3, <1>4 DEF Entered

\* A search loses nothing by what the writer does, unless its oldest file goes.
LEMMA HuntsOn ==
  ASSUME NEW fs \in Seq(FileRec), NEW gs \in Seq(FileRec), Advances(fs, gs),
         NEW s \in SearchRec, s.pos >= 1, Oldest(fs, s.names),
         ~s.warm /\ Intact(fs, s.names) => Hunts(fs, s)
  PROVE  Oldest(gs, s.names) /\ (~s.warm /\ Intact(gs, s.names) => Hunts(gs, s))
<1>1. /\ s.names \in Seq(Nat \X Nat) /\ Len(s.names) \in Nat /\ s.pos \in Nat
      /\ Len(fs) \in Nat /\ Len(gs) \in Nat
  BY DEF SearchRec
<1>2. s.names # <<>> => s.names[1] \in Nat \X Nat
  BY <1>1
<1>3. CASE fs # <<>> /\ gs # <<>> /\ Before(fs[1].name, gs[1].name)
  <2>1. fs[1].name \in Nat \X Nat /\ gs[1].name \in Nat \X Nat
    BY <1>3, OldestTypes
  <2>2. s.names # <<>> => Before(s.names[1], gs[1].name)
    BY <1>2, <1>3, <2>1, BeforeOrder DEF Oldest
  <2>3. s.names # <<>> => gs[1].name # s.names[1]
    BY <1>2, <2>1, <2>2, BeforeOrder
  <2> QED
    BY <1>3, <2>2, <2>3 DEF Oldest, Intact
<1>4. CASE Extends(fs, gs)
  <2>1. fs # <<>> => gs # <<>> /\ gs[1].name = fs[1].name
    <3> SUFFICES ASSUME fs # <<>> PROVE gs # <<>> /\ gs[1].name = fs[1].name
      OBVIOUS
    <3>1. 1 \in 1 .. Len(fs) /\ Len(gs) # 0
      <4>1. 1 \in 1 .. Len(fs)
        BY OldestTypes
      <4>2. Len(fs) <= Len(gs)
        BY <1>4 DEF Extends
      <4> QED
        BY <1>1, <4>1, <4>2
    <3> QED
      BY <1>4, <3>1 DEF Extends, GoesOn
  <2>2. Oldest(gs, s.names)
    BY <2>1 DEF Oldest
  <2>3. ASSUME ~s.warm, Intact(gs, s.names) PROVE Hunts(gs, s)
    <3>1. Intact(fs, s.names)
      <4>1. fs # <<>> /\ gs[1].name = fs[1].name
        BY <2>1, <2>3 DEF Intact, Oldest
      <4> QED
        BY <2>3, <4>1 DEF Intact
    <3>2. Hunts(fs, s)
      BY <2>3, <3>1
    <3>3. /\ Len(s.names) <= Len(fs) /\ Len(fs) <= Len(gs)
          /\ \A q \in 1 .. Len(s.names) : fs[q].name = s.names[q]
      BY <1>4, <3>2 DEF Hunts, InPlace, Extends
    <3>4. \A q \in 1 .. Len(s.names) : q \in 1 .. Len(fs)
      BY <1>1, <3>3
    <3>5. \A q \in s.pos .. Len(s.names) : q \in 1 .. Len(fs)
      BY <1>1, <3>3
    <3>6. InPlace(gs, s.names)
      <4>1. Len(s.names) <= Len(gs)
        BY <1>1, <3>3
      <4>2. \A q \in 1 .. Len(s.names) : gs[q].name = s.names[q]
        BY <1>4, <3>3, <3>4 DEF Extends, GoesOn
      <4> QED
        BY <4>1, <4>2 DEF InPlace
    <3>7. \A i \in s.pos .. Len(s.names) : \A a \in 1 .. Len(fs[i].lines) :
            a \in 1 .. Len(gs[i].lines) /\ gs[i].lines[a] = fs[i].lines[a]
      BY <1>4, <3>5 DEF Extends, GoesOn
    <3>8. ASSUME Sought(fs, s) PROVE Sought(gs, s)
      <4> SUFFICES ASSUME NEW l \in s.findable
                   PROVE  \E i \in s.pos .. Len(s.names) : \E a \in 1 .. Len(gs[i].lines) :
                            gs[i].lines[a] = l /\ Entered(gs, s.pos, i, a, l.second)
        BY DEF Sought
      <4>0. PICK i \in s.pos .. Len(s.names) : \E a \in 1 .. Len(fs[i].lines) :
              fs[i].lines[a] = l /\ Entered(fs, s.pos, i, a, l.second)
        BY <3>8 DEF Sought
      <4>1. PICK a \in 1 .. Len(fs[i].lines) :
              fs[i].lines[a] = l /\ Entered(fs, s.pos, i, a, l.second)
        BY <4>0
      <4>2. Entered(gs, s.pos, i, a, l.second)
        BY <1>1, <1>4, <3>5, <4>1, EnteredOn
      <4> QED
        BY <3>7, <4>1, <4>2
    <3>9. ASSUME Unread(fs, s) PROVE Unread(gs, s)
      <4> SUFFICES ASSUME NEW l \in s.findable \ ToSet(s.result)
                   PROVE  \E i \in s.pos .. Len(s.names) : \E a \in 1 .. Len(gs[i].lines) :
                            gs[i].lines[a] = l /\ (i = s.pos => a > s.offset)
        BY DEF Unread
      <4>0. PICK i \in s.pos .. Len(s.names) : \E a \in 1 .. Len(fs[i].lines) :
              fs[i].lines[a] = l /\ (i = s.pos => a > s.offset)
        BY <3>9 DEF Unread
      <4>1. PICK a \in 1 .. Len(fs[i].lines) :
              fs[i].lines[a] = l /\ (i = s.pos => a > s.offset)
        BY <4>0
      <4> QED
        BY <3>7, <4>1
    <3> QED
      BY <3>2, <3>6, <3>8, <3>9 DEF Hunts
  <2> QED
    BY <2>2, <2>3
<1> QED
  BY <1>3, <1>4 DEF Advances

\* The steps of the writer and of the nodes.
LEMMA OthersHunt ==
  ASSUME LogSafe, LogSafe', [Next]_vars, SearchTypeOK, HuntInv, UNCHANGED search
  PROVE  HuntInv'
<1>1. files \in Seq(FileRec) /\ files' \in Seq(FileRec) /\ Advances(files, files')
  BY FilesAdvance
<1> SUFFICES ASSUME search # NoSearch
             PROVE  /\ Asked(search) /\ Oldest(files', search.names)
                    /\ ~search.warm /\ Intact(files', search.names) => Hunts(files', search)
  BY DEF HuntInv
<1>2. /\ search \in SearchRec /\ search.pos >= 1 /\ Asked(search)
      /\ Oldest(files, search.names)
      /\ ~search.warm /\ Intact(files, search.names) => Hunts(files, search)
  BY DEF SearchTypeOK, HuntInv
<1>3. PICK gs \in Seq(FileRec) : gs = files'
  BY <1>1
<1>4. Advances(files, gs)
  BY <1>1, <1>3
<1>5. Oldest(gs, search.names) /\ (~search.warm /\ Intact(gs, search.names) => Hunts(gs, search))
  BY <1>1, <1>2, <1>4, HuntsOn
<1> QED
  BY <1>2, <1>3, <1>5

\* The limit of a search is positive.
LEMMA LimitTypes ==
  ASSUME NEW req \in Requests, req.end = None => req.maxLines # None
  PROVE  Limit(req) \in Nat /\ Limit(req) >= 1
<1>1. MaxLinesReturn \in Nat \ {0} /\ KMaxLines \in Nat \ {0}
      /\ req.maxLines \in Nat \cup {None}
  BY MetricLogAssumption
<1>2. CASE req.end # None
  BY <1>1, <1>2 DEF Limit
<1>3. CASE req.end = None
  <2> DEFINE m == req.maxLines
             T == {m, KMaxLines}
  <2>1. m \in Nat /\ Limit(req) = Max(T)
    BY <1>1, <1>3 DEF Limit
  <2>2. m + KMaxLines \in Nat /\ T \in SUBSET (-1 .. m + KMaxLines) /\ T # {}
    BY <1>1, <2>1
  <2>3. KMaxLines \in T /\ T \in SUBSET Nat
    BY <1>1, <2>1
  <2> HIDE DEF T, m
  <2>4. Max(T) \in T /\ KMaxLines <= Max(T)
    BY <2>2, <2>3, MaxProperties
  <2>5. Max(T) \in Nat
    BY <2>3, <2>4
  <2>6. Max(T) >= 1
    BY ONLY <1>1, <2>4, <2>5
  <2> QED
    BY <2>1, <2>5, <2>6
<1> QED
  BY <1>2, <1>3

\* The offsets of an index grow with its entries.
LEMMA OffsetsGrow ==
  ASSUME NEW f \in FileRec, SoundIndex(f), NEW x \in 1 .. Len(f.idx), NEW y \in 1 .. Len(f.idx),
         x <= y
  PROVE  f.idx[x][2] <= f.idx[y][2]
<1> DEFINE off(m) == f.idx[m][2]
           T == {m \in x .. Len(f.idx) : ~(off(x) <= off(m))}
<1>1. Len(f.idx) \in Nat /\ \A m \in 1 .. Len(f.idx) : off(m) \in Nat
  BY FileTypes
<1>2. \A m \in 2 .. Len(f.idx) : off(m - 1) <= off(m)
  <2>1. \A m \in 2 .. Len(f.idx) : m \in 1 .. Len(f.idx) /\ m > 1
    BY <1>1
  <2> QED
    BY <2>1 DEF SoundIndex
<1> HIDE DEF off
<1>3. T = {}
  <2> SUFFICES ASSUME T # {} PROVE FALSE
    OBVIOUS
  <2>1. PICK m \in T : \A k \in T : m <= k
    <3>1. T \in SUBSET Nat
      OBVIOUS
    <3> HIDE DEF T
    <3> QED
      BY <3>1, LeastElement
  <2>2. m \in x .. Len(f.idx) /\ ~(off(x) <= off(m))
    BY <2>1
  <2>3. m # x
    BY <1>1, <2>2
  <2>4. m - 1 \in x .. Len(f.idx) /\ m \in 2 .. Len(f.idx) /\ ~(m <= m - 1)
        /\ m - 1 \in 1 .. Len(f.idx) /\ m \in 1 .. Len(f.idx)
    BY <1>1, <2>2, <2>3
  <2>5. m - 1 \notin T
    <3> HIDE DEF T
    <3> QED
      BY <2>1, <2>4
  <2>6. off(x) <= off(m - 1) /\ off(m - 1) <= off(m)
    BY <1>2, <2>4, <2>5
  <2>7. off(x) \in Nat /\ off(m - 1) \in Nat /\ off(m) \in Nat
    BY <1>1, <2>4
  <2> QED
    BY ONLY <2>2, <2>6, <2>7
<1>4. y \in x .. Len(f.idx)
  BY <1>1
<1> QED
  BY <1>3, <1>4 DEF off

\* A file is the one of its name.
LEMMA FileOfName ==
  ASSUME LogSafe, NEW k \in 1 .. Len(files)
  PROVE  Exists(files[k].name) /\ File(files[k].name) = files[k]
<1>1. files \in Seq(FileRec) /\ Len(files) \in Nat /\ Named(files)
  BY DEF LogSafe, LogInv, Good
<1>2. Exists(files[k].name)
  BY <1>1 DEF Exists, Names, ToSet
<1>3. PICK j \in 1 .. Len(files) :
        files[j].name = files[k].name /\ File(files[k].name) = files[j]
  BY <1>1, <1>2, FileFound
<1>4. j = k
  <2>1. files[k].name \in Nat \X Nat
    <3>1. files[k] \in FileRec
      BY <1>1
    <3> QED
      BY <3>1, FileTypes
  <2>2. ~Before(files[k].name, files[k].name)
    BY <2>1, BeforeOrder
  <2>3. ~(j < k) /\ ~(k < j)
    BY <1>1, <1>3, <2>2 DEF Named
  <2> QED
    BY ONLY <1>1, <2>3, j \in 1 .. Len(files), k \in 1 .. Len(files)
<1> QED
  BY <1>2, <1>3, <1>4

\* Begin: what can be found comes after an entry of its second.
LEMMA BeginHunts ==
  ASSUME LogSafe, CoverInv, NEW req \in Requests, Find(req) \/ FindByTimeAndResource(req)
  PROVE  HuntInv'
<1>1. files \in Seq(FileRec) /\ Len(files) \in Nat /\ Covered(files)
  BY DEF LogSafe, LogInv, Good, CoverInv
<1>2. Begin(req) /\ (req.end = None => req.maxLines # None) /\ files' = files
  BY DEF Find, FindByTimeAndResource, Begin, disk
<1>3. PICK garbage \in BOOLEAN :
        LET warm == ValidPosition(garbage)
        IN search' = [at |-> "scan", req |-> req, names |-> Names(files),
                      pos |-> IF warm THEN CHOOSE i \in 1 .. Len(files) :
                                             files[i].name = lastPos.name
                              ELSE 1,
                      from |-> IF warm THEN lastPos.offset ELSE 0,
                      offset |-> 0, result |-> <<>>,
                      warm |-> warm, findable |-> Findable(req)]
  BY <1>2 DEF Begin
<1> DEFINE names == Names(files)
           may == Findable(req)
<1>4. PICK s : s = search'
  OBVIOUS
<1>5. /\ s.at = "scan" /\ s.req = req /\ s.names = names /\ s.findable = may
      /\ ~s.warm => s.pos = 1 /\ s.from = 0
  BY <1>3, <1>4
<1>6. Len(names) = Len(files) /\ \A i \in 1 .. Len(files) : names[i] = files[i].name
  BY <1>1 DEF Names
<1>7. \A l \in may :
        /\ InTime(req, l) /\ OfResource(req, l)
        /\ \E i \in 1 .. Len(files) : \E a \in 1 .. Len(files[i].lines) :
             files[i].lines[a] = l /\ Reached(i, a)
  BY DEF Findable
<1> HIDE DEF may
<1>8. Asked(s)
  <2>1. names = <<>> => may = {}
    <3>1. names = <<>> => 1 .. Len(files) = {}
      BY <1>1, <1>6
    <3> HIDE DEF names
    <3> QED
      BY <1>7, <3>1
  <2> QED
    BY <1>2, <1>5, <1>7, <2>1 DEF Asked
<1>9. Oldest(files, names)
  <2> SUFFICES ASSUME names # <<>> PROVE files # <<>> /\ files[1].name = names[1]
    BY DEF Oldest
  <2>1. files # <<>>
    BY EmptySeq DEF Names
  <2>2. 1 \in 1 .. Len(files)
    BY <1>1, <2>1
  <2> QED
    BY <1>6, <2>1, <2>2
<1> HIDE DEF names
<1>10. ASSUME ~s.warm PROVE Hunts(files, s)
  <2>1. InPlace(files, s.names)
    <3>1. Len(names) <= Len(files)
      BY <1>1, <1>6
    <3> QED
      BY <1>5, <1>6, <3>1 DEF InPlace
  <2>2. Sought(files, s)
    <3> SUFFICES ASSUME NEW l \in may
                 PROVE  \E i \in 1 .. Len(files) : \E a \in 1 .. Len(files[i].lines) :
                          files[i].lines[a] = l /\ Entered(files, 1, i, a, l.second)
      BY <1>5, <1>6, <1>10 DEF Sought
    <3>1. PICK i \in 1 .. Len(files) : \E a \in 1 .. Len(files[i].lines) :
            files[i].lines[a] = l /\ Reached(i, a)
      BY <1>7
    <3>2. PICK a \in 1 .. Len(files[i].lines) : files[i].lines[a] = l /\ Reached(i, a)
      BY <3>1
    <3>3. PICK j \in 1 .. i : \E m \in 1 .. Len(files[j].idx) : Precedes(files, j, m, i, a)
      BY <3>2 DEF Reached, Precedes
    <3>4. Entered(files, j, i, a, l.second)
      BY <1>1, <3>2, <3>3 DEF Covered
    <3>5. \A k \in j .. i : k \in 1 .. i
      OBVIOUS
    <3>6. Entered(files, 1, i, a, l.second)
      BY <3>4, <3>5 DEF Entered
    <3> QED
      BY <3>2, <3>6
  <2> QED
    BY <1>5, <1>10, <2>1, <2>2 DEF Hunts
<1> QED
  BY <1>2, <1>4, <1>5, <1>8, <1>9, <1>10 DEF HuntInv

\* A step of the search itself.
LEMMA HuntStep ==
  ASSUME HuntInv, search # NoSearch, files' = files, NEW s, s = search',
         s.req = search.req, s.names = search.names,
         s.warm = search.warm, s.findable = search.findable,
         ~search.warm /\ Intact(files, search.names) /\ Hunts(files, search) => Hunts(files, s)
  PROVE  HuntInv'
<1>1. /\ Asked(search) /\ Oldest(files, search.names)
      /\ ~search.warm /\ Intact(files, search.names) => Hunts(files, search)
  BY DEF HuntInv
<1>2. Asked(s)
  BY <1>1 DEF Asked
<1> QED
  BY <1>1, <1>2 DEF HuntInv

\* FindOffset passes over no entry of a line that is to be found.
LEMMA FindOffsetHunts ==
  ASSUME LogSafe, SearchTypeOK, SearchInv, HuntInv, FindOffset
  PROVE  HuntInv'
<1> DEFINE name == search.names[search.pos]
           idx == File(name).idx
           rest == IF Exists(name) /\ search.from >= 0
                   THEN search.from + 1 .. Len(idx) ELSE {}
           later == {j \in rest : IsAtOrAfter(idx[j])}
           first == Min(later)
           p == search.pos
           n == Len(search.names)
<1>1. search.at = "scan" /\ p <= n /\ files' = files
  BY DEF FindOffset, disk
<1>2. /\ search # NoSearch /\ search \in SearchRec /\ p >= 1
      /\ search.result = <<>> /\ Asked(search)
  BY <1>1, SearchIsOn DEF SearchInv, SearchTypeOK, HuntInv
<1>3. /\ p \in Nat /\ n \in Nat /\ p \in 1 .. n
      /\ search.req \in Requests /\ search.req.begin \in Nat
      /\ files \in Seq(FileRec) /\ Len(files) \in Nat
  BY <1>1, <1>2, SearchTypes DEF LogSafe, LogInv, Good
<1>4. \/ /\ later # {}
         /\ search' = [search EXCEPT !.at = "read", !.offset = idx[first][2]]
      \/ /\ later = {}
         /\ search' = [search EXCEPT !.pos = @ + 1, !.from = 0]
  BY DEF FindOffset
<1>5. ASSUME Hunts(files, search)
      PROVE  /\ p \in 1 .. Len(files) /\ idx = files[p].idx /\ rest = 1 .. Len(files[p].idx)
             /\ Sought(files, search) /\ InPlace(files, search.names)
             /\ files[p] \in FileRec /\ SoundIndex(files[p])
  <2>1. /\ search.from = 0 /\ Sought(files, search) /\ InPlace(files, search.names)
        /\ n <= Len(files) /\ files[p].name = name
    BY <1>1, <1>3, <1>5 DEF Hunts, InPlace
  <2>2. p \in 1 .. Len(files)
    BY <1>3, <2>1
  <2>3. Exists(name) /\ File(name) = files[p]
    BY <2>1, <2>2, FileOfName
  <2>4. files[p] \in FileRec /\ SoundIndex(files[p])
    BY <1>3, <2>2 DEF LogSafe, LogInv, Good
  <2> QED
    BY <2>1, <2>2, <2>3, <2>4
<1> HIDE DEF rest
<1>6. ASSUME Hunts(files, search), NEW m \in 1 .. Len(files[p].idx), NEW l \in search.findable,
             files[p].idx[m][1] = l.second
      PROVE  m \in later
  <2>1. l.second >= search.req.begin
    BY <1>2 DEF Asked, InTime
  <2>2. IsAtOrAfter(idx[m])
    BY <1>5, <1>6, <2>1 DEF IsAtOrAfter
  <2> QED
    BY <1>5, <1>6, <2>2
<1>7. CASE /\ later # {}
           /\ search' = [search EXCEPT !.at = "read", !.offset = idx[first][2]]
  <2> DEFINE o == idx[first][2]
  <2>1. PICK s : s = search'
    OBVIOUS
  <2>2. /\ s.req = search.req /\ s.names = search.names /\ s.warm = search.warm
        /\ s.findable = search.findable /\ s.at = "read" /\ s.pos = p /\ s.offset = o
        /\ s.result = <<>>
    <3> HIDE DEF o
    <3>1. s = [search EXCEPT !.at = "read", !.offset = o]
      BY <1>7, <2>1 DEF o
    <3> QED
      BY <1>2, <3>1 DEF SearchRec
  <2> HIDE DEF o
  <2>3. ASSUME Hunts(files, search) PROVE Hunts(files, s)
    <3> DEFINE f == files[p]
    <3>0. f \in FileRec /\ SoundIndex(f) /\ Len(f.idx) \in Nat
      BY <1>5, <2>3, FileTypes
    <3>1. /\ first \in later /\ \A m \in later : first <= m
          /\ first \in 1 .. Len(f.idx) /\ o = f.idx[first][2]
      <4>1. later \in SUBSET Nat /\ \A m \in later : m \in 1 .. Len(f.idx)
        BY <1>5, <2>3
      <4>2. later # {}
        BY <1>7
      <4> HIDE DEF later
      <4>3. first \in later /\ \A m \in later : first <= m
        BY <4>1, <4>2, MinProperties
      <4> HIDE DEF first
      <4>4. first \in 1 .. Len(f.idx)
        BY <4>1, <4>3
      <4>5. o = f.idx[first][2]
        BY <1>5, <2>3 DEF o
      <4> QED
        BY <4>3, <4>4, <4>5
    <3>2. Unread(files, s)
      <4> SUFFICES ASSUME NEW l \in search.findable
                   PROVE  \E i \in p .. n : \E a \in 1 .. Len(files[i].lines) :
                            files[i].lines[a] = l /\ (i = p => a > o)
        BY <2>2 DEF Unread
      <4>1. PICK i \in p .. n : \E a \in 1 .. Len(files[i].lines) :
              files[i].lines[a] = l /\ Entered(files, p, i, a, l.second)
        BY <1>5, <2>3 DEF Sought
      <4>2. PICK a \in 1 .. Len(files[i].lines) :
              files[i].lines[a] = l /\ Entered(files, p, i, a, l.second)
        BY <4>1
      <4>3. ASSUME i = p PROVE a > o
        <5>1. \A k \in p .. i : k = p
          BY <1>3, <4>3
        <5>2. PICK m \in 1 .. Len(f.idx) :
                Precedes(files, p, m, i, a) /\ f.idx[m][1] = l.second
          BY <4>2, <5>1 DEF Entered
        <5>3. m \in later
          BY <1>6, <2>3, <5>2
        <5>4. f.idx[m][2] < a
          BY <4>3, <5>2 DEF Precedes
        <5> HIDE DEF later, first, f
        <5>5. first <= m
          BY <3>1, <5>3
        <5>6. o <= f.idx[m][2]
          BY <3>0, <3>1, <5>5, OffsetsGrow
        <5>7. o \in Nat /\ f.idx[m][2] \in Nat
          BY <3>0, <3>1, FileTypes
        <5>8. a \in Int
          OBVIOUS
        <5> QED
          BY ONLY <5>4, <5>6, <5>7, <5>8
      <4> QED
        BY <4>2, <4>3
    <3>3. ~(Len(s.result) >= Limit(s.req))
      <4>1. Limit(search.req) \in Nat /\ Limit(search.req) >= 1
        BY <1>2, <1>3, LimitTypes DEF Asked
      <4>2. Len(s.result) = 0
        BY <2>2
      <4> QED
        BY <2>2, <4>1, <4>2
    <3> QED
      BY <1>5, <2>2, <2>3, <3>2, <3>3 DEF Hunts
  <2> QED
    BY <1>1, <1>2, <2>1, <2>2, <2>3, HuntStep
<1>8. CASE later = {} /\ search' = [search EXCEPT !.pos = @ + 1, !.from = 0]
  <2>1. PICK s : s = search'
    OBVIOUS
  <2>2. /\ s.req = search.req /\ s.names = search.names /\ s.warm = search.warm
        /\ s.findable = search.findable /\ s.at = "scan" /\ s.pos = p + 1 /\ s.from = 0
    <3>1. s = [search EXCEPT !.pos = p + 1, !.from = 0] /\ p + 1 \in Nat
      BY <1>3, <1>8, <2>1
    <3> HIDE DEF p
    <3> QED
      BY <1>1, <1>2, <3>1, NextName
  <2>3. ASSUME Hunts(files, search) PROVE Hunts(files, s)
    <3>1. Sought(files, s)
      <4> SUFFICES ASSUME NEW l \in search.findable
                   PROVE  \E i \in p + 1 .. n : \E a \in 1 .. Len(files[i].lines) :
                            files[i].lines[a] = l /\ Entered(files, p + 1, i, a, l.second)
        BY <2>2 DEF Sought
      <4>1. PICK i \in p .. n : \E a \in 1 .. Len(files[i].lines) :
              files[i].lines[a] = l /\ Entered(files, p, i, a, l.second)
        BY <1>5, <2>3 DEF Sought
      <4>2. PICK a \in 1 .. Len(files[i].lines) :
              files[i].lines[a] = l /\ Entered(files, p, i, a, l.second)
        BY <4>1
      <4>3. PICK k \in p .. i : \E m \in 1 .. Len(files[k].idx) :
              Precedes(files, k, m, i, a) /\ files[k].idx[m][1] = l.second
        BY <4>2 DEF Entered
      <4>4. k # p
        <5> HIDE DEF later
        <5>1. \A m : m \notin later
          BY <1>8
        <5> QED
          BY <1>6, <2>3, <4>3, <5>1
      <4>5. k \in p + 1 .. i /\ i \in p + 1 .. n
        BY <1>3, <4>4
      <4>6. Entered(files, p + 1, i, a, l.second)
        BY <4>3, <4>5 DEF Entered
      <4> QED
        BY <4>2, <4>5, <4>6
    <3> QED
      BY <1>5, <2>2, <2>3, <3>1 DEF Hunts
  <2> QED
    BY <1>1, <1>2, <2>1, <2>2, <2>3, HuntStep
<1> HIDE DEF later
<1> QED
  BY <1>4, <1>7, <1>8

\* When no index has an entry at or after the begin, there is nothing to find.
LEMMA NotFoundHunts ==
  ASSUME SearchTypeOK, SearchInv, HuntInv, NotFound
  PROVE  HuntInv'
<1>1. /\ search.at = "scan" /\ search.pos > Len(search.names) /\ files' = files
      /\ search' = [search EXCEPT !.at = "done"]
  BY DEF NotFound, disk
<1>2. search # NoSearch /\ search \in SearchRec
  BY <1>1, SearchIsOn
<1>3. search.pos \in Nat /\ Len(search.names) \in Nat
  BY <1>2, SearchTypes
<1>4. PICK s : s = search'
  OBVIOUS
<1>5. /\ s.req = search.req /\ s.names = search.names /\ s.warm = search.warm
      /\ s.findable = search.findable /\ s.at = "done"
  BY <1>1, <1>2, <1>4, AtDone
<1>6. ASSUME Hunts(files, search) PROVE Hunts(files, s)
  <2>1. search.pos .. Len(search.names) = {}
    BY <1>1, <1>3
  <2>2. search.findable = {}
    BY <1>1, <1>6, <2>1 DEF Hunts, Sought
  <2> QED
    BY <1>5, <1>6, <2>2 DEF Hunts, AllFound
<1> QED
  BY <1>1, <1>2, <1>4, <1>5, <1>6, HuntStep

\* PrefixOf stops at the first position that is not good, and only there.
LEMMA PrefixStops ==
  ASSUME NEW lines \in Seq(Line), NEW good
  PROVE  LET p == PrefixOf(lines, good)
         IN  /\ p \in Seq(Line) /\ Len(p) \in 0 .. Len(lines)
             /\ \A i \in 1 .. Len(p) : i \in 1 .. Len(lines) /\ p[i] = lines[i]
             /\ Len(p) < Len(lines) => Len(p) + 1 \in 1 .. Len(lines) /\ Len(p) + 1 \notin good
             /\ p # lines => Len(p) < Len(lines)
<1> DEFINE T == {i \in 0 .. Len(lines) : 1 .. i \subseteq good}
           m == Max(T)
           p == PrefixOf(lines, good)
<1>1. Len(lines) \in Nat
  OBVIOUS
<1>2. m \in T /\ \A i \in T : i <= m
  <2>1. T \in SUBSET (-1 .. Len(lines)) /\ T # {}
    <3>1. 0 \in T
      BY <1>1
    <3>2. \A i \in T : i \in -1 .. Len(lines)
      BY <1>1
    <3> HIDE DEF T
    <3> QED
      BY <3>1, <3>2
  <2> HIDE DEF T
  <2> QED
    BY <1>1, <2>1, MaxProperties
<1>3. m \in 0 .. Len(lines) /\ 1 .. m \subseteq good
  BY <1>2
<1>4. ASSUME m < Len(lines) PROVE m + 1 \in 1 .. Len(lines) /\ m + 1 \notin good
  <2>1. m \in Nat /\ m + 1 \in 0 .. Len(lines) /\ m + 1 \in 1 .. Len(lines) /\ ~(m + 1 <= m)
    BY <1>1, <1>3, <1>4
  <2>2. m + 1 \notin T
    <3> HIDE DEF T, m
    <3> QED
      BY <1>2, <2>1
  <2>3. PICK i \in 1 .. m + 1 : i \notin good
    BY <2>1, <2>2
  <2>4. i \notin 1 .. m
    BY <1>3, <2>3
  <2>5. i = m + 1
    BY <2>1, <2>4
  <2> QED
    BY <2>1, <2>3, <2>5
<1>5. p = SubSeq(lines, 1, m)
  BY DEF PrefixOf
<1> HIDE DEF m, T, p
<1>6. /\ p \in Seq(Line) /\ Len(p) = m
      /\ \A i \in 1 .. m : i \in 1 .. Len(lines) /\ p[i] = lines[i]
  <2>1. \A i \in 1 .. m : i \in 1 .. Len(lines) /\ lines[i] \in Line
    <3>1. \A i \in 1 .. m : i \in 1 .. Len(lines)
      BY <1>1, <1>3
    <3> QED
      BY <3>1
  <2>2. /\ p \in Seq(Line) /\ Len(p) = IF 1 <= m THEN m - 1 + 1 ELSE 0
        /\ \A i \in 1 .. m - 1 + 1 : p[i] = lines[1 + i - 1]
    <3>1. m \in Int /\ \A i \in 1 .. m : lines[i] \in Line
      BY <1>1, <1>3, <2>1
    <3> QED
      BY <1>5, <3>1, SubSeqProperties
  <2>3. Len(p) = m
    BY <1>1, <1>3, <2>2
  <2>4. \A i \in 1 .. m : i \in 1 .. m - 1 + 1 /\ 1 + i - 1 = i
    BY <1>1, <1>3
  <2> QED
    BY <2>1, <2>2, <2>3, <2>4
<1>7. ASSUME p # lines PROVE m < Len(lines)
  <2>1. CASE m = Len(lines)
    <3>1. Len(p) = Len(lines) /\ \A i \in 1 .. Len(lines) : p[i] = lines[i]
      BY <1>6, <2>1
    <3>2. p = lines
      BY <1>6, <3>1
    <3> QED
      BY <1>7, <3>2
  <2> QED
    BY <1>1, <1>3, <2>1
<1> QED
  BY <1>3, <1>4, <1>6, <1>7 DEF p

\* None of the lines of the resource is left out.
LEMMA SelectedHas ==
  ASSUME NEW lines \in Seq(Line), NEW x \in 1 .. Len(lines), OfResource(search.req, lines[x])
  PROVE  \E i \in 1 .. Len(Selected(lines)) : Selected(lines)[i] = lines[x]
<1> DEFINE N == Len(lines)
           Has(found) == \E i \in 1 .. Len(found) : found[i] = lines[x]
<1>1. PICK f : Picked(search.req, lines, f) /\ Selected(lines) = f[N]
  BY SelectedIsPicked
<1>2. N \in Nat
  OBVIOUS
<1>3. ASSUME NEW n \in 1 .. N, n = x \/ Has(f[n - 1]) PROVE Has(f[n])
  <2> DEFINE found == f[n - 1]
             l == lines[n]
  <2>1. found \in Seq(Line) /\ l \in Line
    <3>1. n - 1 \in 0 .. N /\ n \in 1 .. Len(lines)
      BY <1>2
    <3> QED
      BY <1>1, <3>1 DEF Picked
  <2>2. f[n] = IF OfResource(search.req, l) THEN Append(found, l) ELSE found
    BY <1>1 DEF Picked
  <2>3. n = x => OfResource(search.req, l) /\ l = lines[x]
    OBVIOUS
  <2>4. n # x => Has(found)
    BY <1>3
  <2> HIDE DEF found, l
  <2>5. /\ Len(found) \in Nat /\ Len(Append(found, l)) = Len(found) + 1
        /\ Append(found, l)[Len(found) + 1] = l
        /\ \A i \in 1 .. Len(found) : Append(found, l)[i] = found[i]
    BY <2>1, AppendProperties
  <2>6. /\ Len(found) + 1 \in 1 .. Len(Append(found, l))
        /\ \A i \in 1 .. Len(found) : i \in 1 .. Len(Append(found, l))
    BY <2>5
  <2>7. Has(found) => Has(Append(found, l))
    BY <2>5, <2>6
  <2>8. l = lines[x] => Has(Append(found, l))
    BY <2>5, <2>6
  <2> HIDE DEF Has
  <2> QED
    BY <2>2, <2>3, <2>4, <2>7, <2>8
<1> HIDE DEF Has
<1> DEFINE T == {n \in x .. N : ~Has(f[n])}
<1>4. T = {}
  <2> SUFFICES ASSUME T # {} PROVE FALSE
    OBVIOUS
  <2>1. PICK m \in T : \A k \in T : m <= k
    <3>1. T \in SUBSET Nat
      OBVIOUS
    <3> HIDE DEF T
    <3> QED
      BY <3>1, LeastElement
  <2>2. m \in x .. N /\ ~Has(f[m]) /\ m \in 1 .. N
    BY <1>2, <2>1
  <2>3. m # x /\ ~Has(f[m - 1])
    BY <1>3, <2>2
  <2>4. m - 1 \in x .. N /\ ~(m <= m - 1)
    BY <1>2, <2>2, <2>3
  <2>5. m - 1 \in T
    BY <2>3, <2>4
  <2> HIDE DEF T
  <2> QED
    BY <2>1, <2>4, <2>5
<1>5. N \in x .. N
  BY <1>2
<1>6. Has(f[N])
  BY <1>4, <1>5
<1> QED
  BY <1>1, <1>6 DEF Has

\* The lesser of two is one of them.
LEMMA LesserOfTwo ==
  ASSUME NEW a \in Nat, NEW b \in Nat
  PROVE  /\ Min({a, b}) = a \/ Min({a, b}) = b
         /\ Min({a, b}) <= a /\ Min({a, b}) \in Nat
<1>1. \E x \in {a, b} : \A y \in {a, b} : x <= y
  <2>1. CASE a <= b
    <3>1. a <= a
      OBVIOUS
    <3> QED
      BY <2>1, <3>1
  <2>2. CASE b <= a
    <3>1. b <= b
      OBVIOUS
    <3> QED
      BY <2>2, <3>1
  <2> QED
    BY <2>1, <2>2
<1>2. Min({a, b}) \in {a, b} /\ \A y \in {a, b} : Min({a, b}) <= y
  BY <1>1 DEF Min
<1> QED
  BY <1>2

-----------------------------------------------------------------------------
(***************************************************************************)
(* What MetricReader leaves out.                                           *)
(***************************************************************************)
\* Lines from the begin b on, in the order of their seconds.
Onward(lines, b) ==
  /\ lines \in Seq(Line)
  /\ \A x \in 1 .. Len(lines) : lines[x].second \in Nat /\ b <= lines[x].second
  /\ \A x, y \in 1 .. Len(lines) : x < y => lines[x].second <= lines[y].second

\* A line is found.
In(found, l) == \E q \in 1 .. Len(found) : found[q] = l

\* A line is left out because the limit was reached before it.
Beyond(found, l) ==
  /\ Len(search.result) + Len(found) >= Limit(search.req)
  /\ \A q \in 1 .. Len(found) : found[q].second <= l.second

\* The reader stops at the end of the range, at nothing else.
LEMMA RangeStops ==
  ASSUME NEW lines, NEW b \in Nat, NEW e \in Nat, Onward(lines, b)
  PROVE  LET p == PrefixOf(lines, {j \in 1 .. Len(lines) : lines[j].second \in b .. e})
         IN  /\ p \in Seq(Line)
             /\ \A x \in 1 .. Len(p) : x \in 1 .. Len(lines) /\ p[x] = lines[x]
             /\ \A x \in 1 .. Len(lines) :
                  lines[x].second <= e => x \in 1 .. Len(p) /\ p[x] = lines[x]
             /\ p # lines => \E x \in 1 .. Len(lines) : lines[x].second > e
<1> DEFINE good == {j \in 1 .. Len(lines) : lines[j].second \in b .. e}
           p == PrefixOf(lines, good)
           m == Len(p)
<1>0. lines \in Seq(Line) /\ Len(lines) \in Nat
  BY DEF Onward
<1>1. /\ p \in Seq(Line) /\ m \in 0 .. Len(lines)
      /\ \A x \in 1 .. m : x \in 1 .. Len(lines) /\ p[x] = lines[x]
      /\ m < Len(lines) => m + 1 \in 1 .. Len(lines) /\ m + 1 \notin good
      /\ p # lines => m < Len(lines)
  <2> HIDE DEF good
  <2> QED
    BY <1>0, PrefixStops
<1> HIDE DEF p, m
<1>2. ASSUME m < Len(lines) PROVE m + 1 \in 1 .. Len(lines) /\ lines[m + 1].second > e
  <2>1. m + 1 \in 1 .. Len(lines) /\ m + 1 \notin good
    BY <1>1, <1>2
  <2>2. lines[m + 1].second \in Nat /\ b <= lines[m + 1].second
        /\ lines[m + 1].second \notin b .. e
    BY <2>1 DEF Onward
  <2> QED
    BY <2>1, <2>2
<1> HIDE DEF good
<1>3. ASSUME NEW x \in 1 .. Len(lines), lines[x].second <= e
      PROVE  x \in 1 .. m
  <2> SUFFICES ASSUME x \notin 1 .. m PROVE FALSE
    OBVIOUS
  <2>1. m < Len(lines) /\ (x = m + 1 \/ m + 1 < x)
    BY <1>0, <1>1
  <2>2. m + 1 \in 1 .. Len(lines) /\ lines[m + 1].second > e
    BY <1>2, <2>1
  <2>3. x # m + 1 => lines[m + 1].second <= lines[x].second
    BY <2>1, <2>2 DEF Onward
  <2>4. lines[m + 1].second \in Nat /\ lines[x].second \in Nat
    BY <2>2 DEF Onward
  <2>5. x = m + 1 => FALSE
    BY <1>3, <2>2, <2>4
  <2> QED
    BY ONLY <1>3, <2>2, <2>3, <2>4, <2>5, e \in Nat
<1>4. /\ p \in Seq(Line)
      /\ \A x \in 1 .. m : x \in 1 .. Len(lines) /\ p[x] = lines[x]
      /\ \A x \in 1 .. Len(lines) : lines[x].second <= e => x \in 1 .. m /\ p[x] = lines[x]
      /\ p # lines => \E x \in 1 .. Len(lines) : lines[x].second > e
  BY <1>1, <1>2, <1>3
<1> QED
  BY <1>4 DEF p, m, good

\* ReadMetricsInOneFileByEndTime.
LEMMA ByEndHas ==
  ASSUME search \in SearchRec, search.req.end # None,
         ~(Len(search.result) >= Limit(search.req)),
         NEW lines, Onward(lines, search.req.begin),
         NEW x \in 1 .. Len(lines), lines[x].second <= search.req.end,
         OfResource(search.req, lines[x])
  PROVE  In(ReadByEndTime(lines), lines[x]) \/ Beyond(ReadByEndTime(lines), lines[x])
<1> DEFINE l == lines[x]
           p == InRange(lines)
           s == Selected(p)
           n == Len(search.result)
           left == MaxLinesReturn - n
           m == Min({Len(s), left})
           found == SubSeq(s, 1, m)
<1>1. /\ search.req.begin \in Nat /\ search.req.end \in Nat /\ n \in Nat
      /\ Limit(search.req) = MaxLinesReturn /\ MaxLinesReturn \in Nat
  BY SearchTypes, MetricLogAssumption DEF Limit
<1>2. left \in Nat /\ left >= 1 /\ n + left = MaxLinesReturn
  BY <1>1
<1>3. /\ p \in Seq(Line) /\ x \in 1 .. Len(p) /\ p[x] = l
      /\ \A y \in 1 .. Len(p) : y \in 1 .. Len(lines) /\ p[y] = lines[y]
  <2> DEFINE b == search.req.begin
             e == search.req.end
             g == PrefixOf(lines, {j \in 1 .. Len(lines) : lines[j].second \in b .. e})
  <2>1. p = g
    BY DEF InRange
  <2>2. b \in Nat /\ e \in Nat /\ Onward(lines, b) /\ lines[x].second <= e
    BY <1>1
  <2> HIDE DEF b, e
  <2>3. /\ g \in Seq(Line)
        /\ \A y \in 1 .. Len(g) : y \in 1 .. Len(lines) /\ g[y] = lines[y]
        /\ \A y \in 1 .. Len(lines) : lines[y].second <= e => y \in 1 .. Len(g) /\ g[y] = lines[y]
    BY ONLY <2>2, RangeStops
  <2> HIDE DEF p, g
  <2> QED
    BY <2>1, <2>2, <2>3
<1>4. ReadByEndTime(lines) = found
  BY DEF ReadByEndTime
<1> HIDE DEF p, left, n
<1>5. Drawn(s, p, 1 .. Len(p)) /\ \E i \in 1 .. Len(s) : s[i] = l
  <2>1. OfResource(search.req, p[x])
    BY <1>3
  <2> HIDE DEF l
  <2>2. Drawn(s, p, 1 .. Len(p))
    BY <1>3, SelectedDraws
  <2>3. \E i \in 1 .. Len(s) : s[i] = p[x]
    BY <1>3, <2>1, SelectedHas
  <2> QED
    BY <1>3, <2>2, <2>3
<1> HIDE DEF s
<1>6. s \in Seq(Line) /\ Len(s) \in Nat
  BY <1>5 DEF Drawn
<1>7. PICK i \in 1 .. Len(s) : s[i] = l
  BY <1>5
<1>8. /\ m = Len(s) \/ m = left
      /\ m <= Len(s) /\ m \in Nat
  BY <1>2, <1>6, LesserOfTwo
<1> HIDE DEF m
<1>9. /\ Len(found) = m
      /\ \A q \in 1 .. m : q \in 1 .. Len(s) /\ found[q] = s[q]
  <2>1. \A q \in 1 .. m : q \in 1 .. Len(s) /\ s[q] \in Line
    <3>1. \A q \in 1 .. m : q \in 1 .. Len(s)
      BY <1>6, <1>8
    <3> QED
      BY <1>6, <3>1
  <2>2. /\ Len(found) = IF 1 <= m THEN m - 1 + 1 ELSE 0
        /\ \A q \in 1 .. m - 1 + 1 : found[q] = s[1 + q - 1]
    <3>1. m \in Int /\ \A q \in 1 .. m : s[q] \in Line
      BY <1>8, <2>1
    <3> QED
      BY <3>1, SubSeqProperties
  <2>3. Len(found) = m
    BY <1>8, <2>2
  <2>4. \A q \in 1 .. m : q \in 1 .. m - 1 + 1 /\ 1 + q - 1 = q
    BY <1>8
  <2> QED
    BY <2>1, <2>2, <2>3, <2>4
<1> HIDE DEF found
<1>10. CASE i <= m
  <2>1. i \in 1 .. m
    BY <1>8, <1>10
  <2>2. In(found, l)
    BY <1>7, <1>9, <2>1 DEF In
  <2> QED
    BY <1>4, <2>2 DEF l
<1>11. CASE ~(i <= m)
  <2>1. m = left
    BY <1>6, <1>8, <1>11
  <2>2. n + Len(found) >= Limit(search.req)
    BY <1>1, <1>2, <1>9, <2>1
  <2>3. ASSUME NEW q \in 1 .. Len(found) PROVE found[q].second <= l.second
    <3>1. q \in 1 .. Len(s) /\ found[q] = s[q] /\ q < i
      BY <1>8, <1>9, <1>11
    <3>2. PICK a, b \in 1 .. Len(p) : a < b /\ s[q] = p[a] /\ s[i] = p[b]
      BY <1>5, <3>1 DEF Drawn
    <3>3. a \in 1 .. Len(lines) /\ b \in 1 .. Len(lines) /\ found[q] = lines[a] /\ l = lines[b]
      BY <1>3, <1>7, <3>1, <3>2
    <3>4. lines[a].second <= lines[b].second
      BY <3>2, <3>3 DEF Onward
    <3> HIDE DEF l
    <3> QED
      BY <3>3, <3>4
  <2>4. Beyond(found, l)
    BY <2>2, <2>3 DEF Beyond, n
  <2> QED
    BY <1>4, <2>4 DEF l
<1> QED
  BY <1>10, <1>11

\* ReadMetricsInOneFile.
LEMMA ByLinesHas ==
  ASSUME search \in SearchRec, Limit(search.req) \in Nat,
         NEW lines, NEW b, Onward(lines, b), NEW x \in 1 .. Len(lines)
  PROVE  In(ReadLines(lines), lines[x]) \/ Beyond(ReadLines(lines), lines[x])
<1> DEFINE n == Len(search.result)
           good == {j \in 1 .. Len(lines) :
                      \/ n + j <= Limit(search.req)
                      \/ j > 1 /\ lines[j].second = lines[j - 1].second}
           p == PrefixOf(lines, good)
           m == Len(p)
<1>1. n \in Nat /\ lines \in Seq(Line) /\ Len(lines) \in Nat
  BY SearchTypes DEF Onward
<1>2. ReadLines(lines) = p
  BY DEF ReadLines
<1>3. /\ m \in 0 .. Len(lines) /\ \A q \in 1 .. m : q \in 1 .. Len(lines) /\ p[q] = lines[q]
      /\ m < Len(lines) => m + 1 \in 1 .. Len(lines) /\ m + 1 \notin good
  <2> HIDE DEF good
  <2> QED
    BY <1>1, PrefixStops
<1> HIDE DEF p, m, n
<1>4. CASE x <= m
  <2>1. x \in 1 .. m
    BY <1>3, <1>4
  <2>2. In(p, lines[x])
    BY <1>3, <2>1 DEF In, m
  <2> QED
    BY <1>2, <2>2
<1>5. CASE ~(x <= m)
  <2>1. m < Len(lines) /\ m \in Nat
    BY <1>1, <1>3, <1>5
  <2>2. ~(n + (m + 1) <= Limit(search.req))
    BY <1>3, <2>1
  <2>3. n + m >= Limit(search.req)
    BY <1>1, <2>1, <2>2
  <2>4. ASSUME NEW q \in 1 .. m PROVE p[q].second <= lines[x].second
    <3>1. q \in 1 .. Len(lines) /\ p[q] = lines[q] /\ q < x
      BY <1>3, <1>5, <2>1
    <3> QED
      BY <3>1 DEF Onward
  <2>5. Beyond(p, lines[x])
    BY <2>3, <2>4 DEF Beyond, n, m
  <2> QED
    BY <1>2, <2>5
<1> QED
  BY <1>4, <1>5

\* What the reader has before it is all that follows the offset.
LEMMA TailReaches ==
  ASSUME NEW all \in Seq(Line), NEW o \in Nat, NEW a \in 1 .. Len(all), a > o
  PROVE  LET t == SubSeq(all, o + 1, Len(all))
         IN  a - o \in 1 .. Len(t) /\ t[a - o] = all[a]
<1> DEFINE t == SubSeq(all, o + 1, Len(all))
<1>1. o + 1 \in Int /\ Len(all) \in Int /\ Len(all) \in Nat
  OBVIOUS
<1>2. \A i \in o + 1 .. Len(all) : all[i] \in Line
  <2>1. \A i \in o + 1 .. Len(all) : i \in 1 .. Len(all)
    BY <1>1
  <2> QED
    BY <2>1
<1>3. /\ Len(t) = IF o + 1 <= Len(all) THEN Len(all) - (o + 1) + 1 ELSE 0
      /\ \A i \in 1 .. Len(all) - (o + 1) + 1 : t[i] = all[(o + 1) + i - 1]
  BY <1>1, <1>2, SubSeqProperties
<1> HIDE DEF t
<1>4. /\ a - o \in 1 .. Len(all) - (o + 1) + 1 /\ (o + 1) + (a - o) - 1 = a
      /\ o + 1 <= Len(all)
  BY <1>1
<1>5. Len(t) = Len(all) - (o + 1) + 1
  BY <1>3, <1>4
<1> QED
  BY <1>3, <1>4, <1>5 DEF t

\* It is in order, from the begin on.
LEMMA TailOnward ==
  ASSUME LogSafe, search \in SearchRec, Ahead(files, search),
         NEW k \in 1 .. Len(files), files[k].name = search.names[search.pos],
         NEW lines, lines = SubSeq(files[k].lines, search.offset + 1, Len(files[k].lines))
  PROVE  Onward(lines, search.req.begin)
<1> DEFINE all == files[k].lines
           o == search.offset
           b == search.req.begin
<1>1. /\ files \in Seq(FileRec) /\ Sorted(files) /\ files[k] \in FileRec
      /\ o \in Nat /\ b \in Nat
  BY SearchTypes DEF LogSafe, LogInv, Good
<1>2. /\ all \in Seq(Line) /\ files[k].name \in Nat \X Nat
      /\ \A a \in 1 .. Len(all) : all[a].second \in Nat
  BY <1>1, FileTypes
<1>3. lines = SubSeq(all, o + 1, Len(all))
  OBVIOUS
<1> HIDE DEF o
<1>4. /\ lines \in Seq(Line) /\ Len(lines) \in Nat
      /\ \A i \in 1 .. Len(lines) : i + o \in o + 1 .. Len(all) /\ lines[i] = all[i + o]
  <2> DEFINE t == SubSeq(all, o + 1, Len(all))
  <2>1. all \in Seq(Line) /\ o \in Nat /\ lines = t
    BY <1>1, <1>2, <1>3
  <2> HIDE DEF all
  <2>2. /\ t \in Seq(Line) /\ Len(t) \in Nat
        /\ \A i \in 1 .. Len(t) : i + o \in o + 1 .. Len(all) /\ t[i] = all[i + o]
    BY ONLY <2>1, TailDraws
  <2> HIDE DEF t
  <2> QED
    BY ONLY <2>1, <2>2
<1>5. \A i \in 1 .. Len(lines) : i + o \in 1 .. Len(all) /\ i + o > o
  <2>1. Len(all) \in Nat
    BY <1>2
  <2>2. \A i \in o + 1 .. Len(all) : i \in 1 .. Len(all) /\ i > o
    BY <1>1, <2>1
  <2> HIDE DEF all
  <2> QED
    BY <1>4, <2>2
<1>6. ~Before(files[k].name, search.names[search.pos])
  <2>1. ~Before(files[k].name, files[k].name)
    BY <1>2, BeforeOrder
  <2> QED
    BY <2>1
<1>7. ASSUME NEW x \in 1 .. Len(lines)
      PROVE  lines[x].second \in Nat /\ b <= lines[x].second
  <2>1. x + o \in 1 .. Len(files[k].lines) /\ x + o > o
    BY <1>5
  <2>2. b <= files[k].lines[x + o].second
    BY <1>6, <2>1 DEF Ahead, o
  <2> QED
    BY <1>2, <1>4, <2>1, <2>2
<1>8. ASSUME NEW x \in 1 .. Len(lines), NEW y \in 1 .. Len(lines), x < y
      PROVE  lines[x].second <= lines[y].second
  <2>1. /\ x + o \in 1 .. Len(files[k].lines) /\ y + o \in 1 .. Len(files[k].lines)
        /\ x + o < y + o
    <3>1. x + o < y + o
      BY ONLY <1>1, x \in 1 .. Len(lines), y \in 1 .. Len(lines), x < y
    <3> QED
      BY <1>5, <3>1
  <2>2. files[k].lines[x + o].second <= files[k].lines[y + o].second
    BY <1>1, <2>1 DEF Sorted
  <2> QED
    BY <1>4, <2>2
<1> QED
  BY <1>4, <1>7, <1>8 DEF Onward

\* A line after the offset that was asked for is found, or beyond the limit.
LEMMA FoundLeaves ==
  ASSUME LogSafe, search \in SearchRec, Ahead(files, search), Limit(search.req) \in Nat,
         ~(Len(search.result) >= Limit(search.req)),
         NEW k \in 1 .. Len(files), files[k].name = search.names[search.pos],
         NEW a \in 1 .. Len(files[k].lines), a > search.offset,
         NEW l, l = files[k].lines[a], InTime(search.req, l), OfResource(search.req, l)
  PROVE  In(Found(files[k].lines), l) \/ Beyond(Found(files[k].lines), l)
<1> DEFINE all == files[k].lines
           o == search.offset
           lines == SubSeq(all, o + 1, Len(all))
           x == a - o
<1>1. files[k] \in FileRec /\ o \in Nat
  BY SearchTypes DEF LogSafe, LogInv, Good
<1>2. all \in Seq(Line)
  BY <1>1, FileTypes
<1>3. x \in 1 .. Len(lines) /\ lines[x] = l
  <2> HIDE DEF o
  <2>1. a > o
    BY DEF o
  <2> QED
    BY <1>1, <1>2, <2>1, TailReaches
<1>4. Onward(lines, search.req.begin)
  BY TailOnward
<1>5. Found(all) = IF search.req.end # None THEN ReadByEndTime(lines) ELSE ReadLines(lines)
  BY DEF Found
<1> HIDE DEF lines, x, all
<1>6. CASE search.req.end # None
  <2>1. lines[x].second <= search.req.end /\ OfResource(search.req, lines[x])
    BY <1>3, <1>6 DEF InTime
  <2>2. In(ReadByEndTime(lines), lines[x]) \/ Beyond(ReadByEndTime(lines), lines[x])
    BY <1>3, <1>4, <1>6, <2>1, ByEndHas
  <2> QED
    BY <1>3, <1>5, <1>6, <2>2 DEF all
<1>7. CASE search.req.end = None
  <2>1. In(ReadLines(lines), lines[x]) \/ Beyond(ReadLines(lines), lines[x])
    BY <1>3, <1>4, ByLinesHas
  <2> QED
    BY <1>3, <1>5, <1>7, <2>1 DEF all
<1> QED
  BY <1>6, <1>7

\* Where the range ends there is a line beyond its end.
LEMMA RangeEnds ==
  ASSUME LogSafe, search \in SearchRec, Ahead(files, search), search.req.end # None,
         NEW k \in 1 .. Len(files), files[k].name = search.names[search.pos],
         NEW lines, lines = SubSeq(files[k].lines, search.offset + 1, Len(files[k].lines)),
         InRange(lines) # lines
  PROVE  \E c \in 1 .. Len(files[k].lines) : files[k].lines[c].second > search.req.end
<1> DEFINE all == files[k].lines
           o == search.offset
           b == search.req.begin
           e == search.req.end
<1>1. files[k] \in FileRec /\ o \in Nat /\ b \in Nat /\ e \in Nat
  BY SearchTypes DEF LogSafe, LogInv, Good
<1>2. all \in Seq(Line) /\ Len(all) \in Nat
  BY <1>1, FileTypes
<1>3. Onward(lines, b)
  BY TailOnward
<1>4. PrefixOf(lines, {j \in 1 .. Len(lines) : lines[j].second \in b .. e}) # lines
  BY DEF InRange
<1>5. lines = SubSeq(all, o + 1, Len(all))
  OBVIOUS
<1> HIDE DEF b, e, o
<1>6. PICK x \in 1 .. Len(lines) : lines[x].second > e
  BY ONLY <1>1, <1>3, <1>4, RangeStops
<1>7. x + o \in o + 1 .. Len(all) /\ lines[x] = all[x + o]
  <2> DEFINE t == SubSeq(all, o + 1, Len(all))
  <2>1. all \in Seq(Line) /\ o \in Nat /\ lines = t
    BY <1>1, <1>2, <1>5
  <2> HIDE DEF all
  <2>2. \A i \in 1 .. Len(t) : i + o \in o + 1 .. Len(all) /\ t[i] = all[i + o]
    BY ONLY <2>1, TailDraws
  <2> HIDE DEF t
  <2>3. x \in 1 .. Len(t)
    BY ONLY <2>1, x \in 1 .. Len(lines)
  <2> QED
    BY ONLY <2>1, <2>2, <2>3
<1>8. x + o \in 1 .. Len(all)
  <2> HIDE DEF all
  <2> QED
    BY <1>1, <1>2, <1>7
<1> QED
  BY <1>6, <1>7, <1>8 DEF e

\* What was found is among what is found in the end.
LEMMA JoinedHas ==
  ASSUME NEW r \in Seq(Line), NEW found \in Seq(Line)
  PROVE  /\ Len(r \o found) = Len(r) + Len(found)
         /\ ToSet(r) \subseteq ToSet(r \o found)
         /\ \A l : In(found, l) => l \in ToSet(r \o found)
<1> DEFINE t == r \o found
<1>1. /\ Len(r) \in Nat /\ Len(found) \in Nat /\ Len(t) = Len(r) + Len(found)
      /\ \A j \in 1 .. Len(r) + Len(found) :
           t[j] = IF j <= Len(r) THEN r[j] ELSE found[j - Len(r)]
  <2>1. Len(r) \in Nat /\ Len(found) \in Nat
    OBVIOUS
  <2> HIDE DEF t
  <2> QED
    BY <2>1, ConcatProperties DEF t
<1> HIDE DEF t
<1>2. \A i \in 1 .. Len(r) : i \in 1 .. Len(t) /\ t[i] = r[i]
  <2>1. \A i \in 1 .. Len(r) : i \in 1 .. Len(r) + Len(found) /\ i <= Len(r)
    BY <1>1
  <2> QED
    BY <1>1, <2>1
<1>3. \A q \in 1 .. Len(found) : Len(r) + q \in 1 .. Len(t) /\ t[Len(r) + q] = found[q]
  <2>1. \A q \in 1 .. Len(found) :
          /\ Len(r) + q \in 1 .. Len(r) + Len(found) /\ ~(Len(r) + q <= Len(r))
          /\ Len(r) + q - Len(r) = q
    BY <1>1
  <2> QED
    BY <1>1, <2>1
<1>4. ToSet(r) \subseteq ToSet(t)
  BY <1>2 DEF ToSet
<1>5. \A l : In(found, l) => l \in ToSet(t)
  BY <1>3 DEF ToSet, In
<1> QED
  BY <1>1, <1>4, <1>5 DEF t

\* The last line found is no younger than a line that follows both parts.
LEMMA LastFollows ==
  ASSUME NEW r \in Seq(Line), NEW found \in Seq(Line), NEW l \in Line, After(r, l),
         \A q \in 1 .. Len(found) : found[q].second <= l.second,
         NEW n \in Nat, n >= 1, Len(r \o found) >= n
  PROVE  l.second >= Last(r \o found).second
<1> DEFINE t == r \o found
           j == Len(t)
<1>1. t \in Seq(Line) /\ j \in Nat /\ j >= 1 /\ Len(t) >= n
  <2>1. t \in Seq(Line) /\ Len(t) \in Nat
    BY ConcatProperties
  <2> QED
    BY <2>1
<1>2. j \in 1 .. Len(t)
  BY <1>1
<1>3. \/ j \in 1 .. Len(r) /\ t[j] = r[j]
      \/ j - Len(r) \in 1 .. Len(found) /\ t[j] = found[j - Len(r)]
  <2> HIDE DEF j
  <2> QED
    BY <1>2, JoinedElements
<1> HIDE DEF t
<1>4. t[j].second <= l.second
  <2>1. \A i \in 1 .. Len(r) : r[i].second <= l.second
    BY DEF After
  <2> HIDE DEF j
  <2> QED
    BY <1>3, <2>1
<1>5. t[j].second \in Int /\ l.second \in Int /\ Last(t) = t[j]
  <2>1. t[j] \in Line
    BY <1>1, <1>2
  <2>2. \A m \in Line : m.second \in Int
    BY MetricLogAssumption DEF Line, Seconds
  <2> QED
    BY <2>1, <2>2 DEF Last
<1> QED
  BY <1>4, <1>5 DEF t

\* Read: what it leaves out is beyond the limit, or is read from a later file.
LEMMA ReadLeaves ==
  ASSUME LogSafe, search \in SearchRec, Ahead(files, search), Asked(search),
         Answers(search.req, search.result), search.at = "read", Hunts(files, search),
         search.pos \in 1 .. Len(search.names),
         NEW t, t = search.result \o NowFound, NEW l \in search.findable \ ToSet(t)
  PROVE  \/ Len(t) >= Limit(search.req) /\ l.second >= Last(t).second
         \/ /\ ~Ends(t)
            /\ \E i \in search.pos + 1 .. Len(search.names) :
                 \E a \in 1 .. Len(files[i].lines) : files[i].lines[a] = l
<1> DEFINE p == search.pos
           n == Len(search.names)
           r == search.result
           found == NowFound
           req == search.req
           all == files[p].lines
<1>1. /\ InPlace(files, search.names) /\ ~(Len(r) >= Limit(req)) /\ Unread(files, search)
  BY DEF Hunts
<1>2. /\ files \in Seq(FileRec) /\ Len(files) \in Nat /\ Named(files) /\ Sorted(files)
      /\ p \in Nat /\ n \in Nat /\ r \in Seq(Line) /\ Len(r) \in Nat
      /\ req \in Requests /\ req.begin \in Nat /\ req.end \in Nat \cup {None}
      /\ l \in Line /\ InTime(req, l) /\ OfResource(req, l)
  BY SearchTypes DEF LogSafe, LogInv, Good, Asked
<1>3. Limit(req) \in Nat /\ Limit(req) >= 1
  BY <1>2, LimitTypes DEF Asked
<1>4. \A i \in p .. n : i \in 1 .. Len(files) /\ files[i].name = search.names[i]
  BY <1>1, <1>2 DEF InPlace
<1>5. p \in p .. n /\ p \in 1 .. Len(files) /\ files[p].name = search.names[p]
  BY <1>2, <1>4
<1>6. /\ Exists(search.names[p]) /\ File(search.names[p]) = files[p]
      /\ found = Found(all)
  <2>1. Exists(files[p].name) /\ File(files[p].name) = files[p]
    BY <1>5, FileOfName
  <2> QED
    BY <1>5, <2>1 DEF NowFound
<1>7. /\ found \in Seq(Line)
      /\ \A i \in 1 .. Len(files) : Before(search.names[p], files[i].name) =>
           \A b \in 1 .. Len(files[i].lines) : \A q \in 1 .. Len(found) :
             found[q].second <= files[i].lines[b].second
  BY NowAnswers
<1>8. /\ t = r \o found /\ Len(t) = Len(r) + Len(found) /\ l \notin ToSet(r)
      /\ ~In(found, l)
  <2>1. t = r \o found
    OBVIOUS
  <2> HIDE DEF r, found
  <2>2. Len(t) = Len(r) + Len(found) /\ ToSet(r) \subseteq ToSet(t)
        /\ (In(found, l) => l \in ToSet(t))
    BY <1>2, <1>7, <2>1, JoinedHas
  <2> QED
    BY <2>1, <2>2
<1>9. PICK i \in p .. n : \E a \in 1 .. Len(files[i].lines) :
        files[i].lines[a] = l /\ (i = p => a > search.offset)
  BY <1>1, <1>8 DEF Unread
<1>10. PICK a \in 1 .. Len(files[i].lines) :
         files[i].lines[a] = l /\ (i = p => a > search.offset)
  BY <1>9
<1>11. i \in 1 .. Len(files) /\ (i # p => p < i)
  BY <1>2, <1>4
<1>12. files[i].name \in Nat \X Nat /\ files[p].name \in Nat \X Nat
  <2>1. files[i] \in FileRec /\ files[p] \in FileRec
    BY <1>2, <1>5, <1>11
  <2> QED
    BY <2>1, FileTypes
<1> HIDE DEF found
<1>13. After(r, l)
  <2>1. ~Before(files[i].name, search.names[p])
    <3>1. CASE i = p
      BY <1>5, <1>12, <3>1, BeforeOrder
    <3>2. CASE i # p
      <4>1. Before(files[p].name, files[i].name)
        BY <1>2, <1>5, <1>11, <3>2 DEF Named
      <4>2. ~Before(files[p].name, files[p].name) /\
            (Before(files[p].name, files[i].name) /\ Before(files[i].name, files[p].name)
               => Before(files[p].name, files[p].name))
        BY <1>12, BeforeOrder
      <4> QED
        BY <1>5, <4>1, <4>2
    <3> QED
      BY <3>1, <3>2
  <2> QED
    BY <1>10, <1>11, <2>1 DEF Ahead
<1>14. CASE i = p
  <2>1. In(found, l) \/ Beyond(found, l)
    <3>1. a \in 1 .. Len(files[p].lines) /\ a > search.offset /\ l = files[p].lines[a]
      BY <1>10, <1>14
    <3> QED
      BY <1>1, <1>2, <1>3, <1>5, <1>6, <3>1, FoundLeaves
  <2>2. Len(t) >= Limit(req) /\ \A q \in 1 .. Len(found) : found[q].second <= l.second
    BY <1>8, <2>1 DEF Beyond
  <2>3. l.second >= Last(t).second
    BY <1>2, <1>3, <1>7, <1>8, <1>13, <2>2, LastFollows
  <2> QED
    BY <2>2, <2>3
<1>15. CASE i # p
  <2>1. i \in p + 1 .. n /\ p # n
    BY <1>2, <1>15
  <2>2. Before(search.names[p], files[i].name)
    BY <1>2, <1>5, <1>11, <1>15 DEF Named
  <2>3. \A q \in 1 .. Len(found) : found[q].second <= l.second
    BY <1>7, <1>10, <1>11, <2>2
  <2>4. ASSUME Len(t) >= Limit(req) PROVE l.second >= Last(t).second
    BY <1>2, <1>3, <1>7, <1>8, <1>13, <2>3, <2>4, LastFollows
  <2>5. ASSUME ~(Len(t) >= Limit(req)) PROVE ~Ends(t)
    <3> SUFFICES ASSUME Ends(t) PROVE FALSE
      OBVIOUS
    <3> DEFINE lines == SubSeq(all, search.offset + 1, Len(all))
    <3>1. req.end # None /\ InRange(lines) # lines
      BY <1>6, <2>1, <2>5 DEF Ends
    <3>2. PICK c \in 1 .. Len(files[p].lines) : files[p].lines[c].second > req.end
      <4>1. lines = SubSeq(files[p].lines, search.offset + 1, Len(files[p].lines))
        OBVIOUS
      <4> HIDE DEF lines
      <4> QED
        BY <1>5, <3>1, <4>1, RangeEnds
    <3>3. files[p].lines[c].second <= files[i].lines[a].second
      BY <1>2, <1>5, <1>10, <1>11, <1>15, <3>2 DEF Sorted
    <3>4. files[i].lines[a].second <= req.end
      BY <1>2, <1>10, <3>1 DEF InTime
    <3>5. files[p].lines[c].second \in Nat /\ files[i].lines[a].second \in Nat
          /\ req.end \in Nat
      <4>1. files[i] \in FileRec /\ files[p] \in FileRec
        BY <1>2, <1>5, <1>11
      <4> QED
        BY <1>2, <1>10, <3>1, <3>2, <4>1, FileTypes
    <3> QED
      BY ONLY <3>2, <3>3, <3>4, <3>5
  <2> QED
    BY <1>10, <2>1, <2>4, <2>5
<1> QED
  BY <1>14, <1>15

\* Read misses nothing.
LEMMA ReadHunts ==
  ASSUME LogSafe, SearchTypeOK, SearchInv, HuntInv, Read
  PROVE  HuntInv'
<1>1. search.at = "read" /\ files' = files
  BY DEF Read, disk
<1>2. PICK a \in {"read", "done"} :
        /\ a = "done" <=> Ends(search.result \o NowFound)
        /\ search' = [search EXCEPT !.result = search.result \o NowFound,
                                    !.pos = search.pos + 1, !.offset = 0, !.at = a]
  BY ReadFinds
<1>3. /\ search # NoSearch /\ search \in SearchRec /\ search.pos >= 1
      /\ Answers(search.req, search.result) /\ search.pos <= Len(search.names)
      /\ Ahead(files, search) /\ Asked(search)
  BY <1>1, SearchIsOn DEF SearchInv, SearchTypeOK, HuntInv
<1>4. search.pos \in Nat /\ Len(search.names) \in Nat /\ search.pos \in 1 .. Len(search.names)
      /\ search.result \in Seq(Line) /\ search.req \in Requests
  BY <1>3, SearchTypes
<1>5. NowFound \in Seq(Line)
  BY <1>3, <1>4, NowAnswers
<1> DEFINE r == search.result \o NowFound
           p == search.pos + 1
<1>6. r \in Seq(Line) /\ p \in Nat
  BY <1>4, <1>5
<1>7. search' = TurnTo(search, r, p, a) /\ (a = "read" \/ a = "done")
  BY <1>2 DEF TurnTo
<1>8. (a = "done" <=> Ends(r)) /\ r = search.result \o NowFound /\ p = search.pos + 1
  BY <1>2
<1> HIDE DEF r, p
<1>9. PICK s : s = search'
  OBVIOUS
<1>10. /\ s.at = a /\ s.req = search.req /\ s.names = search.names /\ s.pos = p
       /\ s.offset = 0 /\ s.result = r /\ s.warm = search.warm
       /\ s.findable = search.findable
  BY <1>3, <1>6, <1>7, <1>9, FileDone
<1>11. ASSUME Hunts(files, search) PROVE Hunts(files, s)
  <2>1. \A l \in search.findable \ ToSet(r) :
          \/ Len(r) >= Limit(search.req) /\ l.second >= Last(r).second
          \/ /\ ~Ends(r)
             /\ \E i \in search.pos + 1 .. Len(search.names) :
                  \E b \in 1 .. Len(files[i].lines) : files[i].lines[b] = l
    BY <1>1, <1>3, <1>4, <1>8, <1>11, ReadLeaves
  <2>2. InPlace(files, s.names)
    BY <1>10, <1>11 DEF Hunts
  <2>3. ASSUME a = "done" PROVE AllFound(s)
    BY <1>8, <1>10, <2>1, <2>3 DEF AllFound
  <2>4. ASSUME a = "read" PROVE ~(Len(s.result) >= Limit(s.req)) /\ Unread(files, s)
    <3>1. ~Ends(r) /\ ~(Len(r) >= Limit(search.req))
      BY <1>8, <2>4 DEF Ends
    <3>2. ASSUME NEW l \in search.findable \ ToSet(r)
          PROVE  \E i \in p .. Len(search.names) : \E b \in 1 .. Len(files[i].lines) :
                   files[i].lines[b] = l /\ (i = p => b > 0)
      <4>1. PICK i \in search.pos + 1 .. Len(search.names) :
              \E b \in 1 .. Len(files[i].lines) : files[i].lines[b] = l
        BY <2>1, <3>1
      <4>2. PICK b \in 1 .. Len(files[i].lines) : files[i].lines[b] = l
        BY <4>1
      <4>3. b > 0
        OBVIOUS
      <4> QED
        BY <1>8, <4>2, <4>3
    <3> QED
      BY <1>10, <3>1, <3>2 DEF Unread
  <2> QED
    BY <1>7, <1>10, <2>2, <2>3, <2>4 DEF Hunts
<1> QED
  BY <1>1, <1>3, <1>9, <1>10, <1>11, HuntStep

\* Without a search there is nothing to miss.
LEMMA NoneHunts ==
  ASSUME Respond \/ Crash
  PROVE  HuntInv'
<1>1. search' = NoSearch
  BY DEF Respond, Crash
<1> QED
  BY <1>1 DEF HuntInv

\* Every step keeps what a search has still to find before it.
LEMMA NextHunt ==
  ASSUME LogSafe, LogSafe', CoverInv, [Next]_vars, SearchTypeOK, SearchInv, HuntInv
  PROVE  HuntInv'
<1>1. CASE UNCHANGED search
  BY <1>1, OthersHunt
<1>2. CASE \E req \in Requests : Find(req) \/ FindByTimeAndResource(req)
  BY <1>2, BeginHunts
<1>3. CASE FindOffset
  BY <1>3, FindOffsetHunts
<1>4. CASE Read
  BY <1>4, ReadHunts
<1>5. CASE NotFound
  BY <1>5, NotFoundHunts
<1>6. CASE Respond \/ Crash
  BY <1>6, NoneHunts
<1>7. CASE \/ UNCHANGED vars \/ Tick \/ Initialize \/ Collect \/ Write \/ WriteLines \/ Wake
           \/ Stop \/ \E r \in Resources : Record(r)
  <2>1. UNCHANGED search
    BY <1>7 DEF vars, finder, Tick, Initialize, Collect, Write, WriteLines, Wake, Stop, Record
  <2> QED
    BY <2>1, OthersHunt
<1> QED
  BY <1>2, <1>3, <1>4, <1>5, <1>6, <1>7 DEF Next, Task

\* At the start there is no search.
LEMMA InitHunt == Init => HuntInv
BY DEF Init, HuntInv

\* A search whose oldest file is still there has found all it could.
LEMMA HuntComplete ==
  ASSUME LogSafe, SearchTypeOK, SearchInv, HuntInv
  PROVE  SearchComplete
<1> SUFFICES ASSUME search.at = "done", ~search.warm,
                    search.names # <<>> => Exists(search.names[1]),
                    NEW l \in search.findable \ ToSet(search.result)
             PROVE  Len(search.result) >= Limit(search.req) /\ l.second >= Last(search.result).second
  BY DEF SearchComplete
<1>1. /\ search # NoSearch /\ search \in SearchRec /\ Asked(search)
      /\ Oldest(files, search.names)
      /\ Intact(files, search.names) => Hunts(files, search)
  BY SearchIsOn DEF HuntInv
<1>2. /\ files \in Seq(FileRec) /\ Len(files) \in Nat /\ Named(files)
      /\ search.names \in Seq(Nat \X Nat)
  BY <1>1, SearchTypes DEF LogSafe, LogInv, Good
<1>3. search.names # <<>>
  BY <1>1 DEF Asked
<1>4. Intact(files, search.names)
  <2>1. files # <<>> /\ (files[1].name = search.names[1] \/ Before(search.names[1], files[1].name))
    BY <1>1, <1>3 DEF Oldest
  <2>2. PICK k \in 1 .. Len(files) : files[k].name = search.names[1]
    BY <1>2, <1>3, FileFound
  <2>3. 1 \in 1 .. Len(files)
    BY <1>2, <2>1
  <2>4. files[1].name \in Nat \X Nat /\ search.names[1] \in Nat \X Nat
    <3>1. files[1] \in FileRec
      BY <1>2, <2>3
    <3> QED
      BY <1>2, <1>3, <3>1, FileTypes
  <2>5. k # 1 => Before(files[1].name, search.names[1])
    BY <1>2, <2>2, <2>3 DEF Named
  <2>6. ~(Before(search.names[1], files[1].name) /\ Before(files[1].name, search.names[1]))
    BY <2>4, BeforeOrder
  <2>7. ~Before(search.names[1], search.names[1])
    BY <2>4, BeforeOrder
  <2> QED
    BY <1>3, <2>1, <2>2, <2>5, <2>6, <2>7 DEF Intact
<1>5. AllFound(search)
  BY <1>1, <1>4 DEF Hunts
<1> QED
  BY <1>5 DEF AllFound

\* Whatever RunLogTask and MetricWriter append and roll over meanwhile, FindOffset
\* and the readers of MetricReader miss no line of the range that the index led
\* to when the search began, as long as the oldest file is there and the limit
\* is not reached.
THEOREM SearchIsComplete == Spec => []SearchComplete
<1>1. Init => SearchTypeOK /\ SearchInv
  BY InitSearch
<1>2. Init => CoverInv /\ HuntInv
  BY InitCover, InitHunt
<1>3. LogSafe => Edge \in Nat
  BY EdgeTypes DEF LogSafe
<1>4. LogSafe /\ LogSafe' /\ (Edge \in Nat)' /\ SearchTypeOK /\ SearchInv /\ [Next]_vars
        => SearchTypeOK' /\ SearchInv'
  BY NextSearch
<1>5. LogSafe /\ CoverInv /\ [Next]_vars => CoverInv'
  BY NextCover
<1>6. LogSafe /\ LogSafe' /\ CoverInv /\ SearchTypeOK /\ SearchInv /\ HuntInv /\ [Next]_vars
        => HuntInv'
  BY NextHunt
<1>7. LogSafe /\ SearchTypeOK /\ SearchInv /\ HuntInv => SearchComplete
  BY HuntComplete
<1> QED
  BY <1>1, <1>2, <1>3, <1>4, <1>5, <1>6, <1>7, LogSafeAlways, PTL DEF Spec
=============================================================================
