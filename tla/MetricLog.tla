----------------------------- MODULE MetricLog -----------------------------
(***************************************************************************)
(* The metric log: once a second MetricLogTask collects from every         *)
(* resource node the complete seconds it has not handed out yet and gives  *)
(* them to MetricWriter, which appends one line per second and resource to *)
(* a metric file, enters the offset of every second in the index file      *)
(* beside it, starts a new file each day and each time a file is full, and *)
(* removes the oldest ones.  The handler of the "metric" command searches  *)
(* these files from another thread, without a lock shared with the writer. *)
(*                                                                         *)
(* Time is counted in seconds, an offset in lines.  What the process holds *)
(* in memory dies with it; the files stay.  The batch of one second is     *)
(* visible at once (it leaves the stream's buffer in one flush).           *)
(***************************************************************************)
EXTENDS Integers, Sequences, FiniteSets, SequencesExt

CONSTANTS
  NodeOrder,        \* the resources, in the iteration order of the node map
  DayLength,        \* seconds in a day
  SingleFileSize,   \* lines at which a file is full
  TotalFileCount,   \* files that survive a removal
  MaxLinesReturn,   \* MetricReader::kMaxLinesReturn
  KMaxLines,        \* kMaxLines of the command handler
  Requests,         \* the searches asked for: [begin, end, identity, maxLines]
  MaxTime, MaxRecords, MaxStarts, MaxSearches,      \* bounds
  None              \* an absent parameter, an absent file name

Resources == Range(NodeOrder)
Seconds == 0 .. MaxTime
Line == [second : Seconds, resource : Resources]

ASSUME MetricLogAssumption ==
  /\ NodeOrder \in Seq(Resources)
  /\ DayLength \in Nat \ {0} /\ SingleFileSize \in Nat \ {0}
  /\ TotalFileCount \in Nat \ {0} /\ MaxLinesReturn \in Nat \ {0}
  /\ KMaxLines \in Nat \ {0} /\ MaxTime \in Nat
  /\ None \notin Resources
  /\ \A r \in Requests :
        /\ r.begin \in Nat /\ r.end \in Nat \cup {None}
        /\ r.identity \in Resources \cup {None}
        /\ r.maxLines \in Nat \cup {None}

VARIABLES
  now,          \* the clock
  buckets,      \* the nodes: seconds of the minute window that are not empty
  lastFetch,    \* the nodes: last_fetch_timestamp_
  task,         \* where RunLogTask is
  visited,      \* nodes visited in this round
  batch,        \* its map: the lines of each second collected, not yet written
  stopped,      \* stopped_
  out,          \* the writer: is metric_out_ open?
  lastSecond,   \* the writer: last_second_
  firstWrite,   \* the writer: first_write_
  files,        \* the metric files with their index files, in name order
  lastPos,      \* the searcher: last_pos_
  search,       \* the search under way, or the answer of the last one
  records, starts, searches,        \* bounded counters
  overran, dropped, written         \* history: has a round of this process
                                    \* run past a second, the lines it has
                                    \* dropped, all lines ever written

disk   == <<files, written>>
nodes  == <<buckets, lastFetch>>
writer == <<out, lastSecond, firstWrite>>
round  == <<task, visited, batch>>
finder == <<lastPos, search, searches>>
past   == <<overran, dropped>>
counts == <<records, starts>>
vars   == <<now, nodes, round, stopped, writer, disk, finder, counts, past>>

-----------------------------------------------------------------------------
NoLines == [s \in Seconds |-> <<>>]
NoSearch == [at |-> "idle", result |-> <<>>]

Init ==
  /\ now = 0
  /\ buckets = [r \in Resources |-> {}]
  /\ lastFetch = [r \in Resources |-> -1]
  /\ task = "off" /\ visited = 0 /\ batch = NoLines
  /\ stopped = FALSE
  /\ out = FALSE /\ lastSecond = -1 /\ firstWrite = TRUE
  /\ files = <<>>
  /\ lastPos = [name |-> None, offset |-> -1]
  /\ search = NoSearch
  /\ records = 0 /\ starts = 0 /\ searches = 0
  /\ overran = FALSE /\ dropped = {} /\ written = {}

\* A second goes by.  A round that is collecting meanwhile has overrun; a
\* task that was asleep has slept long enough.
Tick ==
  /\ now < MaxTime
  /\ now' = now + 1
  /\ overran' = (overran \/ task = "collect")
  /\ task' = IF task = "sleep" THEN "due" ELSE task
  /\ UNCHANGED <<nodes, visited, batch, stopped, writer, disk, finder, counts,
                 dropped>>

\* A call to resource r is counted in the bucket of the present second.
Record(r) ==
  /\ task \notin {"off", "ended"}
  /\ now \notin buckets[r] /\ records < MaxRecords
  /\ records' = records + 1
  /\ buckets' = [buckets EXCEPT ![r] = @ \cup {now}]
  /\ UNCHANGED <<now, lastFetch, round, stopped, writer, disk, finder,
                 starts, past>>

-----------------------------------------------------------------------------
(***************************************************************************)
(* MetricLogTask.                                                          *)
(***************************************************************************)
\* The constructor creates the writer, Initialize the thread.
Initialize ==
  /\ task = "off"
  /\ starts < MaxStarts
  /\ starts' = starts + 1
  /\ task' = "collect"
  /\ lastSecond' = now
  /\ UNCHANGED <<now, nodes, visited, batch, stopped, out, firstWrite, disk,
                 finder, records, past>>

\* The loop goes on to write what its map holds, and sleeps when it is empty.
Pending == {s \in Seconds : batch[s] # <<>>}
WriteOrSleep == task' = IF Pending' = {} THEN "sleep" ELSE "write"

\* Mutant: the last second fetched is fetched again.
IsNodeInTimeAgain(r, s) == s >= lastFetch[r] /\ s < now

IsNodeInTime(r, s) == s > lastFetch[r] /\ s < now

\* Mutant: the time of the fetch instead of the youngest second fetched.
NewLastFetchNow(fresh, last) == now

NewLastFetch(fresh, last) == Max(fresh \cup {last})

\* StatisticNode::Metrics of the next node, and AggregateMetrics.
Collect ==
  LET r == NodeOrder[visited + 1]
      fresh == {s \in buckets[r] : IsNodeInTime(r, s)}
  IN
  /\ task = "collect"
  /\ lastFetch' = [lastFetch EXCEPT ![r] = NewLastFetch(fresh, @)]
  /\ batch' = [s \in Seconds |->
                 IF s \in fresh THEN Append(batch[s], [second |-> s, resource |-> r])
                 ELSE batch[s]]
  /\ \/ /\ visited + 1 < Len(NodeOrder)
        /\ visited' = visited + 1 /\ task' = task
     \/ /\ visited + 1 = Len(NodeOrder)
        /\ visited' = 0 /\ WriteOrSleep
  /\ UNCHANGED <<now, buckets, stopped, writer, disk, finder, counts, past>>

\* A second later stopped_ is checked again.  At the horizon of the instance
\* the clock stands still for the counters, not for the sleeping thread.
Wake ==
  /\ task = "due" \/ (task = "sleep" /\ now = MaxTime)
  /\ task' = IF stopped THEN "ended" ELSE "collect"
  /\ UNCHANGED <<now, nodes, visited, batch, stopped, writer, disk, finder,
                 counts, past>>

\* stopped_ is set; the join waits for the round that is under way.
Stop ==
  /\ task # "off" /\ ~stopped
  /\ stopped' = TRUE
  /\ UNCHANGED <<now, nodes, round, writer, disk, finder, counts, past>>

\* The process dies and is started anew: everything but the files is lost.
Crash ==
  /\ task # "off"
  /\ task' = "off" /\ visited' = 0 /\ batch' = NoLines
  /\ stopped' = FALSE
  /\ buckets' = [r \in Resources |-> {}]
  /\ lastFetch' = [r \in Resources |-> -1]
  /\ out' = FALSE /\ lastSecond' = -1 /\ firstWrite' = TRUE
  /\ lastPos' = [name |-> None, offset |-> -1]
  /\ search' = NoSearch
  /\ overran' = FALSE /\ dropped' = {}
  /\ UNCHANGED <<now, disk, searches, counts>>

-----------------------------------------------------------------------------
(***************************************************************************)
(* MetricWriter::Write(second, nodes), in two steps: the index entry, then *)
(* the lines.                                                              *)
(***************************************************************************)
Day(second) == second \div DayLength

IsNewDay(last, second) == Day(second) > Day(last)

\* base.date, base.date.1, base.date.2, ...
NextFileNameOfDay(fs, second) ==
  LET same == {i \in 1 .. Len(fs) : fs[i].name[1] = Day(second)}
  IN <<Day(second), IF same = {} THEN 0 ELSE fs[Max(same)].name[2] + 1>>

RemoveMoreFiles(fs) ==
  IF Len(fs) <= TotalFileCount THEN fs
  ELSE SubSeq(fs, Len(fs) - TotalFileCount + 1, Len(fs))

CloseAndNewFile(fs, second) ==
  Append(RemoveMoreFiles(fs), [name |-> NextFileNameOfDay(fs, second),
                               lines |-> <<>>, idx |-> <<>>])

\* Mutant: the offset of the beginning of the file.
WriteIndexAtStart(fs, second) ==
  [fs EXCEPT ![Len(fs)].idx = Append(@, <<second, 0>>)]

WriteIndex(fs, second) ==
  LET n == Len(fs)
  IN [fs EXCEPT ![n].idx = Append(@, <<second, Len(fs[n].lines)>>)]

IsExceedMaxSingleFileSize(f) == Len(f.lines) >= SingleFileSize

\* The lines, and a new file when this one is full.
DoWrite(fs, second, lines) ==
  LET n == Len(fs)
      more == [fs EXCEPT ![n].lines = @ \o lines]
  IN IF IsExceedMaxSingleFileSize(more[n])
     THEN CloseAndNewFile(more, second)
     ELSE more

\* Mutant: the seconds come in the wrong order.
LastSecondFirst == Max(Pending)

\* The std::map hands out its seconds in order.
Second == Min(Pending)
Others == [batch EXCEPT ![Second] = <<>>]

Write ==
  LET fs == IF out THEN files ELSE CloseAndNewFile(files, Second)
  IN
  /\ task = "write"
  /\ out' = TRUE
  /\ \/ /\ Second < lastSecond
        /\ files' = fs
        /\ dropped' = dropped \cup ToSet(batch[Second])
        /\ batch' = Others
        /\ WriteOrSleep
        /\ UNCHANGED firstWrite
     \/ /\ Second = lastSecond
        /\ files' = IF firstWrite THEN WriteIndex(fs, Second) ELSE fs
        /\ firstWrite' = FALSE
        /\ task' = "lines"
        /\ UNCHANGED <<batch, dropped>>
     \/ /\ Second > lastSecond
        /\ files' = WriteIndex(fs, Second)
        /\ task' = "lines"
        /\ UNCHANGED <<batch, dropped, firstWrite>>
  /\ UNCHANGED <<now, nodes, visited, stopped, lastSecond, written, finder,
                 counts, overran>>

WriteLines ==
  LET lines == batch[Second]
      fs == IF IsNewDay(lastSecond, Second)
            THEN CloseAndNewFile(files, Second) ELSE files
  IN
  /\ task = "lines"
  /\ files' = DoWrite(fs, Second, lines)
  /\ lastSecond' = Second
  /\ written' = written \cup ToSet(lines)
  /\ batch' = Others
  /\ WriteOrSleep
  /\ UNCHANGED <<now, nodes, visited, stopped, out, firstWrite, finder,
                 counts, past>>

-----------------------------------------------------------------------------
(***************************************************************************)
(* The "metric" command: MetricSearcher lists the files, looks for the     *)
(* first index entry at or after the begin, and MetricReader reads on from *)
(* its offset, file by file.                                               *)
(***************************************************************************)
Names(fs) == [i \in 1 .. Len(fs) |-> fs[i].name]
Exists(name) == name \in ToSet(Names(files))
File(name) == files[CHOOSE i \in 1 .. Len(files) : files[i].name = name]

\* The second at the cached position is read into an uninitialised variable
\* and compared with -1, which only a failed read leaves to chance.
ValidPosition(garbage) ==
  /\ lastPos.name # None /\ Exists(lastPos.name)
  /\ lastPos.offset \notin 0 .. Len(File(lastPos.name).idx) - 1
  /\ garbage

\* No identity asks for all resources; Find does not look at it.
OfResource(req, l) ==
  req.end = None \/ req.identity = None \/ req.identity = l.resource

InTime(req, l) ==
  l.second >= req.begin /\ (req.end = None \/ l.second <= req.end)

\* The handler raises maxLines to kMaxLines.
Limit(req) ==
  IF req.end # None THEN MaxLinesReturn ELSE Max({req.maxLines, KMaxLines})

\* Line a of file i comes after some entry of the index files.
Reached(i, a) ==
  \E j \in 1 .. i : \E m \in 1 .. Len(files[j].idx) : j = i => files[j].idx[m][2] < a

\* History: the lines an unhurried reader of the index can get at.
Findable(req) ==
  {l \in Line :
     /\ InTime(req, l) /\ OfResource(req, l)
     /\ \E i \in 1 .. Len(files) : \E a \in 1 .. Len(files[i].lines) :
          files[i].lines[a] = l /\ Reached(i, a)}

\* A search takes the list of the files, and starts at the cached position
\* when that is valid.
Begin(req) ==
  /\ search.at = "idle" /\ searches < MaxSearches
  /\ task # "off"
  /\ \E garbage \in BOOLEAN :
       LET warm == ValidPosition(garbage)
       IN search' = [at |-> "scan", req |-> req, names |-> Names(files),
                     pos |-> IF warm THEN CHOOSE i \in 1 .. Len(files) :
                                            files[i].name = lastPos.name
                             ELSE 1,
                     from |-> IF warm THEN lastPos.offset ELSE 0,
                     offset |-> 0, result |-> <<>>,
                     warm |-> warm, findable |-> Findable(req)]
  /\ searches' = searches + 1
  /\ UNCHANGED <<now, nodes, round, stopped, writer, disk, lastPos, counts,
                 past>>

\* Without an end time there must be a number of lines.
Find(req) == req.end = None /\ req.maxLines # None /\ Begin(req)

FindByTimeAndResource(req) == req.end # None /\ Begin(req)

\* Mutant: the entry of the begin itself is passed over.
IsAfter(entry) == entry[1] > search.req.begin

IsAtOrAfter(entry) == entry[1] >= search.req.begin

\* FindOffset in the next file.
FindOffset ==
  LET name  == search.names[search.pos]
      idx   == File(name).idx
      rest  == IF Exists(name) /\ search.from >= 0
               THEN search.from + 1 .. Len(idx) ELSE {}
      later == {j \in rest : IsAtOrAfter(idx[j])}
      next  == [search EXCEPT !.pos = @ + 1, !.from = 0]
  IN
  /\ search.at = "scan" /\ search.pos <= Len(search.names)
  /\ \/ /\ later # {}
        /\ search' = [search EXCEPT !.at = "read",
                                    !.offset = idx[Min(later)][2]]
        /\ lastPos' = [name |-> name,
                       offset |-> IF Min(later) = search.from + 1
                                  THEN lastPos.offset ELSE Min(later) - 1]
     \/ /\ later = {}
        /\ search' = next
        /\ \E o \in {lastPos.offset} \cup
                    (IF Exists(name) /\ search.from >= 0 THEN {-1} ELSE {}) :
             /\ rest # {} => o = -1
             /\ lastPos' = [name |-> None, offset |-> o]
  /\ UNCHANGED <<now, nodes, round, stopped, writer, disk, searches, counts,
                 past>>

\* The longest prefix of lines whose positions are all good.
PrefixOf(lines, good) ==
  SubSeq(lines, 1, Max({i \in 0 .. Len(lines) : 1 .. i \subseteq good}))

\* ReadMetricsInOneFile: up to the limit, and on to the end of its second.
ReadLines(lines) ==
  LET n == Len(search.result)
  IN PrefixOf(lines, {j \in 1 .. Len(lines) :
                        \/ n + j <= Limit(search.req)
                        \/ j > 1 /\ lines[j].second = lines[j - 1].second})

\* Mutant: the end time is not looked at.
FromBegin(lines) ==
  PrefixOf(lines, {j \in 1 .. Len(lines) : lines[j].second >= search.req.begin})

\* ReadMetricsInOneFileByEndTime: up to the first line out of the range.
InRange(lines) ==
  PrefixOf(lines, {j \in 1 .. Len(lines) :
                     lines[j].second \in search.req.begin .. search.req.end})

\* Those of the resource asked for, one line at a time.
Selected(lines) ==
  LET upTo[n \in 0 .. Len(lines)] ==
        IF n = 0 THEN <<>>
        ELSE IF OfResource(search.req, lines[n]) THEN Append(upTo[n - 1], lines[n])
        ELSE upTo[n - 1]
  IN upTo[Len(lines)]

ReadByEndTime(lines) ==
  LET found == Selected(InRange(lines))
  IN SubSeq(found, 1, Min({Len(found), MaxLinesReturn - Len(search.result)}))

\* One file is read; search.offset holds for the first one only.  A file that
\* is gone is passed over without an end time, and ends the search with one.
Read ==
  LET name   == search.names[search.pos]
      all    == File(name).lines
      lines  == SubSeq(all, search.offset + 1, Len(all))
      byEnd  == search.req.end # None
      result == search.result \o
                (IF ~Exists(name) THEN <<>>
                 ELSE IF byEnd THEN ReadByEndTime(lines) ELSE ReadLines(lines))
      ends   == \/ search.pos = Len(search.names)
                \/ Len(result) >= Limit(search.req)
                \/ byEnd /\ ~Exists(name)
                \/ byEnd /\ Exists(name) /\ InRange(lines) # lines
  IN
  /\ search.at = "read"
  /\ search' = [search EXCEPT !.result = result, !.pos = @ + 1, !.offset = 0,
                              !.at = IF ends THEN "done" ELSE "read"]
  /\ UNCHANGED <<now, nodes, round, stopped, writer, disk, lastPos, searches,
                 counts, past>>

\* No index has an entry at or after the begin: the answer is empty.
NotFound ==
  /\ search.at = "scan" /\ search.pos > Len(search.names)
  /\ search' = [search EXCEPT !.at = "done"]
  /\ UNCHANGED <<now, nodes, round, stopped, writer, disk, lastPos, searches,
                 counts, past>>

Respond ==
  /\ search.at = "done"
  /\ search' = NoSearch
  /\ UNCHANGED <<now, nodes, round, stopped, writer, disk, lastPos, searches,
                 counts, past>>

-----------------------------------------------------------------------------
Task == Collect \/ Write \/ WriteLines \/ Wake

Next ==
  \/ Tick \/ \E r \in Resources : Record(r)
  \/ Initialize \/ Task \/ Stop \/ Crash
  \/ \E req \in Requests : Find(req) \/ FindByTimeAndResource(req)
  \/ FindOffset \/ Read \/ NotFound \/ Respond

Spec == Init /\ [][Next]_vars

\* Time passes and the thread of the task is scheduled.
FairSpec == Spec /\ WF_vars(Tick) /\ WF_vars(Task)

-----------------------------------------------------------------------------
(***************************************************************************)
(* Properties.                                                             *)
(***************************************************************************)
\* The index of a file leads where the search expects: entries in order of
\* second and offset, no line at or after an entry's offset older than the
\* entry's second, no line before it younger.
IndexSound ==
  \A f \in ToSet(files) : \A i \in 1 .. Len(f.idx) :
     LET second == f.idx[i][1]
         offset == f.idx[i][2]
     IN /\ offset <= Len(f.lines)
        /\ i > 1 => f.idx[i - 1][1] <= second /\ f.idx[i - 1][2] <= offset
        /\ \A j \in 1 .. Len(f.lines) :
             IF j > offset THEN f.lines[j].second >= second
                           ELSE f.lines[j].second <= second

\* Whatever is written, rolled and removed while it runs, a search answers
\* with lines of its range and resource only, in the order of their seconds
\* and each once.
SearchSound ==
  search.at = "done" =>
     /\ \A l \in ToSet(search.result) :
          InTime(search.req, l) /\ OfResource(search.req, l)
     /\ \A i, j \in 1 .. Len(search.result) : i < j =>
          /\ search.result[i] # search.result[j]
          /\ search.result[i].second <= search.result[j].second

\* A search that started at the oldest file and none of whose files was
\* removed under it finds every line of its range that was in the files when
\* it began and came after an entry of the index files, unless it stopped at
\* its limit.
SearchComplete ==
  search.at = "done" /\ ~search.warm
  /\ (search.names # <<>> => Exists(search.names[1])) =>
     \A l \in search.findable \ ToSet(search.result) :
        /\ Len(search.result) >= Limit(search.req)
        /\ l.second >= Last(search.result).second

\* A line handed to the writer is only thrown away when some round of the
\* process has run past the end of a second while it was collecting.
DropsExplained == dropped # {} => overran

\* The files together are a log that grows by whole seconds and forgets from
\* its old end only.
LinesOf(fs) ==
  LET upTo[n \in 0 .. Len(fs)] ==
        IF n = 0 THEN <<>> ELSE upTo[n - 1] \o fs[n].lines
  IN upTo[Len(fs)]

Lines == LinesOf(files)

Abstract == INSTANCE SecondLog WITH log <- Lines
ImplementsSecondLog == Abstract!Spec

\* What a node has counted in a second that is over gets to the writer as long
\* as the task is neither stopped nor killed.
EventuallyLogged ==
  \A r \in Resources, s \in 0 .. MaxTime - 1 :
     (task # "off" /\ s \in buckets[r]) ~>
        (\/ [second |-> s, resource |-> r] \in written \cup dropped
         \/ task = "off" \/ stopped)
=============================================================================
