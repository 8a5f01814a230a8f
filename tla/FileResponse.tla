---------------------------- MODULE FileResponse ---------------------------
(***************************************************************************)
(* Files and byte ranges: the range header of lilya.ranges and the         *)
(* FileResponse of lilya.responses, with its threads (stat, open, read)    *)
(* and a file that may change between them.                                *)
(*                                                                         *)
(* A file's bytes are their positions.  One response object may answer     *)
(* several requests: it is an ASGI application, and it keeps the headers   *)
(* of the answers it gave.  A range header of another unit, one whose      *)
(* if-range does not match, and one a response is not to regard, count as  *)
(* none.                                                                   *)
(***************************************************************************)
EXTENDS Integers, FiniteSets, SequencesExt

CONSTANTS
  MaxSize,    \* bound: the length of the file
  ChunkSize,  \* chunk_size
  MaxRanges,  \* the ranges an answer may have
  Scenarios   \* the responses, requests and number of changes of the file

Blank == -1
Definitions == [first : Nat \cup {Blank}, last : Nat \cup {Blank}]

ASSUME FileAssumption ==
  /\ MaxSize \in Nat \ {0} /\ ChunkSize \in Nat \ {0} /\ MaxRanges \in Nat \ {0}
  /\ \A s \in Scenarios :
       /\ s.mode \in {"strict", "lenient", "single"}
       /\ {s.multipart, s.pathsend, s.made} \subseteq BOOLEAN
       /\ s.changes \in Nat
       /\ \A r \in DOMAIN s.asks : /\ s.asks[r].range \in Seq(Definitions)
                                  /\ s.asks[r].head \in BOOLEAN

VARIABLES
  scenario,   \* [mode, multipart, pathsend, made with a stat, asks, changes]
  size,       \* of the file, now
  present,    \* the path leads to the file
  changes,    \* the changes of the file
  headers,    \* of the response object: status, content-length, content-range
  phase,      \* of each request; it fails before it began to send, or breaks
  seen,       \* the size it takes the file to have
  announced,  \* the headers it was answered with
  partial,    \* content_ranges is not None
  left,       \* the ranges it has yet to send
  divided,    \* subheader: each range has a header in front
  at,         \* the position in the file, while a range is read
  behind,     \* last_stop, the end of the last range, and the position there
  sent,       \* the bytes and part headers it sent
  finals,     \* messages without more_body
  cleaned     \* runs of the cleanup handler

file == <<size, present, changes>>
plan == <<left, divided, at, behind>>
fileVars == <<scenario, file, headers, phase, seen, announced, partial, plan, sent, finals,
              cleaned>>

PartHeader == -1
NoRange == [start |-> Blank, stop |-> Blank]
Requests == DOMAIN scenario.asks
Extent(r) == r.stop - r.start + 1

-----------------------------------------------------------------------------
(* The range header: a sequence of definitions, each with a first and a     *)
(* last byte of which one or both may be missing.                           *)

Denoted(d, max) ==
  [start |-> IF d.first = Blank THEN max - d.last ELSE d.first,
   stop |-> IF Blank \in {d.first, d.last} THEN max ELSE d.last]

Malformed(d, max) ==
  \/ d.first = Blank /\ d.last = Blank
  \/ Denoted(d, max).start > Denoted(d, max).stop
  \/ Denoted(d, max).start < 0

Joins(ranges, r) == ranges # <<>> /\ Last(ranges).stop = r.start - 1

\* Mutant: the ranges in between are forgotten.
AddedOver(ranges, r) ==
  IF Joins(ranges, r) THEN Append(Front(ranges), r) ELSE Append(ranges, r)

\* A range that follows the last one at once is merged with it.
Added(ranges, r) ==
  IF Joins(ranges, r)
  THEN Append(Front(ranges), [start |-> Last(ranges).start, stop |-> r.stop])
  ELSE Append(ranges, r)

Result(verdict, extent, ranges) == [verdict |-> verdict, size |-> extent, ranges |-> ranges]
NoResult == Result("none", 0, <<>>)
NoneYet == Result("ok", 0, <<>>)

\* What a definition does to the result: the first one that is wrong decides.
Checked(acc, d, max, strict) ==
  LET r == Denoted(d, max) IN
  IF acc.verdict # "ok" THEN acc
  ELSE IF Malformed(d, max) THEN NoResult
  ELSE IF r.start > max \/ r.stop > max THEN Result("over", 0, <<>>)
  ELSE IF strict /\ acc.ranges # <<>> /\ r.start <= Last(acc.ranges).stop THEN NoResult
  ELSE Result("ok", acc.size + Extent(r), Added(acc.ranges, r))

\* The first loop.
InOrder(defs, max, strict) ==
  LET after[n \in 0..Len(defs)] ==
        IF n = 0 THEN NoneYet ELSE Checked(after[n - 1], defs[n], max, strict)
  IN  after[Len(defs)]

\* list.sort(), which keeps the order of equals.
Before(a, b) == a.start < b.start \/ (a.start = b.start /\ a.stop < b.stop)
Place(ranges, i) ==
  Cardinality({j \in DOMAIN ranges :
    Before(ranges[j], ranges[i]) \/ (ranges[j] = ranges[i] /\ j <= i)})
Sorted(ranges) ==
  [k \in DOMAIN ranges |-> ranges[CHOOSE i \in DOMAIN ranges : Place(ranges, i) = k]]

\* A range is cut where it overlaps the last one; the size leaves out what is
\* merged.
Cut(acc, range, max) ==
  LET r == IF acc.ranges # <<>> /\ range.start <= Last(acc.ranges).stop
           THEN [start |-> Min({Last(acc.ranges).stop + 1, max}), stop |-> range.stop]
           ELSE range
  IN
  IF r.stop < r.start THEN acc
  ELSE Result("ok", IF Joins(acc.ranges, r) THEN acc.size ELSE acc.size + Extent(r),
              Added(acc.ranges, r))

\* The second loop, when the order is not enforced.
Ascending(ranges, max) ==
  LET sorted == Sorted(ranges)
      after[n \in 0..Len(ranges)] ==
        IF n = 0 THEN NoneYet ELSE Cut(after[n - 1], sorted[n], max)
  IN  after[Len(ranges)]

\* parse_range_value, with the number of ranges the response allows.
TooMany(defs) ==
  \/ ~scenario.multipart /\ Len(defs) > 1
  \/ scenario.mode = "strict" /\ Len(defs) > MaxRanges
Allowed(defs) ==
  IF TooMany(defs) THEN SubSeq(defs, 1, IF scenario.multipart THEN MaxRanges ELSE 1) ELSE defs
Parsed(defs, max) ==
  LET first == InOrder(Allowed(defs), max, scenario.mode = "strict") IN
  IF defs = <<>> \/ (first.verdict = "ok" /\ TooMany(defs)) THEN NoResult
  ELSE IF first.verdict = "ok" /\ scenario.mode # "strict" THEN Ascending(first.ranges, max)
  ELSE first

-----------------------------------------------------------------------------
(* The file and the response.                                               *)

FirstByte == [stop |-> 0, at |-> 0]

FileInit ==
  /\ scenario \in Scenarios
  /\ size \in 0..MaxSize
  /\ present = TRUE /\ changes = 0
  /\ headers = [status |-> 200, length |-> IF scenario.made THEN size ELSE Blank,
                range |-> NoRange]
  /\ phase = [r \in Requests |-> "idle"]
  /\ seen = [r \in Requests |-> size]
  /\ announced = [r \in Requests |-> headers]
  /\ partial = [r \in Requests |-> FALSE]
  /\ left = [r \in Requests |-> <<>>]
  /\ divided = [r \in Requests |-> FALSE]
  /\ at = [r \in Requests |-> Blank]
  /\ behind = [r \in Requests |-> FirstByte]
  /\ sent = [r \in Requests |-> <<>>]
  /\ finals = [r \in Requests |-> 0]
  /\ cleaned = [r \in Requests |-> 0]

\* Somebody writes the file anew, or removes it; an open file stays.
Change ==
  /\ changes < scenario.changes
  /\ changes' = changes + 1
  /\ \/ size' \in 0..MaxSize /\ UNCHANGED present
     \/ present' = FALSE /\ UNCHANGED size
  /\ UNCHANGED <<scenario, headers, phase, seen, announced, partial, plan, sent, finals,
                 cleaned>>

Asked(r) == scenario.asks[r]

\* A request begins: the file is looked at, unless the response was made with a
\* stat; without a file the response raises.
Begin(r) ==
  /\ phase[r] = "idle"
  /\ phase' = [phase EXCEPT ![r] = IF scenario.made \/ present THEN "ready" ELSE "failed"]
  /\ seen' = [seen EXCEPT ![r] = IF scenario.made THEN @ ELSE size]
  /\ UNCHANGED <<scenario, file, headers, announced, partial, plan, sent, finals, cleaned>>

\* set_stat_headers: what the headers hold stays.
WithLength(r) ==
  [headers EXCEPT !.length = IF @ = Blank THEN seen[r] ELSE @]

\* A response is split into parts when several ranges are asked for; an override
\* may count the ranges that are left instead, or send one that holds them all.
InParts(r, ranges) ==
  CASE scenario.mode = "strict"  -> Len(Asked(r).range) > 1
    [] scenario.mode = "lenient" -> Len(ranges) > 1
    [] scenario.mode = "single"  -> FALSE

Hull(ranges) == [start |-> ranges[1].start, stop |-> Last(ranges).stop]

\* Nobody asked for a part, or it is not to be had: the whole file, or what the
\* headers take for it.
AnswerWhole(r) ==
  /\ headers' = WithLength(r)
  /\ announced' = [announced EXCEPT ![r] = headers']
  /\ phase' = [phase EXCEPT ![r] = "announcing"]
  /\ UNCHANGED <<partial, left>>

AnswerPart(r, result) ==
  /\ headers' = IF InParts(r, result.ranges)
                THEN [headers EXCEPT !.status = 206, !.length = result.size]
                ELSE [status |-> 206, range |-> Hull(result.ranges),
                      length |-> IF Len(result.ranges) > 1 THEN Extent(Hull(result.ranges))
                                 ELSE result.size]
  /\ left' = [left EXCEPT ![r] = IF InParts(r, result.ranges) THEN result.ranges
                                 ELSE <<Hull(result.ranges)>>]
  /\ partial' = [partial EXCEPT ![r] = TRUE]
  /\ announced' = [announced EXCEPT ![r] = headers']
  /\ phase' = [phase EXCEPT ![r] = "announcing"]

\* A range after the end of the file raises, which makes a 416.
Refuse(r) ==
  /\ headers' = WithLength(r)
  /\ phase' = [phase EXCEPT ![r] = "failed"]
  /\ UNCHANGED <<announced, partial, left>>

\* The headers are set and the start of the response is being sent.
Answer(r) ==
  /\ phase[r] = "ready"
  /\ \E result \in {IF Asked(r).head THEN NoResult
                      ELSE Parsed(Asked(r).range, WithLength(r).length - 1)} :
        \/ result.verdict = "none" /\ AnswerWhole(r)
        \/ result.verdict = "over" /\ Refuse(r)
        \/ result.verdict = "ok" /\ AnswerPart(r, result)
  /\ seen' = [seen EXCEPT ![r] = WithLength(r).length]
  /\ UNCHANGED <<scenario, file, divided, at, behind, sent, finals, cleaned>>

\* The end of the try statement: the cleanup handler is run.
End(r, how) ==
  /\ phase' = [phase EXCEPT ![r] = how]
  /\ cleaned' = [cleaned EXCEPT ![r] = @ + 1]

\* Only the headers were asked for.
EndHeaders(r) ==
  /\ phase[r] = "announcing" /\ Asked(r).head
  /\ End(r, "done")
  /\ UNCHANGED <<scenario, file, headers, seen, announced, partial, plan, sent, finals>>

\* The server sends the file itself.
SendPath(r) ==
  /\ phase[r] = "announcing" /\ ~Asked(r).head
  /\ ~partial[r] /\ scenario.pathsend
  /\ sent' = [sent EXCEPT ![r] = [i \in 1..size |-> i - 1]]
  /\ finals' = [finals EXCEPT ![r] = 1]
  /\ End(r, "done")
  /\ UNCHANGED <<scenario, file, headers, seen, announced, partial, plan>>

\* Mutant: a file that cannot be opened is not cleaned up.
OpenUnguarded(r) ==
  /\ phase[r] = "announcing" /\ ~Asked(r).head
  /\ partial[r] \/ ~scenario.pathsend
  /\ left' = [left EXCEPT ![r] = IF partial[r] THEN @
                                 ELSE <<[start |-> 0, stop |-> headers.length - 1]>>]
  /\ divided' = [divided EXCEPT ![r] = partial[r] /\ headers.range = NoRange]
  /\ phase' = [phase EXCEPT ![r] = IF present THEN "sending" ELSE "broken"]
  /\ UNCHANGED <<scenario, file, headers, seen, announced, partial, at, behind, sent, finals,
                 cleaned>>

\* The start is sent: the ranges are settled, by the headers as they are now, and
\* the file is opened, if it is there.
Open(r) ==
  /\ phase[r] = "announcing" /\ ~Asked(r).head
  /\ partial[r] \/ ~scenario.pathsend
  /\ left' = [left EXCEPT ![r] = IF partial[r] THEN @
                                 ELSE <<[start |-> 0, stop |-> headers.length - 1]>>]
  /\ divided' = [divided EXCEPT ![r] = partial[r] /\ headers.range = NoRange]
  /\ IF present THEN phase' = [phase EXCEPT ![r] = "sending"] /\ UNCHANGED cleaned
     ELSE End(r, "broken")
  /\ UNCHANGED <<scenario, file, headers, seen, announced, partial, at, behind, sent, finals>>

\* Where a range is read from: the file is not positioned anew when the range
\* begins with the last byte of the one before.
Position(last, range) == IF last.stop = range.start THEN last.at ELSE range.start

\* A range begins, with its header when there are parts.
BeginRange(r) ==
  /\ phase[r] = "sending" /\ left[r] # <<>> /\ at[r] = Blank
  /\ at' = [at EXCEPT ![r] = Position(behind[r], left[r][1])]
  /\ sent' = [sent EXCEPT ![r] = IF divided[r] THEN Append(@, PartHeader) ELSE @]
  /\ UNCHANGED <<scenario, file, headers, phase, seen, announced, partial, left, divided,
                 behind, finals, cleaned>>

\* Mutant: the last chunk is as long as the others.
CountChunk(range) == ChunkSize

Count(range) == Min({ChunkSize, Extent(range)})

\* A chunk is read, as far as the file goes, and sent.
SendChunk(r) ==
  /\ phase[r] = "sending" /\ left[r] # <<>> /\ at[r] # Blank
  /\ LET range == left[r][1]
         more == Extent(range) > ChunkSize
         count == Min({Count(range), IF at[r] < size THEN size - at[r] ELSE 0})
     IN
     /\ sent' = [sent EXCEPT ![r] = @ \o [i \in 1..count |-> at[r] + i - 1]]
     /\ left' = [left EXCEPT ![r] =
          IF more THEN <<[range EXCEPT !.start = @ + ChunkSize]>> \o Tail(@) ELSE Tail(@)]
     /\ at' = [at EXCEPT ![r] = IF more THEN @ + count ELSE Blank]
     /\ behind' = [behind EXCEPT ![r] =
          IF more THEN @ ELSE [stop |-> range.stop, at |-> at[r] + count]]
     /\ finals' = [finals EXCEPT ![r] = IF more \/ divided[r] THEN @ ELSE @ + 1]
  /\ UNCHANGED <<scenario, file, headers, phase, seen, announced, partial, divided, cleaned>>

\* After the last range: the end of the parts, the cleanup, the background task.
Finish(r) ==
  /\ phase[r] = "sending" /\ left[r] = <<>>
  /\ finals' = [finals EXCEPT ![r] = IF divided[r] THEN @ + 1 ELSE @]
  /\ End(r, "done")
  /\ UNCHANGED <<scenario, file, headers, seen, announced, partial, plan, sent>>

\* The server cannot send: the start, which is sent before the try statement, or
\* what comes after it, if only the path.
Break(r) ==
  /\ phase[r] \in {"announcing", "sending"}
  /\ \/ phase[r] = "announcing" /\ phase' = [phase EXCEPT ![r] = "failed"] /\ UNCHANGED cleaned
     \/ phase[r] = "sending" /\ End(r, "broken")
     \/ ~Asked(r).head /\ ~partial[r] /\ scenario.pathsend /\ End(r, "broken")
  /\ UNCHANGED <<scenario, file, headers, seen, announced, partial, plan, sent, finals>>

Step(r) == Begin(r) \/ Answer(r) \/ EndHeaders(r) \/ SendPath(r) \/ Open(r)
           \/ BeginRange(r) \/ SendChunk(r) \/ Finish(r)

FileNext == Change \/ \E r \in Requests : Step(r) \/ Break(r)

FileSpec == FileInit /\ [][FileNext]_fileVars

-----------------------------------------------------------------------------
(* Properties.                                                              *)

\* No other request of the response object was answered with a part, which would
\* have left its length, range and status in the headers.
Alone(r) == \A q \in Requests \ {r} : ~partial[q]

\* Where the bytes of the file are in what was sent.
BytesAt(r) == {i \in DOMAIN sent[r] : sent[r][i] # PartHeader}
BytesOf(r) == {sent[r][i] : i \in BytesAt(r)}
InAscendingOrder(r) == \A i, j \in BytesAt(r) : i < j => sent[r][i] < sent[r][j]

\* The bytes that a definition means, of a file of n bytes; as the tests have it,
\* the last k bytes are k + 1.
MeantBy(d, n) ==
  {b \in 0..n - 1 :
     \/ d.first # Blank /\ d.first <= b /\ (d.last = Blank \/ b <= d.last)
     \/ d.first = Blank /\ d.last # Blank /\ n - b <= d.last + 1}
Meant(r) ==
  LET all == UNION {MeantBy(d, seen[r]) : d \in ToSet(Asked(r).range)} IN
  IF ~partial[r] THEN 0..seen[r] - 1
  ELSE IF scenario.mode = "single" THEN Min(all)..Max(all)
  ELSE all

\* Where a part begins: the bytes that do not follow the one before.
PartsOf(bytes) == {b \in bytes : b - 1 \notin bytes}

\* A file that does not change is answered with the bytes that were asked for, as
\* many as announced, in ascending order and none of them twice, each part behind
\* a header; a request for one range that the file has is answered with it
\* (responses.py:1057, 1104, 1202).  An override that does not enforce the order
\* may announce fewer, or more: when it asks for the last byte once again nothing
\* is read any more (ranges.py:125, responses.py:1201).
AsRequested ==
  changes = 0 => \A r \in Requests : Alone(r) =>
    /\ (phase[r] = "done" /\ ~Asked(r).head) =>
         /\ BytesOf(r) = Meant(r)
         /\ InAscendingOrder(r)
         /\ scenario.mode = "strict" => announced[r].length = Cardinality(Meant(r))
         /\ (scenario.mode = "strict" /\ divided[r]) =>
              \A i \in DOMAIN sent[r] :
                sent[r][i] \in PartsOf(Meant(r)) <=> (i > 1 /\ sent[r][i - 1] = PartHeader)
    /\ (announced[r].range # NoRange /\ partial[r]) =>
         Meant(r) = announced[r].range.start..announced[r].range.stop
    /\ (phase[r] \notin {"idle", "ready"} /\ ~Asked(r).head) =>
         \A first, last \in 0..seen[r] - 1 :
           (first <= last /\ Asked(r).range = <<[first |-> first, last |-> last]>>) =>
             partial[r]

\* Whatever happens to the file, nothing else is sent, nothing twice and never more
\* than announced, but by a server that sends the file itself (responses.py:1218,
\* what is left of a range is counted down by what was asked for, not by what was
\* read).
NothingElse ==
  scenario.mode # "lenient" =>
  \A r \in Requests : Alone(r) /\ sent[r] # <<>> /\ (partial[r] \/ ~scenario.pathsend) =>
    /\ scenario.mode = "strict" => Cardinality(BytesAt(r)) <= announced[r].length
    /\ InAscendingOrder(r)
    /\ partial[r] => BytesOf(r) \subseteq Meant(r)

\* A response whose start was sent is cleaned up once, whether it ends or breaks
\* and whether it sends a part or the whole (responses.py:1240); one that raises
\* before, for want of the file or with the start, never is.  The client is told
\* the end once, if it ends.
EndsOnce ==
  \A r \in Requests :
    /\ cleaned[r] = IF phase[r] \in {"broken", "done"} THEN 1 ELSE 0
    /\ (Alone(r) /\ phase[r] = "done") => finals[r] = IF Asked(r).head THEN 0 ELSE 1
    /\ finals[r] <= 1 \/ ~Alone(r)

=============================================================================
