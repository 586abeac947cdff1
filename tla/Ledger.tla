------------------------------- MODULE Ledger -------------------------------
(***************************************************************************)
(* TraceWriter and EvidenceWriter (report/): one append-only file of JSON  *)
(* lines, the buffer of the file object in front of it, and the reader.    *)
(* Writes, flushes and fsyncs may raise, and the caller may go on or try   *)
(* again; the process may be killed, power may fail.                       *)
(*                                                                         *)
(* A line is two units, the second with its newline, so that a write can   *)
(* stop in the middle of it.  What is in the file is a sequence of units,  *)
(* of which a power loss leaves a prefix; or it takes the whole file, as    *)
(* long as nobody has fsynced the directory the file was created in.       *)
(***************************************************************************)
EXTENDS Naturals, Sequences

CONSTANTS
    Item,          \* evidence ids, or what trace events are about
    Large,         \* those whose line is longer than the buffer
    None,
    MaxUnits,      \* bound: units in file and buffer
    IOMayFail,     \* write and fsync may raise OSError
    MayLosePower

ASSUME LedgerAssumption ==
    /\ Large \subseteq Item
    /\ MaxUnits \in Nat
    /\ {IOMayFail, MayLosePower} \subseteq BOOLEAN

VARIABLES
    kind,       \* "trace" or "evidence": which of the two it is
    writer,     \* "open", "closed" or "dead"
    entry,      \* the file's name in its directory: "new" until an fsync of the
                \* directory or a reboot makes it "durable"; "lost"
    file,
    buffer,     \* accepted and not yet written to the file
    disk,       \* units that an fsync has made durable
    nextSeq,    \* _next_seq
    ids,        \* _evidence_ids
    log,        \* history: the lines accepted, in order
    promised,   \* history: lines accepted when append or close last said so
    health      \* history: "cut" once an append has left half a line,
                \* "spoilt" once a line has been accepted after that

fileVars == <<entry, file, buffer, disk>>
indexVars == <<nextSeq, ids>>
historyVars == <<log, promised, health>>
vars == <<kind, writer, fileVars, indexVars, historyVars>>

Line == [seq : 0..MaxUnits, item : Item]
Unit == [line : Line, part : {"head", "tail"}]

\* A reader that raises returns no list of lines.
ASSUME NoneAssumption == None \notin Seq(Line)

TypeOK ==
    /\ kind \in {"trace", "evidence"}
    /\ writer \in {"open", "closed", "dead"}
    /\ entry \in {"new", "durable", "lost"}
    /\ writer = "open" => entry # "lost"
    /\ {file, buffer} \subseteq Seq(Unit)
    /\ Len(file) + Len(buffer) <= MaxUnits
    /\ writer # "open" => buffer = <<>>
    /\ disk \in 0..Len(file)
    /\ nextSeq = Len(log) + 1
    /\ ids \subseteq Item
    /\ log \in Seq(Line)
    /\ promised \in [{"flush", "fsync"} -> 0..Len(log)]
    /\ health \in {"sound", "cut", "spoilt"}

Init ==
    /\ kind \in {"trace", "evidence"}
    /\ writer = "open"
    /\ entry = "new" /\ file = <<>> /\ buffer = <<>> /\ disk = 0
    /\ nextSeq = 1 /\ ids = {}
    /\ log = <<>>
    /\ promised = [d \in {"flush", "fsync"} |-> 0]
    /\ health = "sound"

-----------------------------------------------------------------------------
(* The file object.  Each operator returns the ways a call may end: what is *)
(* then in the file and in the buffer, and how far a line has reached.      *)

Ends(f, b, reached) == [file |-> f, buffer |-> b, reached |-> reached]

\* MUTANT: what was written stays in the buffer.
KeepBuffer(f, b) == {Ends(f \o b, b, "flush")}

\* flush: what a raising write did not take stays in the buffer.
Drain(f, b) ==
    {Ends(f \o b, <<>>, "flush")} \cup
    {Ends(f \o SubSeq(b, 1, n), SubSeq(b, n + 1, Len(b)), "raised") :
        n \in IF IOMayFail THEN 0..(Len(b) - 1) ELSE {}}

\* A large line bypasses the buffer, except for a remainder that fits.
WriteLarge(f, line) ==
    {Ends(f \o line, <<>>, "buffered")} \cup
    (IF IOMayFail
     THEN {Ends(f \o <<line[1]>>, <<line[2]>>, "buffered"),
           Ends(f \o <<line[1]>>, <<>>, "raised"), Ends(f, <<>>, "raised")}
     ELSE {})

IsLarge(line) == line[1].line.item \in Large

\* A line that does not fit makes the buffer be flushed first, and nothing of
\* it is taken if that raises.
Overflow(line) ==
    UNION {IF w.reached = "raised" THEN {w}
           ELSE IF IsLarge(line) THEN WriteLarge(w.file, line)
           ELSE {Ends(w.file, line, "buffered")} : w \in Drain(file, buffer)}

\* write: whether a line that is not large fits depends on its length.
Write(line) ==
    IF IsLarge(line) THEN Overflow(line)
    ELSE {Ends(file, buffer \o line, "buffered")} \cup
         (IF buffer = <<>> THEN {} ELSE Overflow(line))

\* MUTANT: fsync without a flush before it.
SyncUnflushed(w, durability) ==
    CASE durability = "buffered" -> {w}
      [] durability = "flush" -> Drain(w.file, w.buffer)
      [] durability = "fsync" -> {[w EXCEPT !.reached = "fsync"]}

\* flush and os.fsync, each of which may raise
Persist(w, durability) ==
    LET drained == Drain(w.file, w.buffer)
    IN  CASE durability = "buffered" -> {w}
          [] durability = "flush" -> drained
          [] durability = "fsync" ->
                {[v EXCEPT !.reached = IF @ = "flush" THEN "fsync" ELSE @] : v \in drained}
                \cup {v \in {[u EXCEPT !.reached = "raised"] : u \in drained} : IOMayFail}

-----------------------------------------------------------------------------
(* The writer *)

LineOf(item) == [seq |-> IF kind = "trace" THEN nextSeq ELSE 0, item |-> item]

Units(line) == <<[line |-> line, part |-> "head"], [line |-> line, part |-> "tail"]>>

\* MUTANT: a seq that was given out is not given out again.
RejectedWithSeq(w) ==
    /\ file' = w.file
    /\ buffer' = w.buffer
    /\ nextSeq' = nextSeq + 1
    /\ UNCHANGED <<disk, ids, historyVars>>

\* The write raised: nothing is accepted, and half a line may be in the file.
Rejected(w) ==
    /\ file' = w.file
    /\ buffer' = w.buffer
    /\ health' = IF health = "sound" /\ Len(file \o buffer) < Len(w.file \o w.buffer)
                 THEN "cut" ELSE health
    /\ UNCHANGED <<disk, indexVars, log, promised>>

\* The line is in the file or in the buffer and stays there, even if flush or
\* fsync raises: then append raises too, and has accepted the line.
Accepted(line, w, durability) ==
    /\ log' = Append(log, line)
    /\ health' = IF health = "sound" THEN "sound" ELSE "spoilt"
    /\ nextSeq' = nextSeq + 1
    /\ ids' = IF kind = "evidence" THEN ids \cup {line.item} ELSE ids
    /\ \E v \in Persist(w, durability) :
          /\ file' = v.file
          /\ buffer' = v.buffer
          /\ disk' = IF v.reached = "fsync" THEN Len(v.file) ELSE disk
          /\ promised' = [d \in {"flush", "fsync"} |->
                             IF v.reached \in {d, "fsync"} THEN Len(log') ELSE promised[d]]

\* MUTANT: evidence ids are not looked up.
AppendAnything(item) ==
    /\ writer = "open"
    /\ Len(file \o buffer) + 2 <= MaxUnits

\* An evidence id that is already there is refused.
MayAppend(item) ==
    /\ writer = "open"
    /\ kind = "evidence" => item \notin ids
    /\ Len(file \o buffer) + 2 <= MaxUnits

AppendLine(item, durability) ==
    /\ MayAppend(item)
    /\ \E w \in Write(Units(LineOf(item))) :
          IF w.reached = "raised" THEN Rejected(w)
          ELSE Accepted(LineOf(item), w, durability)
    /\ UNCHANGED <<kind, writer, entry>>

\* close gives the descriptor back even if the last flush raises.
Close ==
    /\ writer = "open"
    /\ writer' = "closed"
    /\ \E w \in Drain(file, buffer) :
          /\ file' = w.file
          /\ promised' = IF w.reached = "raised" THEN promised
                         ELSE [promised EXCEPT !["flush"] = Len(log)]
    /\ buffer' = <<>>
    /\ UNCHANGED <<kind, entry, disk, indexVars, log, health>>

\* The writers never fsync their directory: writing the manifest, the summary or
\* a snapshot into it does, once os.replace has succeeded.
SyncDirectory ==
    /\ entry = "new"
    /\ entry' = "durable"
    /\ UNCHANGED <<kind, writer, file, buffer, disk, indexVars, historyVars>>

-----------------------------------------------------------------------------
(* Faults *)

Die ==
    /\ writer = "open"
    /\ writer' = "dead"
    /\ buffer' = <<>>
    /\ UNCHANGED <<kind, entry, file, disk, indexVars, historyVars>>

PowerLoss ==
    /\ MayLosePower
    /\ writer' = IF writer = "open" THEN "dead" ELSE writer
    /\ entry' \in CASE entry = "new" -> {"durable", "lost"}
                    [] entry # "new" -> {entry}
    /\ \E n \in disk..Len(file) : file' = SubSeq(file, 1, n)
    /\ buffer' = <<>>
    /\ promised' = [promised EXCEPT !["flush"] = promised["fsync"]]
    /\ UNCHANGED <<kind, disk, indexVars, log, health>>

Next ==
    \/ \E item \in Item, durability \in {"buffered", "flush", "fsync"} :
          AppendLine(item, durability)
    \/ Close \/ SyncDirectory \/ Die \/ PowerLoss

Spec == Init /\ [][Next]_vars

-----------------------------------------------------------------------------
(* The reader *)

\* seq is the number of the line; an evidence id comes once.
InOrder(what, lines) ==
    \A i \in DOMAIN lines :
        IF what = "trace" THEN lines[i].seq = i
        ELSE \A j \in 1..(i - 1) : lines[j].item # lines[i].item

\* The units are n lines and, behind them, nothing that ends in a newline.
AreLines(units, n) ==
    /\ 2 * n <= Len(units)
    /\ \A i \in 1..n : SubSeq(units, 2 * i - 1, 2 * i) = Units(units[2 * i].line)
    /\ \A i \in (2 * n + 1)..Len(units) : units[i].part = "head"

\* read_trace and read_evidence: what has no newline at the end is left out;
\* bytes up to a newline that are not one line make the file unreadable.
Read(what, units) ==
    IF \E n \in 0..Len(units) : AreLines(units, n)
    THEN LET n == CHOOSE n \in 0..Len(units) : AreLines(units, n)
             lines == [i \in 1..n |-> units[2 * i].line]
         IN  IF InOrder(what, lines) THEN lines ELSE None
    ELSE None

\* Reading a file that is not there raises.
Shown == IF entry = "lost" THEN None ELSE Read(kind, file)

-----------------------------------------------------------------------------
(* Properties *)

\* Whatever raised, was tried again or was interrupted, the reader accepts the
\* file, and finds every seq and id in order, unless a line was accepted after
\* an append that left half of a large line in the file, or a power loss took
\* the new file itself.
ReaderAccepts == health # "spoilt" /\ entry # "lost" => Shown # None

\* While the writer is open, what its index says it has is in the file or in
\* the buffer, each line whole: an append that is refused because the evidence
\* is there already is right, and the next seq leaves no gap.
ClaimsAreWritten ==
    writer = "open" /\ health = "sound" =>
        /\ Read(kind, file \o buffer) = log
        /\ kind = "evidence" => ids = {log[i].item : i \in DOMAIN log}

\* The reader is given a prefix of what was accepted, at least up to the last
\* line for which append or close promised it, through kill and power loss.
\* That an append with FSYNC has returned is no promise that the file itself
\* survives a power loss: trace_writer.py:205 and evidence_writer.py:199 create
\* it, and no line of theirs fsyncs its directory.
Promises == INSTANCE Journal WITH
    shown <- Shown, flushed <- promised["flush"], synced <- promised["fsync"]

JournalSpec == Promises!Spec
=============================================================================
