------------------------------- MODULE Journal -------------------------------
(***************************************************************************)
(* What an append-only file promises its reader (architecture 19.3): the   *)
(* lines that were accepted, in that order and without a gap, never fewer  *)
(* than were promised.  A reader sees ever more of them; only a power loss *)
(* takes lines away: none of those that were fsynced, or the whole file,   *)
(* as long as its directory was not.  The promise ends when a line is      *)
(* accepted after an append that raised with half of its line written.     *)
(* Ledger is shown to implement this.                                      *)
(***************************************************************************)
EXTENDS Naturals, Sequences

CONSTANTS Line, None

VARIABLES log,       \* the lines accepted
          shown,     \* what a reader is given, None if it is refused
          entry,     \* the file's name: "new", "durable" or "lost"
          flushed,   \* how many lines survive the death of the writer
          synced,    \* how many survive a power loss that leaves the file
          health     \* "sound", "cut" after half a line, "spoilt"

vars == <<log, shown, entry, flushed, synced, health>>

Init ==
    /\ log = <<>> /\ shown = <<>> /\ entry = "new"
    /\ flushed = 0 /\ synced = 0
    /\ health = "sound"

Shows(least) ==
    \/ \E n \in least..Len(log') : shown' = SubSeq(log', 1, n)
    \/ health' = "spoilt" /\ shown' = None

Accept(l) ==
    /\ log' = Append(log, l)
    /\ health' = IF health = "sound" THEN "sound" ELSE "spoilt"

Break == log' = log /\ health' = IF health = "sound" THEN "cut" ELSE health

Write ==
    /\ entry # "lost" /\ entry' = entry
    /\ Break \/ (\E l \in Line : Accept(l)) \/ UNCHANGED <<log, health>>
    /\ synced' \in synced..Len(log')
    /\ flushed' \in (flushed..Len(log')) \cap (synced'..Len(log'))
    /\ Shows(flushed')
    /\ shown # None /\ shown' # None => Len(shown) <= Len(shown')

SyncDirectory ==
    /\ entry = "new" /\ entry' = "durable"
    /\ UNCHANGED <<log, shown, flushed, synced, health>>

\* What a power loss has left once, the next one leaves too.
PowerLoss ==
    /\ UNCHANGED <<log, synced, health>>
    /\ flushed' = synced
    /\ \/ entry # "lost" /\ entry' = "durable" /\ Shows(synced)
       \/ entry # "durable" /\ entry' = "lost" /\ shown' = None

Next == Write \/ SyncDirectory \/ PowerLoss

Spec == Init /\ [][Next]_vars
=============================================================================
