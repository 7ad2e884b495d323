------------------------------ MODULE AuditLog ------------------------------
(***************************************************************************)
(* The audit log, internal/audit/log.go: a list in memory, bounded in      *)
(* length and in age, and a file with one line per entry that is appended  *)
(* to, or rewritten through a temporary file and a rename when entries     *)
(* were pruned.  All operations hold one mutex, so each is a step.  Errors *)
(* of the file are ignored (_ = s.appendFile), a crash may cut a line      *)
(* short, and nothing repairs a cut line: the next append continues it.    *)
(***************************************************************************)
EXTENDS Integers, Sequences, SequencesExt, FiniteSets, FiniteSetsExt

CONSTANTS
    Keys,        \* what is recorded: records with the fields what and kind
    MaxEntries,  \* maxEntries (10000 in the code)
    Retention,   \* retention, in ticks of the clock (7 days in the code)
    Window,      \* dedupWindow, in ticks (1500 ms in the code)
    MaxTime,     \* bound: the clock stops here
    MaxAdds,     \* bound: entries recorded
    MaxTrouble   \* bound: failed writes, crashes and clock steps

ASSUME KeysAssumption == \A k \in Keys : k.kind \in {"allowed", "blocked"}
ASSUME LimitAssumption == {MaxEntries, Retention, Window} \subseteq Nat \ {0} /\ Window <= Retention
ASSUME AuditBoundsAssumption == {MaxTime, MaxAdds, MaxTrouble} \subseteq Nat

VARIABLES
    items,     \* Store.items
    nextID,    \* Store.nextID
    disk,      \* what the complete lines of audit.jsonl say, without unreadable ones
    tail,      \* what the line after the last newline says: an entry, or nothing
    cut,       \* there is such a line
    now,       \* the wall clock
    up,        \* the process runs
    \* history variables
    adds,      \* bound counter: entries recorded
    trouble,   \* bound counter
    failures,  \* writes that failed or were cut short
    stepped,   \* the clock was set back while the process was down
    silenced,  \* a record was taken for a duplicate of an entry outside the window
    begin      \* the first ID this process could assign

auditVars == <<items, nextID, disk, tail, cut, now, up, adds, trouble, failures, stepped, silenced, begin>>

Entries == [id : Nat, time : 0..MaxTime, key : Keys]

\* load: the lines that parse, in the order of the file.
Parsed == disk \o tail

AuditTypeOK ==
    /\ items \in Seq(Entries) /\ Len(items) <= MaxEntries
    /\ nextID \in Nat \ {0} /\ begin \in Nat \ {0}
    /\ disk \in Seq(Entries)
    /\ tail \in Seq(Entries) /\ Len(tail) <= 1
    /\ cut \in BOOLEAN /\ (tail # <<>> => cut)
    /\ now \in 0..MaxTime
    /\ up \in BOOLEAN /\ stepped \in BOOLEAN /\ silenced \in BOOLEAN
    /\ adds \in 0..MaxAdds /\ trouble \in 0..MaxTrouble
    /\ failures \in Nat

\* A first start in an empty data directory.
AuditInit ==
    /\ items = <<>> /\ nextID = 1 /\ begin = 1
    /\ disk = <<>> /\ tail = <<>> /\ cut = FALSE
    /\ now = 0 /\ up = TRUE
    /\ adds = 0 /\ trouble = 0 /\ failures = 0
    /\ stepped = FALSE /\ silenced = FALSE

-----------------------------------------------------------------------------
(* The pieces of the operations. *)

\* The elements of s that are in K, in their order.
Only(s, K) ==
    LET kept[i \in 0..Len(s)] ==
            IF i = 0 THEN <<>>
            ELSE IF s[i] \in K THEN Append(kept[i - 1], s[i]) ELSE kept[i - 1]
    IN  kept[Len(s)]

\* The last n elements of s, or all of them.
LastOf(s, n) == IF Len(s) > n THEN SubSeq(s, Len(s) - n + 1, Len(s)) ELSE s

\* pruneLocked.
Expired(e) == e.time < now - Retention

Pruned(s) == LastOf(Only(s, {e \in Range(s) : ~Expired(e)}), MaxEntries)

\* The scan of Add: from the newest entry back to the first one that is not
\* younger than the window.
Scanned(s) ==
    {i \in 1..Len(s) : \A j \in i..Len(s) : now - s[j].time < Window}

\* (Fault) An entry of any age makes a duplicate.
DuplicateEver(s, k) == \E i \in 1..Len(s) : s[i].key = k

Duplicate(s, k) == \E i \in Scanned(s) : s[i].key = k

\* writeEntry at the end of the file: all of it, nothing, or a part, which
\* may lack no more than the newline.  What an unterminated line is continued
\* with does not parse any more, and neither does that line.
AppendOutcomes(e) ==
    LET says == IF cut THEN <<>> ELSE <<e>> IN
    { [disk |-> disk \o says, tail |-> <<>>, cut |-> FALSE, bad |-> 0],
      [disk |-> disk, tail |-> tail, cut |-> cut,  bad |-> 1],
      [disk |-> disk, tail |-> <<>>, cut |-> TRUE, bad |-> 1],
      [disk |-> disk, tail |-> says, cut |-> TRUE, bad |-> 1] }

\* (Fault) The file is truncated and written in place.
RewriteInPlace(s) ==
    { [disk |-> s, tail |-> <<>>, cut |-> FALSE, bad |-> 0],
      [disk |-> <<>>, tail |-> <<>>, cut |-> FALSE, bad |-> 1] }

\* rewriteFile: through the temporary file, so all of it or nothing.
RewriteOutcomes(s) ==
    { [disk |-> s, tail |-> <<>>, cut |-> FALSE, bad |-> 0],
      [disk |-> disk, tail |-> tail, cut |-> cut, bad |-> 1] }

File(outcome) ==
    /\ disk' = outcome.disk
    /\ tail' = outcome.tail
    /\ cut' = outcome.cut
    /\ failures' = failures + outcome.bad
    /\ trouble' = trouble + outcome.bad
    /\ trouble' <= MaxTrouble

-----------------------------------------------------------------------------
(* The operations. *)

\* Add; the process may also crash in the middle of its write.
Add(k) ==
    /\ up /\ adds < MaxAdds
    /\ ~Duplicate(items, k)
    /\ adds' = adds + 1
    /\ LET e     == [id |-> nextID, time |-> now, key |-> k]
           added == Append(items, e)
           kept  == Pruned(added)
       IN  /\ items' = kept
           /\ \E o \in IF kept # added THEN RewriteOutcomes(kept) ELSE AppendOutcomes(e) : File(o)
    /\ nextID' = nextID + 1
    /\ UNCHANGED <<now, up, stepped, silenced, begin>>

\* Add returns early: a double report of one event.
Suppress(k) ==
    /\ up
    /\ Duplicate(items, k)
    /\ silenced' = (silenced \/ \A i \in 1..Len(items) :
                        items[i].key = k => (items[i].time > now \/ now - items[i].time >= Window))
    /\ UNCHANGED <<items, nextID, disk, tail, cut, now, up, adds, trouble, failures, stepped, begin>>

\* (Fault) List prunes the memory only.
ListNoRewrite ==
    /\ up
    /\ Pruned(items) # items
    /\ items' = Pruned(items)
    /\ UNCHANGED <<nextID, disk, tail, cut, now, up, adds, trouble, failures, stepped, silenced, begin>>

\* List prunes before it answers.
List ==
    /\ up
    /\ Pruned(items) # items
    /\ items' = Pruned(items)
    /\ \E o \in RewriteOutcomes(items') : File(o)
    /\ UNCHANGED <<nextID, now, up, adds, stepped, silenced, begin>>

Tick ==
    /\ now < MaxTime
    /\ now' = now + 1
    /\ UNCHANGED <<items, nextID, disk, tail, cut, up, adds, trouble, failures, stepped, silenced, begin>>

Crash ==
    /\ up /\ trouble < MaxTrouble
    /\ up' = FALSE
    /\ trouble' = trouble + 1
    /\ UNCHANGED <<items, nextID, disk, tail, cut, now, adds, failures, stepped, silenced, begin>>

\* Without a battery the clock may start in the past.
ClockBack ==
    /\ ~up /\ now > 0 /\ trouble < MaxTrouble
    /\ now' = 0
    /\ stepped' = TRUE
    /\ trouble' = trouble + 1
    /\ UNCHANGED <<items, nextID, disk, tail, cut, up, adds, failures, silenced, begin>>

\* (Fault) IDs go on from the entries that have not expired.
NextFreeKept(s) == Max({e.id : e \in {x \in Range(s) : ~Expired(x)}} \cup {0}) + 1

\* The ID after the greatest one in the file, 1 for an empty file.
NextFree(s) == Max({s[i].id : i \in 1..Len(s)} \cup {0}) + 1

\* Open: load, prune, and rewrite when something was pruned.  (A file that cannot
\* be opened, or has a line of a megabyte, ends the start; nothing is changed.)
Restart ==
    /\ ~up
    /\ up' = TRUE
    /\ nextID' = NextFree(Parsed)
    /\ LET kept == Pruned(Parsed)
       IN  /\ items' = kept
           /\ IF kept # Parsed
              THEN \E o \in RewriteOutcomes(kept) : File(o)
              ELSE UNCHANGED <<disk, tail, cut, failures, trouble>>
    /\ begin' = nextID'
    /\ UNCHANGED <<now, adds, stepped, silenced>>

AuditNext ==
    \/ \E k \in Keys : Add(k) \/ Suppress(k)
    \/ List \/ Tick \/ Crash \/ ClockBack \/ Restart

AuditSpec == AuditInit /\ [][AuditNext]_auditVars

-----------------------------------------------------------------------------
(* List's answer: the page-th page of the filtered entries, newest first. *)

Filtered(filter) ==
    Only(items, {e \in Range(items) : filter = "all" \/ e.key.kind = filter})

\* (Fault) The last, shorter page is forgotten.
TotalPagesFloor(total, size) == total \div size

TotalPages(total, size) == (total + size - 1) \div size

ListPage(page, size, filter) ==
    LET all   == Filtered(filter)
        total == Len(all)
        pages == TotalPages(total, size)
        p     == IF page < 1 THEN 1 ELSE IF page > pages THEN pages ELSE page
        first == IF total - p * size < 0 THEN 0 ELSE total - p * size
        last  == total - (p - 1) * size
    IN  IF pages = 0 THEN <<>> ELSE Reverse(SubSeq(all, first + 1, last))

-----------------------------------------------------------------------------
(* Properties. *)

\* An ID names one event.  No two of the entries that are in memory or can be
\* read from the file share one, also after a restart from a file with holes,
\* cut lines and entries that a failed rewrite left behind, and the next entry
\* gets a greater one than all of them.  An ID is given again when nothing tells
\* that it was given: after a restart, if the entry never reached the file, or if
\* every entry has expired; while the log has an entry, no write failed and the
\* clock was not set back, a restart goes on where the process stopped.
\* Code: load takes nextID from all it can parse, before it prunes.
OneEntryPerId ==
    LET known == Range(items) \cup Range(Parsed)
    IN  /\ \A a, b \in known : a.id = b.id => a = b
        /\ up => \A a \in known : a.id < nextID
        /\ failures = 0 /\ ~stepped /\ items # <<>> => NextFree(Parsed) = nextID

\* The log records an event unless it recorded one like it within the window,
\* and only then: no event twice in a window, even with other entries in between
\* or a restart, and none left out for an entry outside it.  Either half needs
\* a clock that was not set back.
RecordedUnlessRecent ==
    /\ \A i, j \in 1..Len(items) :
          (i < j /\ items[i].key = items[j].key /\ (~stepped \/ items[i].id >= begin))
              => items[j].time - items[i].time >= Window
    /\ silenced => stepped

\* Each failed or cut write costs the file at most two of the entries that are
\* in memory: its own, and the one whose line continues a cut line.
LossBounded ==
    up => Cardinality({i \in 1..Len(items) : ~Contains(Parsed, items[i])}) <= 2 * failures

\* With no failed write the file says what the memory says, but for entries
\* that have expired: nothing is lost by a crash between two operations.
FileFollowsMemory == (up /\ failures = 0) => Parsed = items

\* The pages of a listing are the filtered entries, newest first, cut into
\* stretches without holes or repetitions, for every size of page; all but
\* the last are full, and none is empty.  Who asks for a page before the first or
\* past the last, as when entries expired meanwhile, is shown the first or the last.
PagesPartition ==
    \A size \in 1..MaxEntries + 1, filter \in {"all", "allowed", "blocked"} :
        LET listing == Reverse(Filtered(filter))
            total   == Len(listing)
            n       == TotalPages(total, size)
        IN  /\ total <= n * size /\ (n > 0 => (n - 1) * size < total)
            /\ n = 0 => listing = <<>>
            /\ \A p \in 1..n, wanted \in -1..n + 2 :
                  wanted = p \/ (wanted < 1 /\ p = 1) \/ (wanted > n /\ p = n) =>
                      ListPage(wanted, size, filter)
                          = SubSeq(listing, (p - 1) * size + 1, IF p < n THEN p * size ELSE total)
=============================================================================
