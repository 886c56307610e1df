------------------------------- MODULE History -------------------------------
(***************************************************************************)
(* The history list (history.cpp): the packets of the last half hour, used *)
(* to recognise duplicates, to welcome new users and to gate posits.       *)
(*                                                                         *)
(* The doubly linked list pHead .. pTail is a sequence here, oldest first; *)
(* module HistoryList has the pointers.  Every function that reads or      *)
(* changes the list holds pmtxHistory, so each is one action.  The mutex   *)
(* DupCheck takes besides protects nothing more.                           *)
(*                                                                         *)
(* The clock counts seconds in units of the model's choice; ttl counts     *)
(* minutes and only DeleteOldItems changes it, so the two are independent. *)
(*                                                                         *)
(* SaveHistory writes the file entry by entry and may stop anywhere, for   *)
(* an error or because the process ends; ReadHistory stops at the first    *)
(* line that does not look as it expects.                                  *)
(***************************************************************************)
EXTENDS Integers, Sequences, SequencesExt, Lists

CONSTANTS
    Packets,     \* what arrives: records [src, type, data]
    RfPackets,   \* those of them that also go to the radio
    NoFile,      \* there is no history.txt yet, or nobody has looked at its end
    NoCall,      \* no AddHistoryItem has just returned
    Blank,       \* the packet an empty line is parsed to
    cut,         \* texts of more than 251 characters to the first 251 of each
    Scraps,      \* what a text that broke off may be parsed to: [src, data]
    DupWindow,   \* DupCheck's t, 30 seconds
    MaxLag,      \* longest wait of a packet between its creation and its
                 \* AddHistoryItem, in the queue in front of DeQueue
    ttlDefault,  \* ttl of a packet for the Internet, in minutes
    FileLife,    \* ttlDefault * 60 in clock units: what ReadHistory takes back
    MaxTime,     \* bound on the clock
    MaxItems,    \* bound on the length of the list
    MaxRestarts  \* bound on the number of restarts

ASSUME TimesAssumption ==
    /\ DupWindow \in Nat /\ MaxLag \in Nat /\ FileLife \in Nat
    /\ ttlDefault \in Nat \ {0}
    /\ MaxRestarts \in Nat

Arriving == Packets \cup RfPackets

CutShort(p) == IF p.data \in DOMAIN cut THEN [p EXCEPT !.data = cut[p.data]] ELSE p

Parsed == Arriving \cup {CutShort(p) : p \in Arriving}

\* The constructor derives the type of a packet from its text, no part of which
\* is behind the 251st character, and finds no station in an empty line.
ASSUME ParserAssumption ==
    /\ \A p \in Arriving : p = [src |-> p.src, type |-> p.type, data |-> p.data]
    /\ \A p, q \in Parsed :
          /\ p.src = q.src /\ p.data = q.data => p.type = q.type
          /\ p.src # Blank.src /\ p.data # Blank.data

ASSUME TextsAssumption ==
    /\ \A d \in DOMAIN cut : cut[d] \notin DOMAIN cut
    /\ Blank.data \notin DOMAIN cut
    /\ \A s \in Scraps : s.data \notin DOMAIN cut /\ s.data # Blank.data

destNONE == 0  \* what the constructor gives an aprsString
destINET == 1
destTNC  == 2
ttlTNC   == 5  \* dequeueTNC: "This only exist  5 minutes for dup checking"
AgeStep  == 5  \* main calls DeleteOldItems(5)

VARIABLES
    list,      \* the history list, from pHead to pTail
    now,       \* the clock, time()
    disk,      \* the contents of history.txt: the lines, and what its end is
               \* read as
    verdict,   \* AddHistoryItem's last argument and result
    restarts   \* how often the server was restarted

vars == <<list, now, disk, verdict, restarts>>

Age(e) == now - e.timestamp

\* The station and the kind of packet an entry stands for.
SameKey(x, y) == x.src = y.src /\ x.type = y.type /\ x.dest = y.dest

\* What makes one packet a duplicate of another.
SamePacket(x, y) == x.src = y.src /\ x.dest = y.dest /\ x.data = y.data

\* The scan starts at the tail if the tail is young enough, and goes back one
\* entry as long as the entry it leaves is young enough.
Scanned(l, i) ==
    /\ Age(Last(l)) <= DupWindow
    /\ \A j \in i + 1 .. Len(l) : Age(l[j]) <= DupWindow

\* A bug to look for: only the newest packet is compared.
DupCheckNewest(l, ref) == ~ref.allowdup /\ SamePacket(ref, Last(l))

DupCheck(l, ref) ==
    /\ ~ref.allowdup
    /\ \E i \in DOMAIN l : Scanned(l, i) /\ SamePacket(ref, l[i])

\* A bug to look for: the test for a short list is off by one.
DeleteItemIfLong(l, ref) ==
    IF Len(l) <= 2 THEN l ELSE Keeping(l, {e \in ToSet(l) : ~SameKey(e, ref)})

\* Nothing is deleted from a list whose head is its tail.
DeleteItem(l, ref) ==
    IF Len(l) <= 1 THEN l ELSE Keeping(l, {e \in ToSet(l) : ~SameKey(e, ref)})

IsDup(l, hp) == l # <<>> /\ DupCheck(l, hp)

Added(l, hp) ==
    IF IsDup(l, hp) THEN l ELSE Append(DeleteItem(l, hp), hp)

Entry(p, dest, ttl, timestamp, echo, allowdup) ==
    [src |-> p.src, type |-> p.type, data |-> p.data, dest |-> dest,
     ttl |-> ttl, timestamp |-> timestamp, echo |-> echo,
     allowdup |-> allowdup]

Init ==
    /\ list = <<>>
    /\ now = 0
    /\ disk = NoFile
    /\ verdict = NoCall
    /\ restarts = 0

Tick ==
    /\ now < MaxTime
    /\ now' = now + 1
    /\ verdict' = NoCall
    /\ UNCHANGED <<list, disk, restarts>>

AddHistoryItem(hp) ==
    /\ Len(list) < MaxItems
    /\ list' = Added(list, hp)
    /\ verdict' = [item |-> hp, dup |-> IsDup(list, hp)]
    /\ UNCHANGED <<now, disk, restarts>>

\* DeQueue, for a packet that goes to the Internet.
AddInet(p, timestamp) ==
    AddHistoryItem(Entry(p, destINET, ttlDefault, timestamp, TRUE, FALSE))

\* dequeueTNC, for a packet that goes to the radio: its EchoMask is cleared,
\* and a repeated ack carries allowdup.
AddTnc(p, timestamp, allowdup) ==
    AddHistoryItem(Entry(p, destTNC, ttlTNC, timestamp, FALSE, allowdup))

Older(l) == [i \in DOMAIN l |-> [l[i] EXCEPT !.ttl = @ - AgeStep]]

\* Bugs to look for: only a ttl of exactly zero has run out, or the last round
\* of an entry is one too few.
AgedToZero(l) == Keeping(Older(l), {e \in ToSet(Older(l)) : e.ttl # 0})
AgedEarly(l) == Keeping(Older(l), {e \in ToSet(Older(l)) : e.ttl > AgeStep})

Aged(l) == Keeping(Older(l), {e \in ToSet(Older(l)) : e.ttl > 0})

\* Every five minutes.  An empty list and one of a single item are left alone,
\* but main looks at the list before it takes the lock: it may find a single
\* item there later and age it.
DeleteOldItems ==
    /\ \/ Len(list) <= 1 /\ UNCHANGED list
       \/ list # <<>> /\ list' = Aged(list)
    /\ verdict' = NoCall
    /\ UNCHANGED <<now, disk, restarts>>

IsLong(e) == e.data \in DOMAIN cut
IsEmpty(e) == e.data = Blank.data

\* A line of the file: ttl, timestamp, EchoMask, aprsType and at most 251
\* characters of the text.  The rest comes from the constructor.
FromLine(e) == [e EXCEPT !.dest = destNONE, !.allowdup = FALSE,
                         !.data = IF IsLong(e) THEN cut[e.data] ELSE e.data]

\* No text could be read, and the numbers are those read last.
Unread(e) == [FromLine(e) EXCEPT !.src = Blank.src, !.data = Blank.data]

\* What is left of a long line is taken for the numbers of the next one; the
\* first of them becomes 0 and the others stay as they were.
LeftOver(e) == [Unread(e) EXCEPT !.ttl = 0]

\* The read loop notices the end of the file only after it tried to read one
\* more line.
AtEof(lines) == IF lines = <<>> THEN <<>> ELSE <<Unread(Last(lines))>>

\* The file ends within the text of e, or within its numbers behind line p.
\* A broken time stamp is too old for the line to count.
BrokenText(e) ==
    {<<[FromLine(e) EXCEPT !.src = s.src, !.data = s.data]>> : s \in Scraps}
      \cup {<<FromLine(e)>>}
      \cup {<<FromLine(x), LeftOver(x)>> : x \in {y \in {e} : IsLong(y)}}

BrokenNumbers(p, e) ==
    {<<>>} \cup {<<[Unread(p) EXCEPT !.ttl = t]>> : t \in {p.ttl, e.ttl, e.ttl \div 10}}
           \cup {<<[Unread(e) EXCEPT !.type = t]>> : t \in {p.type, e.type}}

\* What the end of the file may be read as when n entries of l were written in
\* whole.
Ends(l, n) ==
    {AtEof(SubSeq(l, 1, n))}
      \cup (IF n < Len(l) THEN BrokenText(l[n + 1]) ELSE {})
      \cup (IF n \in 1 .. Len(l) - 1 THEN BrokenNumbers(l[n], l[n + 1]) ELSE {})

\* Entries that are sent nowhere are not saved; an empty list leaves the file
\* as it was.  The file is emptied first and then written entry by entry.  How
\* much of it gets there before an error or the end of the process shows when
\* the file is read: it may be any beginning.
SaveHistory ==
    /\ restarts < MaxRestarts  \* bound: nobody would read the file
    /\ list # <<>>
    /\ disk' = [lines |-> Keeping(list, {e \in ToSet(list) : e.echo}), tail |-> NoFile]
    /\ verdict' = NoCall
    /\ UNCHANGED <<list, now, restarts>>

\* The file as the next process finds it.
Found ==
    IF disk.tail # NoFile THEN {disk}
    ELSE UNION {{[lines |-> SubSeq(disk.lines, 1, n), tail |-> end] : end \in Ends(disk.lines, n)} :
                  n \in 0 .. Len(disk.lines)}

\* The loop ends after a line that is too long or has no text.
Stops(e) == IsLong(e) \/ IsEmpty(e)

IsLastRead(l, m) ==
    /\ m = Len(l) \/ Stops(l[m])
    /\ \A j \in 1 .. m - 1 : ~Stops(l[j])

Lines(file) ==
    IF file.lines = <<>> THEN file.tail
    ELSE LET l == file.lines
             m == CHOOSE k \in DOMAIN l : IsLastRead(l, k)
             rest == CASE IsLong(l[m])  -> <<LeftOver(l[m])>>
                       [] IsEmpty(l[m]) -> <<>>
                       [] OTHER         -> file.tail
         IN  [i \in 1 .. m |-> FromLine(l[i])] \o rest

\* A bug to look for: an entry that is just young enough is not read.
ReadHistoryYounger(file) ==
    LET line == Lines(file)
        read[n \in 0 .. Len(line)] ==
          IF n = 0 THEN <<>>
          ELSE IF Age(line[n]) < FileLife THEN Added(read[n - 1], line[n]) ELSE read[n - 1]
    IN  read[Len(line)]

ReadHistory(file) ==
    LET line == Lines(file)
        read[n \in 0 .. Len(line)] ==
          IF n = 0 THEN <<>>
          ELSE IF Age(line[n]) <= FileLife THEN Added(read[n - 1], line[n]) ELSE read[n - 1]
    IN  read[Len(line)]

\* The numbers of the empty text an empty file is read as are uninitialised.
Garbage == [src : {Blank.src}, type : {Blank.type}, data : {Blank.data},
            dest : {destNONE}, ttl : {0, ttlDefault}, timestamp : 0 .. now,
            echo : BOOLEAN, allowdup : {FALSE}]

\* The list in memory is lost, at any time, also while it is being saved, and
\* the next process reads the file.
Restart ==
    /\ restarts < MaxRestarts
    /\ restarts' = restarts + 1
    /\ \/ disk = NoFile /\ list' = <<>> /\ UNCHANGED disk
       \/ /\ disk # NoFile
          /\ disk' \in Found
          /\ IF disk'.lines = <<>> /\ disk'.tail = <<>>
             THEN list' \in {<<>>} \cup {<<e>> : e \in Garbage}
             ELSE list' = ReadHistory(disk')
    /\ verdict' = NoCall
    /\ UNCHANGED now

Created == {t \in 0 .. now : now - t <= MaxLag}

Next ==
    \/ Tick
    \/ \E p \in Packets, t \in Created : AddInet(p, t)
    \/ \E p \in RfPackets, t \in Created, a \in BOOLEAN : AddTnc(p, t, a)
    \/ DeleteOldItems
    \/ SaveHistory
    \/ Restart

Spec == Init /\ [][Next]_vars
------------------------------------------------------------------------------
Sources == {p.src : p \in Parsed \cup {Blank} \cup Scraps}
Types == {p.type : p \in Parsed \cup {Blank}}
Texts == {p.data : p \in Parsed \cup {Blank} \cup Scraps}

Entries == [src : Sources, type : Types, data : Texts,
            dest : {destNONE, destINET, destTNC}, ttl : Nat,
            timestamp : Nat, echo : BOOLEAN, allowdup : BOOLEAN]

ASSUME NoCallAssumption == NoCall \notin [item : Entries, dup : BOOLEAN]

TypeOK ==
    /\ list \in Seq(Entries)
    /\ \A i \in DOMAIN list : list[i].timestamp <= now
    /\ now \in Nat
    /\ disk = NoFile \/ disk \in [lines : Seq(Entries), tail : Seq(Entries) \cup {NoFile}]
    /\ verdict = NoCall \/ verdict \in [item : Entries, dup : BOOLEAN]
    /\ restarts \in 0 .. MaxRestarts

\* The list holds a station's packet of one kind twice in one case only: the
\* older was alone in the list when the newer came, and they still are its
\* two oldest entries (history.cpp 226, DeleteItem's early return).
KeyClashOnlyAtFront ==
    \A i, j \in DOMAIN list :
        i < j /\ SameKey(list[i], list[j]) => i = 1 /\ j = 2

Accepted == verdict' # NoCall /\ ~verdict'.dup

\* A packet goes through as new only when no young duplicate is listed, even
\* though packets may be stored in another order than they were created in:
\* the early end of DupCheck's scan costs at most MaxLag (history.cpp 278).
RecentDuplicateCaught ==
    [][Accepted /\ ~verdict'.item.allowdup =>
         \A i \in DOMAIN list :
            SamePacket(list[i], verdict'.item) => Age(list[i]) > DupWindow - MaxLag]_vars

\* The newest packet of a station is never lost to anything but a newer one,
\* its age or a restart (history.cpp 192-251).
NothingLostEarly ==
    [][restarts' = restarts =>
         \A i \in DOMAIN list :
            \/ \E j \in DOMAIN list' :
                  list'[j] = [list[i] EXCEPT !.ttl = list'[j].ttl]
            \/ list[i].ttl <= AgeStep /\ verdict' = NoCall
            \/ Accepted /\ SameKey(list[i], Last(list'))]_vars

\* After a restart each station with a young packet in a whole line of the file
\* is back with one of that kind, as long as no line in front of it was too
\* long or empty: the duplicate filter and the replacement by kind, which the
\* lines pass through again, drop no station for good, and neither does what
\* the end of a broken file is taken for.  The empty text is nobody's, and what
\* broke off in an earlier file has no kind of its own (history.cpp 540-635).
RestartBringsBackWhatIsRead ==
    [][restarts' # restarts /\ disk' # NoFile =>
         \A i \in DOMAIN disk'.lines :
            LET e == FromLine(disk'.lines[i]) IN
            /\ \A j \in 1 .. i - 1 : ~Stops(disk'.lines[j])
            /\ Age(e) <= FileLife /\ e.src # Blank.src
            /\ e.data \notin {s.data : s \in Scraps}
            => \E j \in DOMAIN list' : list'[j].src = e.src /\ list'[j].type = e.type]_vars
==============================================================================
